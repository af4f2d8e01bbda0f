\* Two calls, of any operation over either adapter; files of up to three bytes.
CONSTANTS
  MaxSize = 3
  MaxCalls = 2
SPECIFICATION S3Spec
\* The bound on calls lets the system come to rest.
CHECK_DEADLOCK FALSE
INVARIANTS TrueVerdict NeverTruncated

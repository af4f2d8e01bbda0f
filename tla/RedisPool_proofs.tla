--------------------------- MODULE RedisPool_proofs ---------------------------
(***************************************************************************)
(* Proofs about RedisPool.  A goroutine's stack is reasoned about position    *)
(* by position: what is at the top, what may lie under what, and what the     *)
(* goroutine that will return to a point is known to hold until then.         *)
(***************************************************************************)
EXTENDS RedisPool, TLAPS

LEMMA Bounds == MaxRetries \in Nat \ {0} /\ MaxCalls \in Nat /\ MaxOutages \in Nat
                /\ Main \in Routine /\ None \notin Routine
  BY ConstAssumption DEF ConstAssumption

-----------------------------------------------------------------------------
(* Stacks. *)

(* A new top. *)
LEMMA NewTop ==
  ASSUME NEW S, NEW s \in Seq(S), s # <<>>, NEW x \in S
  PROVE  /\ <<x>> \o Tail(s) \in Seq(S)
         /\ Len(<<x>> \o Tail(s)) = Len(s)
         /\ (<<x>> \o Tail(s))[1] = x
         /\ \A i \in 2 .. Len(s) : (<<x>> \o Tail(s))[i] = s[i]
  OBVIOUS

(* A new top over a new point of return. *)
LEMMA TwoNew ==
  ASSUME NEW S, NEW s \in Seq(S), s # <<>>, NEW x \in S, NEW y \in S
  PROVE  /\ <<x, y>> \o Tail(s) \in Seq(S)
         /\ Len(<<x, y>> \o Tail(s)) = Len(s) + 1
         /\ (<<x, y>> \o Tail(s))[1] = x /\ (<<x, y>> \o Tail(s))[2] = y
         /\ \A i \in 3 .. Len(s) + 1 : (<<x, y>> \o Tail(s))[i] = s[i - 1]
  OBVIOUS

(* The top taken away. *)
LEMMA TopAway ==
  ASSUME NEW S, NEW s \in Seq(S), s # <<>>
  PROVE  /\ Tail(s) \in Seq(S)
         /\ Len(Tail(s)) = Len(s) - 1
         /\ \A i \in 1 .. Len(s) - 1 : Tail(s)[i] = s[i + 1]
  OBVIOUS

(* The head of a stack that is not empty is its first element. *)
LEMMA TopOf ==
  ASSUME NEW S, NEW s \in Seq(S), s # <<>>
  PROVE  Len(s) \in Nat \ {0} /\ Head(s) = s[1] /\ s[1] \in S
  OBVIOUS

Stacks == [Routine -> Seq(Label)]

LEMMA GotoStack ==
  ASSUME stack \in Stacks, NEW g \in Routine, stack[g] # <<>>, NEW label \in Label,
         Goto(g, label)
  PROVE  /\ stack' \in Stacks /\ stack'[g] # <<>>
         /\ \A h \in Routine \ {g} : stack'[h] = stack[h]
         /\ Len(stack'[g]) = Len(stack[g])
         /\ stack'[g][1] = label
         /\ \A i \in 2 .. Len(stack[g]) : stack'[g][i] = stack[g][i]
<1> DEFINE new == <<label>> \o Tail(stack[g])
<1>1. /\ new \in Seq(Label) /\ Len(new) = Len(stack[g]) /\ new[1] = label
      /\ \A i \in 2 .. Len(stack[g]) : new[i] = stack[g][i]
  BY NewTop DEF Stacks
<1>2. stack' = [stack EXCEPT ![g] = new]
  BY DEF Goto
<1>3. stack[g] \in Seq(Label) /\ Len(stack[g]) # 0
  BY DEF Stacks
<1>4. new # <<>>
  <2>1. Len(new) # 0
    BY <1>1, <1>3
  <2> HIDE DEF new
  <2> QED
    BY <1>1, <2>1
<1> HIDE DEF new
<1> QED
  BY <1>1, <1>2, <1>4 DEF Stacks

LEMMA InvokeStack ==
  ASSUME stack \in Stacks, NEW g \in Routine, stack[g] # <<>>,
         NEW function \in Label, NEW back \in Label, Invoke(g, function, back)
  PROVE  /\ stack' \in Stacks /\ stack'[g] # <<>>
         /\ \A h \in Routine \ {g} : stack'[h] = stack[h]
         /\ Len(stack'[g]) = Len(stack[g]) + 1
         /\ stack'[g][1] = function /\ stack'[g][2] = back
         /\ \A i \in 3 .. Len(stack[g]) + 1 : stack'[g][i] = stack[g][i - 1]
<1> DEFINE new == <<function, back>> \o Tail(stack[g])
<1>1. /\ new \in Seq(Label) /\ Len(new) = Len(stack[g]) + 1 /\ new[1] = function /\ new[2] = back
      /\ \A i \in 3 .. Len(stack[g]) + 1 : new[i] = stack[g][i - 1]
  BY TwoNew DEF Stacks
<1>2. stack' = [stack EXCEPT ![g] = new]
  BY DEF Invoke
<1>3. stack[g] \in Seq(Label) /\ Len(stack[g]) \in Nat
  BY DEF Stacks
<1>4. new # <<>>
  <2>1. Len(new) # 0
    BY <1>1, <1>3
  <2> HIDE DEF new
  <2> QED
    BY <1>1, <2>1
<1> HIDE DEF new
<1> QED
  BY <1>1, <1>2, <1>4 DEF Stacks

LEMMA ReturnStack ==
  ASSUME stack \in Stacks, NEW g \in Routine, stack[g] # <<>>, NEW err, Return(g, err)
  PROVE  /\ stack' \in Stacks
         /\ \A h \in Routine \ {g} : stack'[h] = stack[h]
         /\ Len(stack'[g]) = Len(stack[g]) - 1
         /\ \A i \in 1 .. Len(stack[g]) - 1 : stack'[g][i] = stack[g][i + 1]
<1> DEFINE new == Tail(stack[g])
<1>1. /\ new \in Seq(Label) /\ Len(new) = Len(stack[g]) - 1
      /\ \A i \in 1 .. Len(stack[g]) - 1 : new[i] = stack[g][i + 1]
  BY TopAway DEF Stacks
<1>2. stack' = [stack EXCEPT ![g] = new]
  BY DEF Return
<1> HIDE DEF new
<1> QED
  BY <1>1, <1>2 DEF Stacks

-----------------------------------------------------------------------------
(* Types.  What lies under the top is a point of return, and a goroutine that *)
(* is about to attempt has attempts left.                                     *)

Back == {"attempted", "synced", "rebuilt", "onceDone"}

Under == \A g \in Routine : \A i \in 2 .. Len(stack[g]) : stack[g][i] \in Back

AttemptsLeft == \A g \in Routine : At(g, "attempt") => attempt[g] < MaxRetries

TypeInv == TypeOK /\ Under /\ AttemptsLeft

LEMMA TypeInit == Init => TypeInv
<1> SUFFICES ASSUME Init PROVE TypeInv
  OBVIOUS
<1>1. stack = [g \in Routine |-> <<>>] /\ <<>> \in Seq(Label) /\ Len(<<>>) = 0
  BY DEF Init
<1>2. Under /\ AttemptsLeft
  BY <1>1 DEF Under, AttemptsLeft, At
<1>3. scenario.upAtStart \in BOOLEAN
  BY ConstAssumption DEF ConstAssumption, Init
<1>4. stack \in [Routine -> Seq(Label)]
  BY <1>1
<1>5. /\ attempt \in [Routine -> 0 .. MaxRetries]
      /\ calls \in [Routine -> 0 .. MaxCalls]
      /\ outages \in 0 .. MaxOutages
      /\ up \in BOOLEAN
  BY <1>3, Bounds DEF Init
<1>6. got \in [Routine -> 0 .. opened] /\ client \in 0 .. opened /\ redisSync \in 0 .. opened
      /\ opened \in Nat
  BY DEF Init
<1> QED
  BY <1>2, <1>4, <1>5, <1>6 DEF Init, TypeOK, TypeInv

(* How the three ways of changing a stack keep Under and AttemptsLeft. *)

LEMMA GotoKeeps ==
  ASSUME stack \in Stacks, Under, AttemptsLeft,
         NEW g \in Routine, stack[g] # <<>>, NEW label \in Label, Goto(g, label),
         \A h \in Routine \ {g} : attempt'[h] = attempt[h],
         label = "attempt" => attempt'[g] < MaxRetries
  PROVE  stack' \in Stacks /\ Under' /\ AttemptsLeft'
<1>1. /\ stack' \in Stacks /\ stack'[g] # <<>>
      /\ \A h \in Routine \ {g} : stack'[h] = stack[h]
      /\ Len(stack'[g]) = Len(stack[g])
      /\ stack'[g][1] = label
      /\ \A i \in 2 .. Len(stack[g]) : stack'[g][i] = stack[g][i]
  BY GotoStack
<1>2. Under'
  BY <1>1 DEF Under
<1>3. Head(stack'[g]) = label
  BY <1>1, TopOf DEF Stacks
<1>4. AttemptsLeft'
  BY <1>1, <1>3 DEF AttemptsLeft, At
<1> QED
  BY <1>1, <1>2, <1>4

LEMMA InvokeKeeps ==
  ASSUME stack \in Stacks, Under, AttemptsLeft,
         NEW g \in Routine, stack[g] # <<>>,
         NEW function \in Label \ {"attempt"}, NEW back \in Back, Invoke(g, function, back),
         \A h \in Routine \ {g} : attempt'[h] = attempt[h]
  PROVE  stack' \in Stacks /\ Under' /\ AttemptsLeft'
<1>1. back \in Label
  BY DEF Back, Label
<1>2. /\ stack' \in Stacks /\ stack'[g] # <<>>
      /\ \A h \in Routine \ {g} : stack'[h] = stack[h]
      /\ Len(stack'[g]) = Len(stack[g]) + 1
      /\ stack'[g][1] = function /\ stack'[g][2] = back
      /\ \A i \in 3 .. Len(stack[g]) + 1 : stack'[g][i] = stack[g][i - 1]
  BY <1>1, InvokeStack
<1>3. Len(stack[g]) \in Nat
  BY DEF Stacks
<1>4. ASSUME NEW i \in 2 .. Len(stack'[g]) PROVE stack'[g][i] \in Back
  <2>1. CASE i = 2
    BY <1>2, <2>1
  <2>2. CASE i # 2
    <3>1. i \in 3 .. Len(stack[g]) + 1 /\ i - 1 \in 2 .. Len(stack[g])
      BY <1>2, <1>3, <2>2
    <3> QED
      BY <1>2, <3>1 DEF Under
  <2> QED
    BY <2>1, <2>2
<1>5. Under'
  BY <1>2, <1>4 DEF Under
<1>6. Head(stack'[g]) = function
  BY <1>2, TopOf DEF Stacks
<1>7. AttemptsLeft'
  BY <1>2, <1>6 DEF AttemptsLeft, At
<1> QED
  BY <1>2, <1>5, <1>7

LEMMA ReturnKeeps ==
  ASSUME stack \in Stacks, Under, AttemptsLeft,
         NEW g \in Routine, stack[g] # <<>>, NEW err, Return(g, err),
         attempt' = attempt
  PROVE  stack' \in Stacks /\ Under' /\ AttemptsLeft'
<1>1. /\ stack' \in Stacks
      /\ \A h \in Routine \ {g} : stack'[h] = stack[h]
      /\ Len(stack'[g]) = Len(stack[g]) - 1
      /\ \A i \in 1 .. Len(stack[g]) - 1 : stack'[g][i] = stack[g][i + 1]
  BY ReturnStack
<1>2. Len(stack[g]) \in Nat
  BY DEF Stacks
<1>3. ASSUME NEW i \in 1 .. Len(stack'[g]) PROVE stack'[g][i] \in Back
  <2>1. i \in 1 .. Len(stack[g]) - 1 /\ i + 1 \in 2 .. Len(stack[g])
    BY <1>1, <1>2
  <2> QED
    BY <1>1, <2>1 DEF Under
<1>4. Under'
  <2>1. \A i \in 2 .. Len(stack'[g]) : stack'[g][i] \in Back
    BY <1>3
  <2> QED
    BY <1>1, <2>1 DEF Under
<1>5. ASSUME stack'[g] # <<>> PROVE Head(stack'[g]) # "attempt"
  <2>1. Len(stack'[g]) \in Nat \ {0} /\ Head(stack'[g]) = stack'[g][1]
    BY <1>1, <1>5, TopOf DEF Stacks
  <2>2. stack'[g][1] \in Back
    BY <1>3, <2>1
  <2> QED
    BY <2>1, <2>2 DEF Back
<1>6. AttemptsLeft'
  BY <1>1, <1>5 DEF AttemptsLeft, At
<1> QED
  BY <1>1, <1>4, <1>6

(* The variables other than the stacks. *)
RestTypes ==
  /\ scenario \in Scenarios
  /\ options \in BOOLEAN
  /\ opened \in Nat
  /\ client \in 0 .. opened
  /\ mutex \in Routine \cup {None}
  /\ once \in {"new", "done"} \cup Routine
  /\ redisSync \in 0 .. opened
  /\ syncErr \in BOOLEAN
  /\ attempt \in [Routine -> 0 .. MaxRetries]
  /\ failed \in [Routine -> BOOLEAN]
  /\ got \in [Routine -> 0 .. opened]
  /\ calls \in [Routine -> 0 .. MaxCalls]
  /\ up \in BOOLEAN
  /\ outages \in 0 .. MaxOutages

StackTypes == stack \in Stacks /\ Under /\ AttemptsLeft

LEMMA TypeParts == TypeInv <=> RestTypes /\ StackTypes
  BY DEF TypeInv, TypeOK, RestTypes, StackTypes, Stacks

LEMMA StackTypesStep == TypeInv /\ [Next]_vars => StackTypes'
<1> SUFFICES ASSUME TypeInv, [Next]_vars PROVE StackTypes'
  OBVIOUS
<1>1. RestTypes /\ stack \in Stacks /\ Under /\ AttemptsLeft
  BY TypeParts DEF StackTypes
<1>2. ASSUME NEW g \in Routine, NEW label \in Label, stack[g] # <<>>, Goto(g, label),
             \A h \in Routine \ {g} : attempt'[h] = attempt[h],
             label = "attempt" => attempt'[g] < MaxRetries
      PROVE  StackTypes'
  BY <1>1, <1>2, GotoKeeps DEF StackTypes
<1>3. ASSUME NEW g \in Routine, stack[g] # <<>>, NEW err, Return(g, err), attempt' = attempt
      PROVE  StackTypes'
  BY <1>1, <1>3, ReturnKeeps DEF StackTypes
<1>4. ASSUME NEW g \in Routine, stack[g] # <<>>, NEW function \in Label \ {"attempt"},
             NEW back \in Back, Invoke(g, function, back),
             \A h \in Routine \ {g} : attempt'[h] = attempt[h]
      PROVE  StackTypes'
  BY <1>1, <1>4, InvokeKeeps DEF StackTypes
<1>5. ASSUME NEW g \in Routine, InitRedisOptions(g) PROVE StackTypes'
  <2>1. /\ Goto(g, "attempt") /\ stack[g] # <<>> /\ "attempt" \in Label
        /\ attempt' = [attempt EXCEPT ![g] = 0]
    BY <1>5 DEF InitRedisOptions, At, Label
  <2>2. attempt'[g] < MaxRetries /\ \A h \in Routine \ {g} : attempt'[h] = attempt[h]
    BY <1>1, <2>1, Bounds DEF RestTypes
  <2> QED
    BY <1>2, <2>1, <2>2
<1>6. ASSUME NEW g \in Routine, Attempt(g) PROVE StackTypes'
  <2>1. /\ Invoke(g, "ping", "attempted") /\ stack[g] # <<>>
        /\ "ping" \in Label \ {"attempt"} /\ "attempted" \in Back
        /\ attempt' = [attempt EXCEPT ![g] = @ + 1]
    BY <1>6 DEF Attempt, At, Label, Back
  <2>2. \A h \in Routine \ {g} : attempt'[h] = attempt[h]
    BY <1>1, <2>1 DEF RestTypes
  <2> QED
    BY <1>4, <2>1, <2>2
<1>7. ASSUME NEW g \in Routine, Attempted(g) PROVE StackTypes'
  <2>1. CASE failed[g] /\ attempt[g] < MaxRetries
    <3>1. Goto(g, "attempt") /\ stack[g] # <<>> /\ attempt' = attempt /\ "attempt" \in Label
      BY <1>7, <2>1 DEF Attempted, At, Label
    <3> QED
      BY <1>2, <2>1, <3>1
  <2>2. CASE ~(failed[g] /\ attempt[g] < MaxRetries)
    <3>1. Return(g, failed[g]) /\ stack[g] # <<>> /\ attempt' = attempt
      BY <1>7, <2>2 DEF Attempted, At
    <3> QED
      BY <1>3, <3>1
  <2> QED
    BY <2>1, <2>2
<1>8. ASSUME NEW g \in Routine, Ping(g) \/ Lock(g) PROVE StackTypes'
  <2>1. /\ \E label \in {"answered", "refused", "check"} : Goto(g, label)
        /\ stack[g] # <<>> /\ attempt' = attempt
    BY <1>8 DEF Ping, Lock, At
  <2>2. {"answered", "refused", "check"} \subseteq Label \ {"attempt"}
    BY DEF Label
  <2> QED
    BY <1>2, <2>1, <2>2
<1>9. ASSUME NEW g \in Routine,
             StoreNil(g) \/ Synced(g) \/ Rebuilt(g) \/ OnceDone(g)
      PROVE  StackTypes'
  <2>1. (\E err \in {TRUE, FALSE, failed[g]} : Return(g, err)) /\ stack[g] # <<>> /\ attempt' = attempt
    BY <1>9 DEF StoreNil, Synced, Rebuilt, OnceDone, At
  <2> QED
    BY <1>3, <2>1
<1>10. ASSUME NEW g \in Routine, StoreClient(g) PROVE StackTypes'
  <2>1. /\ Invoke(g, "sync", "synced") /\ stack[g] # <<>> /\ attempt' = attempt
        /\ "sync" \in Label \ {"attempt"} /\ "synced" \in Back
    BY <1>10 DEF StoreClient, At, Label, Back
  <2> QED
    BY <1>4, <2>1
<1>11. ASSUME NEW g \in Routine, GetRedisPoolClient(g) PROVE StackTypes'
  <2>1. /\ Goto(g, "lock") \/ \E err \in BOOLEAN : Return(g, err)
        /\ stack[g] # <<>> /\ attempt' = attempt
        /\ "lock" \in Label \ {"attempt"}
    <3>1. options \in BOOLEAN /\ (options \/ ~options) /\ (client = 0 \/ client # 0)
      BY <1>1 DEF RestTypes
    <3> QED
      BY <1>11, <3>1 DEF GetRedisPoolClient, At, Label
  <2> QED
    BY <1>2, <1>3, <2>1
<1>12. ASSUME NEW g \in Routine, DoubleCheck(g) PROVE StackTypes'
  <2>1. /\ Invoke(g, "ping", "rebuilt") \/ Return(g, FALSE)
        /\ stack[g] # <<>> /\ attempt' = attempt
        /\ "ping" \in Label \ {"attempt"} /\ "rebuilt" \in Back
    BY <1>12 DEF DoubleCheck, At, Label, Back
  <2> QED
    BY <1>3, <1>4, <2>1
<1>13. ASSUME NEW g \in Routine, InitRedSyncOnce(g) PROVE StackTypes'
  <2>1. /\ Invoke(g, "pool", "onceDone") \/ Return(g, syncErr)
        /\ stack[g] # <<>> /\ attempt' = attempt
        /\ "pool" \in Label \ {"attempt"} /\ "onceDone" \in Back
    BY <1>13 DEF InitRedSyncOnce, At, Label, Back
  <2> QED
    BY <1>3, <1>4, <2>1
<1>14. ASSUME NEW g \in Routine, NEW function \in {"options", "pool", "sync"}, Begin(g, function)
       PROVE  StackTypes'
  <2>1. stack' = [stack EXCEPT ![g] = <<function>>] /\ attempt' = attempt
    BY <1>14 DEF Begin
  <2>2. /\ <<function>> \in Seq(Label) /\ Len(<<function>>) = 1
        /\ Head(<<function>>) = function
    BY DEF Label
  <2>3. stack' \in Stacks
    BY <1>1, <2>1, <2>2 DEF Stacks
  <2>4. Under'
    BY <1>1, <2>1, <2>2 DEF Under, Stacks
  <2>5. AttemptsLeft'
    BY <1>1, <2>1, <2>2 DEF AttemptsLeft, Stacks, At
  <2> QED
    BY <2>3, <2>4, <2>5 DEF StackTypes
<1>15. CASE UNCHANGED <<stack, attempt>>
  BY <1>1, <1>15 DEF StackTypes, Stacks, Under, AttemptsLeft, At
<1>16. CASE GoesDown \/ ComesUp \/ UNCHANGED vars
  BY <1>15, <1>16 DEF GoesDown, ComesUp, vars
<1> QED
  BY <1>5, <1>6, <1>7, <1>8, <1>9, <1>10, <1>11, <1>12, <1>13, <1>14, <1>16 DEF Next, Step

LEMMA RestTypesStep == TypeInv /\ [Next]_vars => RestTypes'
<1> SUFFICES ASSUME TypeInv, [Next]_vars PROVE RestTypes'
  OBVIOUS
<1>1. RestTypes /\ AttemptsLeft
  BY TypeParts DEF StackTypes
<1> USE DEF RestTypes, configVars, syncVars, envVars
<1>2. ASSUME NEW g \in Routine, NEW function \in {"options", "pool", "sync"}, Begin(g, function)
      PROVE  RestTypes'
  BY <1>1, <1>2, Bounds DEF Begin
<1>3. ASSUME NEW g \in Routine, InitRedisOptions(g) PROVE RestTypes'
  BY <1>1, <1>3, Bounds DEF InitRedisOptions
<1>4. ASSUME NEW g \in Routine, Attempt(g) PROVE RestTypes'
  <2>1. attempt[g] + 1 \in 0 .. MaxRetries
    BY <1>1, <1>4, Bounds DEF Attempt, AttemptsLeft
  <2> QED
    BY <1>1, <1>4, <2>1 DEF Attempt
<1>5. ASSUME NEW g \in Routine, Attempted(g) \/ Ping(g) \/ Synced(g) \/ Lock(g) PROVE RestTypes'
  BY <1>1, <1>5 DEF Attempted, Ping, Synced, Lock, Return
<1>6. ASSUME NEW g \in Routine, StoreNil(g) PROVE RestTypes'
  BY <1>1, <1>6 DEF StoreNil, Return
<1>7. ASSUME NEW g \in Routine, StoreClient(g) PROVE RestTypes'
  BY <1>1, <1>7 DEF StoreClient
<1>8. ASSUME NEW g \in Routine, GetRedisPoolClient(g) PROVE RestTypes'
  BY <1>1, <1>8 DEF GetRedisPoolClient, Load, Return
<1>9. ASSUME NEW g \in Routine, DoubleCheck(g) \/ Rebuilt(g) PROVE RestTypes'
  BY <1>1, <1>9 DEF DoubleCheck, Rebuilt, Load, Return
<1>10. ASSUME NEW g \in Routine, InitRedSyncOnce(g) \/ OnceDone(g) PROVE RestTypes'
  <2>1. CASE InitRedSyncOnce(g)
    <3>1. once' \in {once, g} /\ failed' \in {failed, [failed EXCEPT ![g] = syncErr]}
      BY <2>1 DEF InitRedSyncOnce, Return
    <3> QED
      BY <1>1, <2>1, <3>1 DEF InitRedSyncOnce
  <2>2. CASE OnceDone(g)
    <3>1. /\ redisSync' \in {redisSync, got[g]} /\ syncErr' = failed[g] /\ once' = "done"
          /\ failed' = [failed EXCEPT ![g] = failed[g]]
      BY <2>2 DEF OnceDone, Return
    <3>2. redisSync' \in 0 .. opened /\ syncErr' \in BOOLEAN
      BY <1>1, <3>1
    <3> QED
      BY <1>1, <2>2, <3>1, <3>2 DEF OnceDone
  <2> QED
    BY <1>10, <2>1, <2>2
<1>11. CASE GoesDown
  <2>1. outages + 1 \in 0 .. MaxOutages
    BY <1>1, <1>11, Bounds DEF GoesDown
  <2> QED
    BY <1>1, <1>11, <2>1 DEF GoesDown
<1>12. CASE ComesUp \/ UNCHANGED vars
  BY <1>1, <1>12 DEF ComesUp, vars
<1> QED
  BY <1>2, <1>3, <1>4, <1>5, <1>6, <1>7, <1>8, <1>9, <1>10, <1>11, <1>12 DEF Next, Step

LEMMA TypeStep == TypeInv /\ [Next]_vars => TypeInv'
<1> SUFFICES ASSUME TypeInv, [Next]_vars PROVE TypeInv'
  OBVIOUS
<1>1. RestTypes' /\ StackTypes'
  BY RestTypesStep, StackTypesStep
<1> QED
  BY <1>1 DEF TypeInv, TypeOK, RestTypes, StackTypes, Stacks

(* The state of the connection set-up has its type: no goroutine attempts     *)
(* more often than MaxRetries, and nobody uses a client that was never opened. *)
THEOREM PoolTypes == Spec => []TypeOK
<1>1. TypeInv => TypeOK
  BY DEF TypeInv
<1> QED
  BY <1>1, TypeInit, TypeStep, PTL DEF Spec

-----------------------------------------------------------------------------
(* One client. *)

OnlyMainInitialises == \A g \in Routine \ {Main} : "options" \notin scenario.calls[g]

(* What a point of the code can lie over: n entries, the next of which is next. *)
Fits(g, label, n, next) ==
  /\ label \in {"options", "attempt", "attempted"} => n = 0 /\ g = Main
  /\ label \in {"ping", "refused", "answered", "synced"}
       => n > 0 /\ next \in {"attempted", "rebuilt"}
  /\ label = "pool" => n = 0 \/ next = "onceDone"
  /\ label \in {"sync", "onceDone"} => n = 0 \/ next = "synced"
  /\ label \in {"lock", "check", "rebuilt"} => n = 0 \/ (n = 1 /\ next = "onceDone")

Shape(g) ==
  \A i \in 1 .. Len(stack[g]) : Fits(g, stack[g][i], Len(stack[g]) - i, stack[g][i + 1])

(* Between DoubleCheck and Rebuilt a goroutine holds the mutex. *)
Holds(g) == \A i \in 1 .. Len(stack[g]) : stack[g][i] \in {"check", "rebuilt"} => mutex = g

(* Whoever is about to open a client is the first to. *)
Clients(g) ==
  \A i \in 1 .. Len(stack[g]) :
    /\ stack[g][i] \in {"options", "attempt", "ping", "refused", "answered"} => opened = 0
    /\ stack[g][i] = "synced" => opened = 1
    /\ i = 1 /\ stack[g][i] = "attempted" /\ failed[g] => opened = 0

MainFirst ==
  /\ ~Serving => \A h \in Routine \ {Main} : stack[h] = <<>>
  /\ calls[Main] = 0 => stack[Main] = <<>> /\ opened = 0

OneClient == opened \in {0, 1} /\ client = opened

Frames == \A g \in Routine : Shape(g) /\ Holds(g) /\ Clients(g)

LazyInv == OnlyMainInitialises => MainFirst /\ OneClient /\ Frames

LEMMA NothingBelow ==
  ASSUME NEW g, NEW label, NEW n \in Nat, NEW next, NEW other,
         Fits(g, label, n, next), n = 0 \/ other = next
  PROVE  Fits(g, label, n, other)
  BY DEF Fits

LEMMA GotoShape ==
  ASSUME stack \in Stacks, NEW g \in Routine, stack[g] # <<>>, NEW label \in Label,
         Goto(g, label), Shape(g), Fits(g, label, Len(stack[g]) - 1, stack[g][2])
  PROVE  Shape(g)'
<1>1. /\ Len(stack'[g]) = Len(stack[g]) /\ stack'[g][1] = label
      /\ \A i \in 2 .. Len(stack[g]) : stack'[g][i] = stack[g][i]
  BY GotoStack
<1>2. Len(stack[g]) \in Nat \ {0}
  BY TopOf DEF Stacks
<1>3. ASSUME NEW i \in 1 .. Len(stack'[g])
      PROVE  Fits(g, stack'[g][i], Len(stack'[g]) - i, stack'[g][i + 1])
  <2>1. CASE i = 1
    <3>1. Len(stack[g]) - 1 \in Nat
      BY <1>2
    <3>2. Len(stack[g]) - 1 = 0 \/ stack'[g][2] = stack[g][2]
      <4>1. \A n \in Nat \ {0} : n = 1 \/ 2 \in 2 .. n
        OBVIOUS
      <4>2. Len(stack[g]) = 1 => Len(stack[g]) - 1 = 0
        OBVIOUS
      <4> QED
        BY <1>1, <1>2, <4>1, <4>2, Zenon
    <3>3. Fits(g, label, Len(stack[g]) - 1, stack'[g][2])
      BY <3>1, <3>2, NothingBelow
    <3> QED
      BY <1>1, <2>1, <3>3
  <2>2. CASE i # 1
    <3>1. i \in 2 .. Len(stack[g]) /\ Fits(g, stack[g][i], Len(stack[g]) - i, stack[g][i + 1])
      BY <1>1, <1>2, <2>2 DEF Shape
    <3>2. Len(stack[g]) - i \in Nat
      BY <1>2, <3>1
    <3>3. Len(stack[g]) - i = 0 \/ stack'[g][i + 1] = stack[g][i + 1]
      BY <1>1, <1>2, <3>1
    <3>4. Fits(g, stack[g][i], Len(stack[g]) - i, stack'[g][i + 1])
      BY <3>1, <3>2, <3>3, NothingBelow
    <3> QED
      BY <1>1, <3>1, <3>4
  <2> QED
    BY <2>1, <2>2
<1> QED
  BY <1>3 DEF Shape

LEMMA InvokeShape ==
  ASSUME stack \in Stacks, NEW g \in Routine, stack[g] # <<>>,
         NEW function \in Label, NEW back \in Label, Invoke(g, function, back), Shape(g),
         Fits(g, function, Len(stack[g]), back),
         Fits(g, back, Len(stack[g]) - 1, stack[g][2])
  PROVE  Shape(g)'
<1>1. /\ Len(stack'[g]) = Len(stack[g]) + 1
      /\ stack'[g][1] = function /\ stack'[g][2] = back
      /\ \A i \in 3 .. Len(stack[g]) + 1 : stack'[g][i] = stack[g][i - 1]
  BY InvokeStack
<1>2. Len(stack[g]) \in Nat \ {0}
  BY TopOf DEF Stacks
<1>3. ASSUME NEW i \in 1 .. Len(stack'[g])
      PROVE  Fits(g, stack'[g][i], Len(stack'[g]) - i, stack'[g][i + 1])
  <2>1. CASE i = 1
    <3>1. stack'[g][i + 1] = back /\ Len(stack'[g]) - i = Len(stack[g])
      BY <1>1, <1>2, <2>1
    <3> QED
      BY <1>1, <2>1, <3>1
  <2>2. CASE i = 2
    <3>1. Len(stack[g]) - 1 \in Nat /\ Len(stack'[g]) - i = Len(stack[g]) - 1
      BY <1>1, <1>2, <2>2
    <3>2. Len(stack[g]) - 1 = 0 \/ stack'[g][3] = stack[g][2]
      <4>1. \A n \in Nat \ {0} : n = 1 \/ 3 \in 3 .. n + 1
        OBVIOUS
      <4>2. Len(stack[g]) = 1 => Len(stack[g]) - 1 = 0
        OBVIOUS
      <4>3. 3 - 1 = 2
        OBVIOUS
      <4> QED
        BY <1>1, <1>2, <4>1, <4>2, <4>3, Zenon
    <3>3. Fits(g, back, Len(stack[g]) - 1, stack'[g][3])
      BY <3>1, <3>2, NothingBelow
    <3> QED
      BY <1>1, <2>2, <3>1, <3>3
  <2>3. CASE i > 2
    <3>1. i - 1 \in 1 .. Len(stack[g]) /\ stack'[g][i] = stack[g][i - 1]
      BY <1>1, <1>2, <2>3
    <3>2. Fits(g, stack[g][i - 1], Len(stack[g]) - (i - 1), stack[g][(i - 1) + 1])
      BY <3>1 DEF Shape
    <3>3. /\ Len(stack'[g]) - i = Len(stack[g]) - (i - 1) /\ Len(stack'[g]) - i \in Nat
          /\ Len(stack'[g]) - i = 0 \/ stack'[g][i + 1] = stack[g][(i - 1) + 1]
      BY <1>1, <1>2, <3>1
    <3>4. Fits(g, stack[g][i - 1], Len(stack'[g]) - i, stack'[g][i + 1])
      BY <3>2, <3>3, NothingBelow
    <3> QED
      BY <3>1, <3>4
  <2> QED
    BY <1>1, <1>2, <2>1, <2>2, <2>3
<1> QED
  BY <1>3 DEF Shape

LEMMA ReturnShape ==
  ASSUME stack \in Stacks, NEW g \in Routine, stack[g] # <<>>, NEW err, Return(g, err), Shape(g)
  PROVE  Shape(g)'
<1>1. /\ Len(stack'[g]) = Len(stack[g]) - 1
      /\ \A i \in 1 .. Len(stack[g]) - 1 : stack'[g][i] = stack[g][i + 1]
  BY ReturnStack
<1>2. Len(stack[g]) \in Nat \ {0}
  BY TopOf DEF Stacks
<1>3. ASSUME NEW i \in 1 .. Len(stack'[g])
      PROVE  Fits(g, stack'[g][i], Len(stack'[g]) - i, stack'[g][i + 1])
  <2>1. i + 1 \in 1 .. Len(stack[g]) /\ stack'[g][i] = stack[g][i + 1]
    BY <1>1, <1>2
  <2>2. Fits(g, stack[g][i + 1], Len(stack[g]) - (i + 1), stack[g][(i + 1) + 1])
    BY <2>1 DEF Shape
  <2>3. /\ Len(stack'[g]) - i = Len(stack[g]) - (i + 1) /\ Len(stack'[g]) - i \in Nat
        /\ Len(stack'[g]) - i = 0 \/ stack'[g][i + 1] = stack[g][(i + 1) + 1]
    BY <1>1, <1>2, <2>1
  <2>4. Fits(g, stack[g][i + 1], Len(stack'[g]) - i, stack'[g][i + 1])
    BY <2>2, <2>3, NothingBelow
  <2> QED
    BY <2>1, <2>4
<1> QED
  BY <1>3 DEF Shape

Opening == {"options", "attempt", "ping", "refused", "answered"}

(* How the three ways of changing a stack keep Holds and Clients. *)

LEMMA GotoOwn ==
  ASSUME stack \in Stacks, Under, NEW g \in Routine, stack[g] # <<>>, Holds(g), Clients(g),
         NEW label \in Label \ Back, Goto(g, label),
         mutex' = mutex \/ mutex' = g, label = "check" => mutex' = g,
         opened' = opened, label \in Opening => opened = 0
  PROVE  Holds(g)' /\ Clients(g)'
<1>1. /\ Len(stack'[g]) = Len(stack[g]) /\ stack'[g][1] = label
      /\ \A i \in 2 .. Len(stack[g]) : stack'[g][i] = stack[g][i]
  BY GotoStack
<1>2. Len(stack[g]) \in Nat \ {0}
  BY TopOf DEF Stacks
<1>3. ASSUME NEW i \in 1 .. Len(stack'[g]), i # 1
      PROVE  i \in 1 .. Len(stack[g]) /\ stack'[g][i] = stack[g][i] /\ stack[g][i] \in Back
  <2>1. i \in 2 .. Len(stack[g])
    BY <1>1, <1>2, <1>3
  <2> QED
    BY <1>1, <2>1 DEF Under
<1>4. label \notin {"rebuilt", "synced", "attempted"}
  BY DEF Back
<1>5. Back \cap Opening = {} /\ "check" \notin Back
  BY DEF Back, Opening
<1>6. Holds(g)'
  BY <1>1, <1>3, <1>4 DEF Holds
<1>7. ASSUME NEW i \in 1 .. Len(stack'[g])
      PROVE  /\ stack'[g][i] \in Opening => opened' = 0
             /\ stack'[g][i] = "synced" => opened' = 1
             /\ i = 1 /\ stack'[g][i] = "attempted" /\ failed'[g] => opened' = 0
  <2>1. CASE i = 1
    BY <1>1, <1>4, <2>1
  <2>2. CASE i # 1
    BY <1>3, <1>5, <2>2 DEF Clients
  <2> QED
    BY <2>1, <2>2
<1> QED
  BY <1>6, <1>7 DEF Clients, Opening

LEMMA InvokeOwn ==
  ASSUME stack \in Stacks, Under, NEW g \in Routine, stack[g] # <<>>, Holds(g), Clients(g),
         NEW function \in {"ping", "sync", "pool"}, NEW back \in Back, Invoke(g, function, back),
         mutex' = mutex, back = "rebuilt" => mutex = g,
         opened' = opened \/ opened' = 1, back = "synced" => opened' = 1,
         function = "ping" => opened' = 0
  PROVE  Holds(g)' /\ Clients(g)'
<1>1. /\ Len(stack'[g]) = Len(stack[g]) + 1
      /\ stack'[g][1] = function /\ stack'[g][2] = back
      /\ \A i \in 3 .. Len(stack[g]) + 1 : stack'[g][i] = stack[g][i - 1]
  BY InvokeStack DEF Label, Back
<1>2. Len(stack[g]) \in Nat \ {0}
  BY TopOf DEF Stacks
<1>3. ASSUME NEW i \in 1 .. Len(stack'[g]), i # 1, i # 2
      PROVE  /\ i - 1 \in 1 .. Len(stack[g]) /\ stack'[g][i] = stack[g][i - 1]
             /\ stack[g][i - 1] \in Back
  <2>1. i \in 3 .. Len(stack[g]) + 1 /\ i - 1 \in 2 .. Len(stack[g])
    BY <1>1, <1>2, <1>3
  <2> QED
    BY <1>1, <2>1 DEF Under
<1>4. Back \cap Opening = {} /\ "check" \notin Back
  BY DEF Back, Opening
<1>5. ASSUME NEW i \in 1 .. Len(stack'[g])
      PROVE  /\ stack'[g][i] \in {"check", "rebuilt"} => mutex' = g
             /\ stack'[g][i] \in Opening => opened' = 0
             /\ stack'[g][i] = "synced" => opened' = 1
             /\ i = 1 /\ stack'[g][i] = "attempted" /\ failed'[g] => opened' = 0
  <2>1. CASE i = 1
    BY <1>1, <2>1 DEF Opening
  <2>2. CASE i = 2
    BY <1>1, <1>4, <2>2
  <2>3. CASE i # 1 /\ i # 2
    BY <1>3, <1>4, <2>3 DEF Clients, Holds
  <2> QED
    BY <2>1, <2>2, <2>3
<1> QED
  BY <1>5 DEF Clients, Holds, Opening

LEMMA ReturnOwn ==
  ASSUME stack \in Stacks, Under, failed \in [Routine -> BOOLEAN],
         NEW g \in Routine, stack[g] # <<>>, Holds(g), Clients(g),
         NEW err \in BOOLEAN, Return(g, err),
         mutex' = mutex \/ Len(stack[g]) = 1 \/ (Len(stack[g]) = 2 /\ stack[g][2] = "onceDone"),
         opened' = opened,
         Len(stack[g]) > 1 /\ stack[g][2] = "attempted" /\ err => opened = 0
  PROVE  Holds(g)' /\ Clients(g)'
<1>1. /\ Len(stack'[g]) = Len(stack[g]) - 1
      /\ \A i \in 1 .. Len(stack[g]) - 1 : stack'[g][i] = stack[g][i + 1]
      /\ failed'[g] = err
  BY ReturnStack DEF Return
<1>2. Len(stack[g]) \in Nat \ {0}
  BY TopOf DEF Stacks
<1>3. ASSUME NEW i \in 1 .. Len(stack'[g])
      PROVE  /\ i + 1 \in 1 .. Len(stack[g]) /\ stack'[g][i] = stack[g][i + 1]
             /\ stack[g][i + 1] \in Back
  <2>1. i \in 1 .. Len(stack[g]) - 1 /\ i + 1 \in 2 .. Len(stack[g])
    BY <1>1, <1>2
  <2> QED
    BY <1>1, <2>1 DEF Under
<1>4. Back \cap Opening = {} /\ "check" \notin Back
  BY DEF Back, Opening
<1>5. ASSUME NEW i \in 1 .. Len(stack'[g])
      PROVE  /\ stack'[g][i] \in {"check", "rebuilt"} => mutex' = g
             /\ stack'[g][i] \in Opening => opened' = 0
             /\ stack'[g][i] = "synced" => opened' = 1
             /\ i = 1 /\ stack'[g][i] = "attempted" /\ failed'[g] => opened' = 0
  <2>1. stack'[g][i] \in {"check", "rebuilt"} => mutex' = g
    <3>1. CASE mutex' = mutex
      BY <1>3, <3>1 DEF Holds
    <3>2. CASE Len(stack[g]) = 1
      BY <1>1, <3>2
    <3>3. CASE Len(stack[g]) = 2 /\ stack[g][2] = "onceDone"
      <4>1. i = 1
        BY <1>1, <3>3
      <4> QED
        BY <1>3, <3>3, <4>1
    <3> QED
      BY <3>1, <3>2, <3>3
  <2>2. stack'[g][i] \in Opening => opened' = 0
    BY <1>3, <1>4
  <2>3. stack'[g][i] = "synced" => opened' = 1
    BY <1>3 DEF Clients
  <2>4. i = 1 /\ stack'[g][i] = "attempted" /\ failed'[g] => opened' = 0
    BY <1>1, <1>2, <1>3
  <2> QED
    BY <2>1, <2>2, <2>3, <2>4
<1> QED
  BY <1>5 DEF Clients, Holds, Opening

(* A goroutine that does not move keeps its frames. *)
LEMMA OthersKeep ==
  ASSUME NEW h \in Routine, stack'[h] = stack[h], failed'[h] = failed[h],
         Shape(h), Holds(h), Clients(h), mutex' = mutex \/ mutex # h, opened' = opened
  PROVE  Shape(h)' /\ Holds(h)' /\ Clients(h)'
<1>1. Shape(h)' /\ Clients(h)'
  BY DEF Shape, Clients
<1>2. Holds(h)'
  BY DEF Holds
<1> QED
  BY <1>1, <1>2

(* What a goroutine knows at a point of the code. *)
LEMMA TopFacts ==
  ASSUME stack \in Stacks, NEW g \in Routine, NEW label, At(g, label),
         Shape(g), Holds(g), Clients(g)
  PROVE  /\ stack[g] # <<>> /\ Len(stack[g]) \in Nat \ {0} /\ stack[g][1] = label
         /\ Fits(g, label, Len(stack[g]) - 1, stack[g][2])
         /\ label \in {"check", "rebuilt"} => mutex = g
         /\ label \in Opening => opened = 0
         /\ label = "attempted" /\ failed[g] => opened = 0
<1>1. stack[g] # <<>> /\ Len(stack[g]) \in Nat \ {0} /\ stack[g][1] = label
  BY TopOf DEF At, Stacks
<1>2. 1 \in 1 .. Len(stack[g]) /\ 1 + 1 = 2
  BY <1>1
<1>3. Fits(g, label, Len(stack[g]) - 1, stack[g][2])
  BY <1>1, <1>2 DEF Shape
<1> QED
  BY <1>1, <1>2, <1>3 DEF Holds, Clients, Opening

(* A goroutine on its way to open a client is main, before the service serves, *)
(* or holds the mutex.                                                        *)
LEMMA OpenersAreExclusive ==
  ASSUME stack \in Stacks, Under, NEW g \in Routine, Shape(g), Holds(g),
         NEW i \in 1 .. Len(stack[g]),
         stack[g][i] \in Opening \/ (i = 1 /\ stack[g][i] = "attempted")
  PROVE  stack[g] # <<>> /\ (g = Main \/ mutex = g)
<1>1. Len(stack[g]) \in Nat /\ stack[g] # <<>>
  BY DEF Stacks
<1>2. i = 1
  <2>1. Back \cap Opening = {}
    BY DEF Back, Opening
  <2>2. i = 1 \/ i \in 2 .. Len(stack[g])
    BY <1>1
  <2> QED
    BY <2>1, <2>2 DEF Under
<1>3. Fits(g, stack[g][1], Len(stack[g]) - 1, stack[g][2])
  <2>1. 1 + 1 = 2
    OBVIOUS
  <2> QED
    BY <1>2, <2>1 DEF Shape
<1>4. CASE stack[g][1] \in {"options", "attempt", "attempted"}
  BY <1>1, <1>3, <1>4 DEF Fits
<1>5. CASE stack[g][1] \in {"ping", "refused", "answered"}
  <2>1. Len(stack[g]) - 1 > 0 /\ stack[g][2] \in {"attempted", "rebuilt"}
    BY <1>3, <1>5 DEF Fits
  <2>2. 2 \in 1 .. Len(stack[g])
    BY <1>1, <2>1
  <2>3. Fits(g, stack[g][2], Len(stack[g]) - 2, stack[g][2 + 1])
    BY <2>2 DEF Shape
  <2>4. stack[g][2] = "attempted" => g = Main
    BY <2>3 DEF Fits
  <2>5. stack[g][2] = "rebuilt" => mutex = g
    BY <2>2 DEF Holds
  <2> QED
    BY <1>1, <2>1, <2>4, <2>5
<1> QED
  BY <1>2, <1>4, <1>5 DEF Opening

(* Fetching the pool with no client stored, a goroutine is not inside the set-up *)
(* of one.                                                                       *)
LEMMA NoClientNoSetUp ==
  ASSUME stack \in Stacks, NEW g \in Routine, At(g, "pool"), Shape(g), Holds(g), Clients(g),
         opened # 1
  PROVE  Fits(g, "lock", Len(stack[g]) - 1, stack[g][2])
<1>1. /\ Len(stack[g]) \in Nat \ {0}
      /\ Fits(g, "pool", Len(stack[g]) - 1, stack[g][2])
  BY TopFacts
<1>2. CASE Len(stack[g]) = 1
  BY <1>2 DEF Fits
<1>3. CASE Len(stack[g]) # 1
  <2>1. stack[g][2] = "onceDone"
    BY <1>1, <1>3 DEF Fits
  <2>2. 2 \in 1 .. Len(stack[g]) /\ 2 + 1 = 3
    <3>1. \A n \in Nat \ {0} : n # 1 => 2 \in 1 .. n
      OBVIOUS
    <3>2. 2 \in 1 .. Len(stack[g])
      BY <1>1, <1>3, <3>1, Zenon
    <3> QED
      BY <3>2
  <2>3. Fits(g, "onceDone", Len(stack[g]) - 2, stack[g][3])
    BY <2>1, <2>2 DEF Shape
  <2>4. Len(stack[g]) = 2 \/ stack[g][3] = "synced"
    <3>1. Len(stack[g]) - 2 = 0 \/ stack[g][3] = "synced"
      BY <2>3 DEF Fits
    <3>2. \A n \in Nat : n - 2 = 0 => n = 2
      OBVIOUS
    <3> QED
      BY <1>1, <3>1, <3>2
  <2>5. CASE Len(stack[g]) # 2
    <3>1. \A n \in Nat \ {0} : n # 1 /\ n # 2 => 3 \in 1 .. n
      OBVIOUS
    <3>2. 3 \in 1 .. Len(stack[g]) /\ stack[g][3] = "synced"
      BY <1>1, <1>3, <2>4, <2>5, <3>1, Zenon
    <3> QED
      BY <3>2 DEF Clients
  <2> QED
    BY <2>1, <2>4, <2>5 DEF Fits
<1> QED
  BY <1>2, <1>3

LEMMA MainFirstStep ==
  ASSUME TypeInv, MainFirst, [Next]_vars PROVE MainFirst'
<1>1. Main \in Routine
  BY Bounds
<1>2. stack \in Stacks /\ calls \in [Routine -> 0 .. MaxCalls]
  BY TypeParts DEF RestTypes, StackTypes
<1>3. ASSUME NEW g \in Routine, Step(g) PROVE MainFirst'
  <2>1. stack[g] # <<>> /\ calls' = calls /\ \A h \in Routine \ {g} : stack'[h] = stack[h]
    <3>1. stack[g] # <<>> /\ calls' = calls
      BY <1>3 DEF Step, InitRedisOptions, Attempt, Attempted, Ping, StoreNil, StoreClient, Synced,
                  GetRedisPoolClient, Lock, DoubleCheck, Rebuilt, InitRedSyncOnce, OnceDone, At,
                  envVars
    <3>2. \E new : stack' = [stack EXCEPT ![g] = new]
      BY <1>3 DEF Step, InitRedisOptions, Attempt, Attempted, Ping, StoreNil, StoreClient, Synced,
                  GetRedisPoolClient, Lock, DoubleCheck, Rebuilt, InitRedSyncOnce, OnceDone,
                  Goto, Invoke, Return
    <3> QED
      BY <1>2, <3>1, <3>2 DEF Stacks
  <2>2. CASE g = Main
    <3>1. calls[Main] # 0 /\ \A h \in Routine \ {Main} : stack[h] = <<>>
      BY <2>1, <2>2 DEF MainFirst, Serving
    <3> QED
      BY <2>1, <2>2, <3>1 DEF MainFirst
  <2>3. CASE g # Main
    <3>1. Serving
      BY <2>1, <2>3 DEF MainFirst
    <3>2. Serving' /\ calls'[Main] # 0
      BY <1>1, <1>2, <2>1, <2>3, <3>1 DEF Serving
    <3> QED
      BY <3>2 DEF MainFirst
  <2> QED
    BY <2>2, <2>3
<1>4. ASSUME NEW g \in Routine, NEW function \in {"options", "pool", "sync"}, Begin(g, function)
      PROVE  MainFirst'
  <2>1. /\ stack' = [stack EXCEPT ![g] = <<function>>]
        /\ calls' = [calls EXCEPT ![g] = @ + 1]
    BY <1>4 DEF Begin
  <2>2. CASE g = Main
    <3>1. ~Serving /\ calls'[Main] # 0
      BY <1>1, <1>2, <1>4, <2>1, <2>2 DEF Begin, Serving
    <3>2. \A h \in Routine \ {Main} : stack'[h] = <<>>
      BY <1>2, <2>1, <2>2, <3>1 DEF MainFirst, Stacks
    <3> QED
      BY <3>1, <3>2 DEF MainFirst
  <2>3. CASE g # Main
    <3>1. Serving
      BY <1>4, <2>3 DEF Begin
    <3>2. Serving' /\ calls'[Main] # 0
      BY <1>1, <1>2, <2>1, <2>3, <3>1 DEF Serving, Stacks
    <3> QED
      BY <3>2 DEF MainFirst
  <2> QED
    BY <2>2, <2>3
<1>5. CASE GoesDown \/ ComesUp \/ UNCHANGED vars
  BY <1>5 DEF GoesDown, ComesUp, vars, MainFirst, Serving, configVars, envVars
<1> QED
  BY <1>3, <1>4, <1>5 DEF Next

(* A step that opens nothing keeps the frames, if its goroutine keeps its own. *)
LEMMA FramesFromOwn ==
  ASSUME Frames, NEW g \in Routine,
         \A h \in Routine \ {g} : stack'[h] = stack[h] /\ failed'[h] = failed[h],
         mutex' = mutex \/ mutex \in {g, None}, opened' = opened,
         Shape(g)' /\ Holds(g)' /\ Clients(g)'
  PROVE  Frames'
<1>1. ASSUME NEW h \in Routine PROVE Shape(h)' /\ Holds(h)' /\ Clients(h)'
  <2>1. CASE h = g
    BY <2>1
  <2>2. CASE h # g
    <3>1. mutex' = mutex \/ mutex # h
      BY <2>2, Bounds
    <3> QED
      BY <2>2, <3>1, OthersKeep DEF Frames
  <2> QED
    BY <2>1, <2>2
<1> QED
  BY <1>1 DEF Frames

(* The first client: nobody else is on the way to open one. *)
LEMMA FramesStoreClient ==
  ASSUME TypeInv, MainFirst, Frames, NEW g \in Routine, StoreClient(g)
  PROVE  Frames' /\ opened = 0
<1>1. stack \in Stacks /\ Under /\ Shape(g) /\ Holds(g) /\ Clients(g) /\ "answered" \in Opening
  BY TypeParts DEF StackTypes, Frames, Opening
<1>2. /\ stack[g] # <<>> /\ Len(stack[g]) \in Nat \ {0} /\ stack[g][1] = "answered"
      /\ Fits(g, "answered", Len(stack[g]) - 1, stack[g][2])
      /\ opened = 0
  BY <1>1, TopFacts DEF StoreClient
<1>3. /\ Invoke(g, "sync", "synced") /\ opened' = 1 /\ mutex' = mutex /\ failed' = failed
      /\ "sync" \in Label /\ "synced" \in Label /\ "synced" \in Back
  BY <1>2 DEF StoreClient, Label, Back
<1>4. \A h \in Routine \ {g} : stack'[h] = stack[h]
  BY <1>1, <1>2, <1>3, InvokeStack
<1>5. Shape(g)'
  <2>1. Fits(g, "sync", Len(stack[g]), "synced") /\ Fits(g, "synced", Len(stack[g]) - 1, stack[g][2])
    BY <1>2 DEF Fits
  <2> QED
    BY <1>1, <1>2, <1>3, <2>1, InvokeShape
<1>6. Holds(g)' /\ Clients(g)'
  BY <1>1, <1>2, <1>3, InvokeOwn
<1>7. 1 \in 1 .. Len(stack[g])
  BY <1>2
<1>8. g = Main \/ mutex = g
  BY <1>1, <1>2, <1>7, OpenersAreExclusive
<1>9. ASSUME NEW h \in Routine \ {g} PROVE Shape(h)' /\ Holds(h)' /\ Clients(h)'
  <2>1. stack'[h] = stack[h] /\ failed'[h] = failed[h] /\ Shape(h) /\ Holds(h) /\ Clients(h)
    BY <1>3, <1>4 DEF Frames
  <2>2. Shape(h)' /\ Holds(h)'
    BY <1>3, <2>1 DEF Shape, Holds
  <2>3. ASSUME NEW i \in 1 .. Len(stack[h])
        PROVE  stack[h][i] \notin Opening /\ ~(i = 1 /\ stack[h][i] = "attempted")
    <3> SUFFICES ASSUME stack[h][i] \in Opening \/ (i = 1 /\ stack[h][i] = "attempted")
                 PROVE  FALSE
      OBVIOUS
    <3>1. stack[h] # <<>> /\ (h = Main \/ mutex = h)
      BY <1>1, <2>1, OpenersAreExclusive
    <3>2. CASE g = Main
      BY <1>2, <3>1, <3>2 DEF MainFirst, Serving
    <3>3. CASE h = Main
      BY <1>2, <3>1, <3>3 DEF MainFirst, Serving
    <3> QED
      BY <1>8, <3>1, <3>2, <3>3
  <2>4. Clients(h)'
    BY <1>3, <2>1, <2>3 DEF Clients, Opening
  <2> QED
    BY <2>2, <2>4
<1> QED
  BY <1>2, <1>5, <1>6, <1>9 DEF Frames

LEMMA FramesStep ==
  ASSUME TypeInv, OneClient, Frames, NEW g \in Routine, Step(g), ~StoreClient(g)
  PROVE  Frames' /\ OneClient'
<1>1. stack \in Stacks /\ Under /\ Shape(g) /\ Holds(g) /\ Clients(g) /\ RestTypes
  BY TypeParts DEF StackTypes, Frames
<1> USE DEF configVars, syncVars, envVars
(* A jump to another point. *)
<1>2. ASSUME NEW label \in Label \ Back, stack[g] # <<>>, Goto(g, label), failed' = failed,
             Fits(g, label, Len(stack[g]) - 1, stack[g][2]),
             mutex' = mutex \/ (mutex = None /\ mutex' = g), label = "check" => mutex' = g,
             opened' = opened, label \in Opening => opened = 0
      PROVE  Frames'
  <2>1. Shape(g)' /\ Holds(g)' /\ Clients(g)'
    BY <1>1, <1>2, GotoShape, GotoOwn
  <2>2. \A h \in Routine \ {g} : stack'[h] = stack[h]
    BY <1>1, <1>2, GotoStack
  <2> QED
    BY <1>2, <2>1, <2>2, FramesFromOwn
(* A call. *)
<1>3. ASSUME NEW function \in {"ping", "pool"}, NEW back \in Back, stack[g] # <<>>,
             Invoke(g, function, back), failed' = failed, mutex' = mutex, opened' = opened,
             Fits(g, function, Len(stack[g]), back),
             Fits(g, back, Len(stack[g]) - 1, stack[g][2]),
             back = "rebuilt" => mutex = g, back # "synced", function = "ping" => opened = 0
      PROVE  Frames'
  <2>1. function \in Label /\ back \in Label
    BY DEF Label, Back
  <2>2. Shape(g)' /\ Holds(g)' /\ Clients(g)'
    BY <1>1, <1>3, <2>1, InvokeShape, InvokeOwn
  <2>3. \A h \in Routine \ {g} : stack'[h] = stack[h]
    BY <1>1, <1>3, <2>1, InvokeStack
  <2> QED
    BY <1>3, <2>2, <2>3, FramesFromOwn
(* A return. *)
<1>4. ASSUME NEW err \in BOOLEAN, stack[g] # <<>>, Return(g, err), opened' = opened,
             \/ mutex' = mutex
             \/ /\ mutex = g
                /\ Len(stack[g]) = 1 \/ (Len(stack[g]) = 2 /\ stack[g][2] = "onceDone"),
             Len(stack[g]) > 1 /\ stack[g][2] = "attempted" /\ err => opened = 0
      PROVE  Frames'
  <2>1. Shape(g)' /\ Holds(g)' /\ Clients(g)'
    <3>1. Shape(g)'
      BY <1>1, <1>4, ReturnShape
    <3>2. failed \in [Routine -> BOOLEAN]
      BY <1>1 DEF RestTypes
    <3>3. Holds(g)' /\ Clients(g)'
      BY <1>1, <1>4, <3>2, ReturnOwn
    <3> QED
      BY <3>1, <3>3
  <2>2. \A h \in Routine \ {g} : stack'[h] = stack[h] /\ failed'[h] = failed[h]
    <3>1. \A h \in Routine \ {g} : stack'[h] = stack[h]
      BY <1>1, <1>4, ReturnStack
    <3>2. failed' = [failed EXCEPT ![g] = err]
      BY <1>4 DEF Return
    <3> QED
      BY <1>1, <3>1, <3>2 DEF RestTypes
  <2> QED
    BY <1>4, <2>1, <2>2, FramesFromOwn
<1>5. CASE InitRedisOptions(g)
  <2>1. /\ stack[g] # <<>> /\ opened = 0
        /\ Fits(g, "options", Len(stack[g]) - 1, stack[g][2])
    BY <1>1, <1>5, TopFacts DEF InitRedisOptions, Opening
  <2>2. Fits(g, "attempt", Len(stack[g]) - 1, stack[g][2]) /\ "attempt" \in Label \ Back
    BY <2>1 DEF Fits, Label, Back
  <2>3. Frames'
    BY <1>2, <1>5, <2>1, <2>2 DEF InitRedisOptions
  <2> QED
    BY <1>5, <2>3 DEF InitRedisOptions, OneClient
<1>6. CASE Attempt(g)
  <2>1. /\ stack[g] # <<>> /\ opened = 0 /\ Len(stack[g]) \in Nat \ {0}
        /\ Fits(g, "attempt", Len(stack[g]) - 1, stack[g][2])
    BY <1>1, <1>6, TopFacts DEF Attempt, Opening
  <2>2. /\ Fits(g, "ping", Len(stack[g]), "attempted")
        /\ Fits(g, "attempted", Len(stack[g]) - 1, stack[g][2])
        /\ "attempted" \in Back
    BY <2>1 DEF Fits, Back
  <2>3. Frames'
    BY <1>3, <1>6, <2>1, <2>2 DEF Attempt
  <2> QED
    BY <1>6, <2>3 DEF Attempt, OneClient
<1>7. CASE Attempted(g)
  <2>1. /\ stack[g] # <<>> /\ Len(stack[g]) \in Nat \ {0}
        /\ Fits(g, "attempted", Len(stack[g]) - 1, stack[g][2])
        /\ failed[g] => opened = 0
    BY <1>1, <1>7, TopFacts DEF Attempted
  <2>2. Len(stack[g]) = 1
    BY <2>1 DEF Fits
  <2>3. CASE failed[g] /\ attempt[g] < MaxRetries
    <3>1. Fits(g, "attempt", Len(stack[g]) - 1, stack[g][2]) /\ "attempt" \in Label \ Back
      BY <2>1 DEF Fits, Label, Back
    <3> QED
      BY <1>2, <1>7, <2>1, <2>3, <3>1 DEF Attempted, OneClient
  <2>4. CASE ~(failed[g] /\ attempt[g] < MaxRetries)
    <3>1. failed[g] \in BOOLEAN
      BY <1>1 DEF RestTypes
    <3> QED
      BY <1>4, <1>7, <2>1, <2>2, <2>4, <3>1 DEF Attempted, OneClient
  <2> QED
    BY <2>3, <2>4
<1>8. CASE Ping(g)
  <2>1. /\ stack[g] # <<>> /\ opened = 0
        /\ Fits(g, "ping", Len(stack[g]) - 1, stack[g][2])
    BY <1>1, <1>8, TopFacts DEF Ping, Opening
  <2>2. \A label \in {"answered", "refused"} :
           Fits(g, label, Len(stack[g]) - 1, stack[g][2]) /\ label \in Label \ Back
    BY <2>1 DEF Fits, Label, Back
  <2>3. PICK label \in {"answered", "refused"} : Goto(g, label)
    BY <1>8 DEF Ping
  <2>4. Frames'
    BY <1>2, <1>8, <2>1, <2>2, <2>3 DEF Ping
  <2> QED
    BY <1>8, <2>4 DEF Ping, OneClient
<1>9. CASE StoreNil(g)
  <2>1. stack[g] # <<>> /\ opened = 0
    BY <1>1, <1>9, TopFacts DEF StoreNil, Opening
  <2>2. Frames'
    BY <1>4, <1>9, <2>1 DEF StoreNil
  <2> QED
    BY <1>9, <2>1, <2>2 DEF StoreNil, OneClient
<1>10. CASE Synced(g)
  <2>1. stack[g] # <<>>
    BY <1>10 DEF Synced, At
  <2>2. Frames'
    BY <1>4, <1>10, <2>1 DEF Synced
  <2> QED
    BY <1>10, <2>2 DEF Synced, OneClient
<1>11. CASE GetRedisPoolClient(g)
  <2>1. /\ stack[g] # <<>> /\ Len(stack[g]) \in Nat \ {0}
        /\ Fits(g, "pool", Len(stack[g]) - 1, stack[g][2])
    BY <1>1, <1>11, TopFacts DEF GetRedisPoolClient
  <2>2. Len(stack[g]) > 1 => stack[g][2] = "onceDone"
    BY <2>1 DEF Fits
  <2>3. CASE options /\ client = 0
    <3>1. Goto(g, "lock") /\ failed' = failed
      BY <1>11, <2>3 DEF GetRedisPoolClient
    <3>2. opened # 1
      BY <2>3 DEF OneClient
    <3>3. Fits(g, "lock", Len(stack[g]) - 1, stack[g][2])
      BY <1>1, <1>11, <3>2, NoClientNoSetUp DEF GetRedisPoolClient
    <3>4. "lock" \in Label \ Back /\ "lock" \notin Opening
      BY DEF Label, Back, Opening
    <3> QED
      BY <1>2, <1>11, <2>1, <3>1, <3>3, <3>4 DEF GetRedisPoolClient, OneClient
  <2>4. CASE ~(options /\ client = 0)
    <3>1. \E err \in BOOLEAN : Return(g, err)
      <4>1. options \in BOOLEAN
        BY <1>1 DEF RestTypes
      <4> QED
        BY <1>11, <2>4, <4>1 DEF GetRedisPoolClient
    <3> QED
      BY <1>4, <1>11, <2>1, <2>2, <3>1 DEF GetRedisPoolClient, OneClient
  <2> QED
    BY <2>3, <2>4
<1>12. CASE Lock(g)
  <2>1. /\ stack[g] # <<>> /\ Fits(g, "lock", Len(stack[g]) - 1, stack[g][2])
    BY <1>1, <1>12, TopFacts DEF Lock
  <2>2. /\ Fits(g, "check", Len(stack[g]) - 1, stack[g][2])
        /\ "check" \in Label \ Back /\ "check" \notin Opening
    BY <2>1 DEF Fits, Label, Back, Opening
  <2>3. Frames'
    BY <1>2, <1>12, <2>1, <2>2 DEF Lock
  <2> QED
    BY <1>12, <2>3 DEF Lock, OneClient
<1>13. CASE DoubleCheck(g)
  <2>1. /\ stack[g] # <<>> /\ Len(stack[g]) \in Nat \ {0} /\ mutex = g
        /\ Fits(g, "check", Len(stack[g]) - 1, stack[g][2])
    BY <1>1, <1>13, TopFacts DEF DoubleCheck
  <2>2. Len(stack[g]) = 1 \/ (Len(stack[g]) = 2 /\ stack[g][2] = "onceDone")
    BY <2>1 DEF Fits
  <2>3. CASE client # 0
    BY <1>4, <1>13, <2>1, <2>2, <2>3 DEF DoubleCheck, OneClient
  <2>4. CASE client = 0
    <3>1. /\ Fits(g, "ping", Len(stack[g]), "rebuilt")
          /\ Fits(g, "rebuilt", Len(stack[g]) - 1, stack[g][2])
          /\ "rebuilt" \in Back
      BY <2>1 DEF Fits, Back
    <3>2. opened = 0
      BY <2>4 DEF OneClient
    <3> QED
      BY <1>3, <1>13, <2>1, <2>4, <3>1, <3>2 DEF DoubleCheck, OneClient
  <2> QED
    BY <2>3, <2>4
<1>14. CASE Rebuilt(g)
  <2>1. /\ stack[g] # <<>> /\ Len(stack[g]) \in Nat \ {0} /\ mutex = g
        /\ Fits(g, "rebuilt", Len(stack[g]) - 1, stack[g][2])
    BY <1>1, <1>14, TopFacts DEF Rebuilt
  <2>2. Len(stack[g]) = 1 \/ (Len(stack[g]) = 2 /\ stack[g][2] = "onceDone")
    BY <2>1 DEF Fits
  <2>3. failed[g] \in BOOLEAN
    BY <1>1 DEF RestTypes
  <2>4. Frames'
    BY <1>4, <1>14, <2>1, <2>2, <2>3 DEF Rebuilt
  <2> QED
    BY <1>14, <2>4 DEF Rebuilt, OneClient
<1>15. CASE InitRedSyncOnce(g)
  <2>1. /\ stack[g] # <<>> /\ Len(stack[g]) \in Nat \ {0}
        /\ Fits(g, "sync", Len(stack[g]) - 1, stack[g][2])
    BY <1>1, <1>15, TopFacts DEF InitRedSyncOnce
  <2>2. Len(stack[g]) > 1 => stack[g][2] = "synced"
    BY <2>1 DEF Fits
  <2>3. CASE once = "done"
    <3>1. syncErr \in BOOLEAN
      BY <1>1 DEF RestTypes
    <3> QED
      BY <1>4, <1>15, <2>1, <2>2, <2>3, <3>1 DEF InitRedSyncOnce, OneClient
  <2>4. CASE once # "done"
    <3>1. /\ Fits(g, "pool", Len(stack[g]), "onceDone")
          /\ Fits(g, "onceDone", Len(stack[g]) - 1, stack[g][2])
          /\ "onceDone" \in Back
      BY <2>1 DEF Fits, Back
    <3> QED
      BY <1>3, <1>15, <2>1, <2>4, <3>1 DEF InitRedSyncOnce, OneClient
  <2> QED
    BY <2>3, <2>4
<1>16. CASE OnceDone(g)
  <2>1. /\ stack[g] # <<>> /\ Len(stack[g]) \in Nat \ {0}
        /\ Fits(g, "onceDone", Len(stack[g]) - 1, stack[g][2])
    BY <1>1, <1>16, TopFacts DEF OnceDone
  <2>2. Len(stack[g]) > 1 => stack[g][2] = "synced"
    BY <2>1 DEF Fits
  <2>3. failed[g] \in BOOLEAN
    BY <1>1 DEF RestTypes
  <2>4. Frames'
    BY <1>4, <1>16, <2>1, <2>2, <2>3 DEF OnceDone
  <2> QED
    BY <1>16, <2>4 DEF OnceDone, OneClient
<1> QED
  BY <1>5, <1>6, <1>7, <1>8, <1>9, <1>10, <1>11, <1>12, <1>13, <1>14, <1>15, <1>16 DEF Step

LEMMA FramesBegin ==
  ASSUME TypeInv, OnlyMainInitialises, MainFirst, Frames,
         NEW g \in Routine, NEW function \in {"options", "pool", "sync"}, Begin(g, function)
  PROVE  Frames'
<1>1. stack \in Stacks
  BY TypeParts DEF StackTypes
<1>2. /\ stack' = [stack EXCEPT ![g] = <<function>>]
      /\ mutex' = mutex /\ opened' = opened /\ failed' = failed
  BY DEF Begin, configVars
<1>3. /\ stack'[g] = <<function>>
      /\ \A h \in Routine \ {g} : stack'[h] = stack[h]
  BY <1>1, <1>2 DEF Stacks
<1>4. Len(stack'[g]) = 1 /\ stack'[g][1] = function
  BY <1>3
<1>5. function = "options" => g = Main /\ opened = 0
  BY DEF OnlyMainInitialises, Begin, MainFirst
<1>6. Shape(g)'
  <2>1. Fits(g, function, 1 - 1, stack'[g][2])
    BY <1>5 DEF Fits
  <2>2. ASSUME NEW i \in 1 .. Len(stack'[g])
        PROVE  Fits(g, stack'[g][i], Len(stack'[g]) - i, stack'[g][i + 1])
    <3>1. i = 1 /\ i + 1 = 2
      BY <1>4
    <3> QED
      BY <1>4, <2>1, <3>1
  <2> QED
    BY <2>2 DEF Shape
<1>7. Holds(g)' /\ Clients(g)'
  <2>1. \A i \in 1 .. Len(stack'[g]) : stack'[g][i] = function
    BY <1>4
  <2> QED
    BY <1>2, <1>5, <2>1 DEF Holds, Clients
<1> QED
  BY <1>2, <1>3, <1>6, <1>7, FramesFromOwn

LEMMA LazyInit == Init => LazyInv
<1> SUFFICES ASSUME Init PROVE LazyInv
  OBVIOUS
<1>1. /\ \A g \in Routine : stack[g] = <<>>
      /\ opened = 0 /\ client = 0 /\ Len(<<>>) = 0
  BY DEF Init
<1>2. MainFirst /\ OneClient
  BY <1>1, Bounds DEF MainFirst, OneClient
<1>3. Frames
  <2>1. ASSUME NEW g \in Routine PROVE 1 .. Len(stack[g]) = {}
    BY <1>1
  <2>2. ASSUME NEW g \in Routine PROVE Shape(g) /\ Holds(g) /\ Clients(g)
    BY <2>1 DEF Shape, Holds, Clients
  <2> QED
    BY <2>2 DEF Frames
<1> QED
  BY <1>2, <1>3 DEF LazyInv

LEMMA LazyStep == TypeInv /\ LazyInv /\ [Next]_vars => LazyInv'
<1> SUFFICES ASSUME TypeInv, LazyInv, [Next]_vars, OnlyMainInitialises'
             PROVE  MainFirst' /\ OneClient' /\ Frames'
  BY DEF LazyInv
<1> USE DEF configVars, envVars
<1>1. scenario' = scenario
  <2>1. ASSUME NEW g \in Routine, Step(g) PROVE scenario' = scenario
    BY <2>1 DEF Step, InitRedisOptions, Attempt, Attempted, Ping, StoreNil, StoreClient, Synced,
                GetRedisPoolClient, Lock, DoubleCheck, Rebuilt, InitRedSyncOnce, OnceDone
  <2>2. ASSUME NEW g \in Routine, NEW function \in {"options", "pool", "sync"}, Begin(g, function)
        PROVE  scenario' = scenario
    BY <2>2 DEF Begin
  <2>3. CASE GoesDown \/ ComesUp \/ UNCHANGED vars
    BY <2>3 DEF GoesDown, ComesUp, vars
  <2> QED
    BY <2>1, <2>2, <2>3 DEF Next
<1>2. OnlyMainInitialises /\ MainFirst /\ OneClient /\ Frames
  BY <1>1 DEF OnlyMainInitialises, LazyInv
<1>3. MainFirst'
  BY <1>2, MainFirstStep
<1>4. ASSUME NEW g \in Routine, StoreClient(g) PROVE Frames' /\ OneClient'
  <2>1. Frames' /\ opened = 0
    BY <1>2, <1>4, FramesStoreClient
  <2> QED
    BY <1>4, <2>1 DEF StoreClient, OneClient
<1>5. ASSUME NEW g \in Routine, Step(g), ~StoreClient(g) PROVE Frames' /\ OneClient'
  BY <1>2, <1>5, FramesStep
<1>6. ASSUME NEW g \in Routine, NEW function \in {"options", "pool", "sync"}, Begin(g, function)
      PROVE  Frames' /\ OneClient'
  <2>1. Frames'
    BY <1>2, <1>6, FramesBegin
  <2> QED
    BY <1>2, <1>6, <2>1 DEF Begin, OneClient
<1>7. CASE GoesDown \/ ComesUp \/ UNCHANGED vars
  <2>1. UNCHANGED <<stack, mutex, opened, client, failed>>
    BY <1>7 DEF GoesDown, ComesUp, vars
  <2>2. OneClient'
    BY <1>2, <2>1 DEF OneClient
  <2>3. Frames'
    <3>1. ASSUME NEW h \in Routine PROVE Shape(h)' /\ Holds(h)' /\ Clients(h)'
      <4>1. Shape(h) /\ Holds(h) /\ Clients(h)
        BY <1>2 DEF Frames
      <4> QED
        BY <2>1, <4>1 DEF Shape, Holds, Clients
    <3> QED
      BY <3>1 DEF Frames
  <2> QED
    BY <1>3, <2>2, <2>3
<1> QED
  BY <1>3, <1>4, <1>5, <1>6, <1>7 DEF Next

(* Requests that reconnect at the same time open one client between them, for *)
(* any number of goroutines and however Redis and the callers behave, while    *)
(* only main initialises.                                                     *)
THEOREM ReconnectOpensOne == Spec => []LazyReconnectOpensOne
<1>1. LazyInv => LazyReconnectOpensOne
  <2> SUFFICES ASSUME LazyInv, OnlyMainInitialises PROVE opened <= 1
    BY DEF LazyReconnectOpensOne, OnlyMainInitialises
  <2>1. opened \in {0, 1}
    BY DEF LazyInv, OneClient
  <2> QED
    BY <2>1
<1> QED
  BY <1>1, TypeInit, TypeStep, LazyInit, LazyStep, PTL DEF Spec

-----------------------------------------------------------------------------
(* The Once.  Only the goroutine that runs its function has the point of       *)
(* return after it on its stack, and has it once.                             *)

OnceAt(g) ==
  \A i \in 1 .. Len(stack[g]) :
    stack[g][i] = "onceDone" =>
      once = g /\ \A j \in 1 .. Len(stack[g]) : stack[g][j] = "onceDone" => j = i

OnceInv == \A g \in Routine : OnceAt(g)

LEMMA GotoOnce ==
  ASSUME stack \in Stacks, NEW g \in Routine, stack[g] # <<>>, OnceAt(g),
         NEW label \in Label \ {"onceDone"}, Goto(g, label), once' = once
  PROVE  OnceAt(g)'
<1>1. /\ Len(stack'[g]) = Len(stack[g]) /\ stack'[g][1] = label
      /\ \A i \in 2 .. Len(stack[g]) : stack'[g][i] = stack[g][i]
  BY GotoStack
<1>2. Len(stack[g]) \in Nat \ {0}
  BY TopOf DEF Stacks
<1>3. ASSUME NEW i \in 1 .. Len(stack'[g]), stack'[g][i] = "onceDone"
      PROVE  i \in 1 .. Len(stack[g]) /\ stack[g][i] = "onceDone"
  <2>1. i \in 2 .. Len(stack[g])
    BY <1>1, <1>2, <1>3
  <2> QED
    BY <1>1, <1>2, <1>3, <2>1
<1> QED
  BY <1>1, <1>3 DEF OnceAt

LEMMA InvokeOnce ==
  ASSUME stack \in Stacks, NEW g \in Routine, stack[g] # <<>>, OnceAt(g),
         NEW function \in {"ping", "sync", "pool"}, NEW back \in Back, Invoke(g, function, back),
         \/ back # "onceDone" /\ once' = once
         \/ once \notin Routine /\ once' = g
  PROVE  OnceAt(g)'
<1>1. /\ Len(stack'[g]) = Len(stack[g]) + 1
      /\ stack'[g][1] = function /\ stack'[g][2] = back
      /\ \A i \in 3 .. Len(stack[g]) + 1 : stack'[g][i] = stack[g][i - 1]
  BY InvokeStack DEF Label, Back
<1>2. Len(stack[g]) \in Nat \ {0}
  BY TopOf DEF Stacks
<1>3. ASSUME NEW i \in 1 .. Len(stack'[g]), stack'[g][i] = "onceDone"
      PROVE  \/ i = 2 /\ back = "onceDone"
             \/ i - 1 \in 1 .. Len(stack[g]) /\ stack[g][i - 1] = "onceDone"
  <2>1. CASE i = 1
    BY <1>1, <1>3, <2>1
  <2>2. CASE i = 2
    BY <1>1, <1>3, <2>2
  <2>3. CASE i # 1 /\ i # 2
    <3>1. i \in 3 .. Len(stack[g]) + 1 /\ i - 1 \in 1 .. Len(stack[g])
      BY <1>1, <1>2, <2>3
    <3> QED
      BY <1>1, <1>3, <3>1
  <2> QED
    BY <2>1, <2>2, <2>3
<1>4. CASE back # "onceDone" /\ once' = once
  <2>1. ASSUME NEW i \in 1 .. Len(stack'[g]), NEW j \in 1 .. Len(stack'[g]),
               stack'[g][i] = "onceDone", stack'[g][j] = "onceDone"
        PROVE  once' = g /\ j = i
    <3>1. /\ i - 1 \in 1 .. Len(stack[g]) /\ stack[g][i - 1] = "onceDone"
          /\ j - 1 \in 1 .. Len(stack[g]) /\ stack[g][j - 1] = "onceDone"
      BY <1>3, <1>4, <2>1
    <3>2. once = g /\ j - 1 = i - 1
      BY <3>1 DEF OnceAt
    <3>3. i \in Nat /\ j \in Nat
      BY <1>1, <1>2
    <3> QED
      BY <1>4, <3>2, <3>3
  <2> QED
    BY <2>1 DEF OnceAt
<1>5. CASE once \notin Routine /\ once' = g
  <2>1. \A i \in 1 .. Len(stack[g]) : stack[g][i] # "onceDone"
    BY <1>5 DEF OnceAt
  <2>2. \A i \in 1 .. Len(stack'[g]) : stack'[g][i] = "onceDone" => i = 2
    BY <1>3, <2>1
  <2> QED
    BY <1>5, <2>2 DEF OnceAt
<1> QED
  BY <1>4, <1>5

LEMMA ReturnOnce ==
  ASSUME stack \in Stacks, NEW g \in Routine, stack[g] # <<>>, OnceAt(g),
         NEW err, Return(g, err), once' = once \/ stack[g][1] = "onceDone"
  PROVE  OnceAt(g)'
<1>1. /\ Len(stack'[g]) = Len(stack[g]) - 1
      /\ \A i \in 1 .. Len(stack[g]) - 1 : stack'[g][i] = stack[g][i + 1]
  BY ReturnStack
<1>2. Len(stack[g]) \in Nat \ {0}
  BY TopOf DEF Stacks
<1>3. ASSUME NEW i \in 1 .. Len(stack'[g]), stack'[g][i] = "onceDone"
      PROVE  i + 1 \in 1 .. Len(stack[g]) /\ stack[g][i + 1] = "onceDone" /\ i \in Nat \ {0}
  <2>1. i \in 1 .. Len(stack[g]) - 1 /\ i + 1 \in 1 .. Len(stack[g])
    BY <1>1, <1>2
  <2> QED
    BY <1>1, <1>3, <2>1
<1>4. CASE stack[g][1] = "onceDone"
  <2>1. ASSUME NEW i \in 1 .. Len(stack'[g]) PROVE stack'[g][i] # "onceDone"
    <3> SUFFICES ASSUME stack'[g][i] = "onceDone" PROVE FALSE
      OBVIOUS
    <3>1. 1 \in 1 .. Len(stack[g])
      BY <1>2
    <3>2. i + 1 = 1 /\ i \in Nat \ {0}
      BY <1>3, <1>4, <3>1 DEF OnceAt
    <3> QED
      BY <3>2
  <2> QED
    BY <2>1 DEF OnceAt
<1>5. CASE once' = once
  <2>1. ASSUME NEW i \in 1 .. Len(stack'[g]), NEW j \in 1 .. Len(stack'[g]),
               stack'[g][i] = "onceDone", stack'[g][j] = "onceDone"
        PROVE  once' = g /\ j = i
    <3>1. once = g /\ j + 1 = i + 1
      BY <1>3, <2>1 DEF OnceAt
    <3>2. i \in Nat /\ j \in Nat
      BY <1>3, <2>1
    <3> QED
      BY <1>5, <3>1, <3>2
  <2> QED
    BY <2>1 DEF OnceAt
<1> QED
  BY <1>4, <1>5

LEMMA RoutineNames == "new" \notin Routine /\ "done" \notin Routine
  BY ConstAssumption DEF ConstAssumption

LEMMA OnceStep == TypeInv /\ OnceInv /\ [Next]_vars => OnceInv'
<1> SUFFICES ASSUME TypeInv, OnceInv, [Next]_vars PROVE OnceInv'
  OBVIOUS
<1>1. stack \in Stacks
  BY TypeParts DEF StackTypes
(* The others keep theirs, if the Once was not in the hands of one of them. *)
<1>2. ASSUME NEW g \in Routine, \A h \in Routine \ {g} : stack'[h] = stack[h],
             once' = once \/ once \in {g, "new"}, OnceAt(g)'
      PROVE  OnceInv'
  <2>1. ASSUME NEW h \in Routine \ {g} PROVE OnceAt(h)'
    <3>1. OnceAt(h) /\ stack'[h] = stack[h] /\ (once' = once \/ once # h)
      BY <1>2, RoutineNames DEF OnceInv
    <3> QED
      BY <3>1 DEF OnceAt
  <2> QED
    BY <1>2, <2>1 DEF OnceInv
<1>3. ASSUME NEW g \in Routine, NEW label \in Label \ {"onceDone"}, stack[g] # <<>>,
             Goto(g, label), once' = once
      PROVE  OnceInv'
  BY <1>1, <1>2, <1>3, GotoOnce, GotoStack DEF OnceInv
<1>4. ASSUME NEW g \in Routine, NEW function \in {"ping", "sync", "pool"}, NEW back \in Back,
             stack[g] # <<>>, Invoke(g, function, back),
             \/ back # "onceDone" /\ once' = once
             \/ once = "new" /\ once' = g
      PROVE  OnceInv'
  <2>1. OnceAt(g)'
    BY <1>1, <1>4, InvokeOnce, RoutineNames DEF OnceInv
  <2>2. \A h \in Routine \ {g} : stack'[h] = stack[h]
    BY <1>1, <1>4, InvokeStack DEF Label, Back
  <2> QED
    BY <1>2, <1>4, <2>1, <2>2
<1>5. ASSUME NEW g \in Routine, stack[g] # <<>>, NEW err, Return(g, err),
             once' = once \/ (once = g /\ stack[g][1] = "onceDone")
      PROVE  OnceInv'
  <2>1. OnceAt(g)'
    BY <1>1, <1>5, ReturnOnce DEF OnceInv
  <2>2. \A h \in Routine \ {g} : stack'[h] = stack[h]
    BY <1>1, <1>5, ReturnStack
  <2> QED
    BY <1>2, <1>5, <2>1, <2>2
<1> USE DEF configVars, syncVars, envVars
<1>6. ASSUME NEW g \in Routine,
             InitRedisOptions(g) \/ Attempt(g) \/ Attempted(g) \/ Ping(g) \/ Lock(g)
      PROVE  OnceInv'
  <2>1. once' = once /\ stack[g] # <<>>
    BY <1>6 DEF InitRedisOptions, Attempt, Attempted, Ping, Lock, At
  <2>2. \/ \E label \in {"attempt", "answered", "refused", "check"} : Goto(g, label)
        \/ Invoke(g, "ping", "attempted")
        \/ Return(g, failed[g])
    BY <1>6 DEF InitRedisOptions, Attempt, Attempted, Ping, Lock
  <2>3. {"attempt", "answered", "refused", "check"} \subseteq Label \ {"onceDone"}
        /\ "attempted" \in Back
    BY DEF Label, Back
  <2> QED
    BY <1>3, <1>4, <1>5, <2>1, <2>2, <2>3
<1>7. ASSUME NEW g \in Routine, StoreNil(g) \/ StoreClient(g) \/ Synced(g) \/ Rebuilt(g)
      PROVE  OnceInv'
  <2>1. once' = once /\ stack[g] # <<>>
    BY <1>7 DEF StoreNil, StoreClient, Synced, Rebuilt, At
  <2>2. \/ Invoke(g, "sync", "synced")
        \/ \E err \in {TRUE, FALSE, failed[g]} : Return(g, err)
    BY <1>7 DEF StoreNil, StoreClient, Synced, Rebuilt
  <2>3. "synced" \in Back
    BY DEF Back
  <2> QED
    BY <1>4, <1>5, <2>1, <2>2, <2>3
<1>8. ASSUME NEW g \in Routine, GetRedisPoolClient(g) \/ DoubleCheck(g) PROVE OnceInv'
  <2>1. once' = once /\ stack[g] # <<>>
    BY <1>8 DEF GetRedisPoolClient, DoubleCheck, At
  <2>2. \/ Goto(g, "lock") \/ Invoke(g, "ping", "rebuilt")
        \/ \E err \in BOOLEAN : Return(g, err)
    <3>1. CASE GetRedisPoolClient(g)
      <4>1. options \in BOOLEAN
        BY TypeParts DEF RestTypes
      <4>2. \/ ~options \/ (options /\ client # 0) \/ (options /\ client = 0)
        BY <4>1
      <4> QED
        BY <3>1, <4>2 DEF GetRedisPoolClient
    <3>2. CASE DoubleCheck(g)
      BY <3>2 DEF DoubleCheck
    <3> QED
      BY <1>8, <3>1, <3>2
  <2>3. "lock" \in Label \ {"onceDone"} /\ "rebuilt" \in Back
    BY DEF Label, Back
  <2> QED
    BY <1>3, <1>4, <1>5, <2>1, <2>2, <2>3
<1>9. ASSUME NEW g \in Routine, InitRedSyncOnce(g) PROVE OnceInv'
  <2>1. stack[g] # <<>> /\ "onceDone" \in Back
    BY <1>9 DEF InitRedSyncOnce, At, Back
  <2>2. \/ Return(g, syncErr) /\ once' = once
        \/ Invoke(g, "pool", "onceDone") /\ once = "new" /\ once' = g
    BY <1>9 DEF InitRedSyncOnce
  <2> QED
    BY <1>4, <1>5, <2>1, <2>2
<1>10. ASSUME NEW g \in Routine, OnceDone(g) PROVE OnceInv'
  <2>1. stack[g] # <<>> /\ Return(g, failed[g])
    BY <1>10 DEF OnceDone, At
  <2>2. stack[g][1] = "onceDone" /\ 1 \in 1 .. Len(stack[g])
    BY <1>1, <1>10, TopOf DEF OnceDone, At, Stacks
  <2>3. once = g
    BY <2>2 DEF OnceInv, OnceAt
  <2> QED
    BY <1>5, <2>1, <2>2, <2>3
<1>11. ASSUME NEW g \in Routine, NEW function \in {"options", "pool", "sync"}, Begin(g, function)
       PROVE  OnceInv'
  <2>1. stack' = [stack EXCEPT ![g] = <<function>>] /\ once' = once
    BY <1>11 DEF Begin
  <2>2. stack'[g] = <<function>> /\ \A h \in Routine \ {g} : stack'[h] = stack[h]
    BY <1>1, <2>1 DEF Stacks
  <2>3. \A i \in 1 .. Len(stack'[g]) : stack'[g][i] # "onceDone"
    BY <2>2
  <2>4. OnceAt(g)'
    BY <2>3 DEF OnceAt
  <2> QED
    BY <1>2, <2>1, <2>2, <2>4
<1>12. CASE GoesDown \/ ComesUp \/ UNCHANGED vars
  <2>1. UNCHANGED <<stack, once>>
    BY <1>12 DEF GoesDown, ComesUp, vars
  <2>2. ASSUME NEW h \in Routine PROVE OnceAt(h)'
    <3>1. OnceAt(h)
      BY DEF OnceInv
    <3> QED
      BY <2>1, <3>1 DEF OnceAt
  <2> QED
    BY <2>2 DEF OnceInv
<1> QED
  BY <1>6, <1>7, <1>8, <1>9, <1>10, <1>11, <1>12 DEF Next, Step

LEMMA OnceInit == Init => OnceInv
<1> SUFFICES ASSUME Init PROVE OnceInv
  OBVIOUS
<1>1. ASSUME NEW g \in Routine PROVE 1 .. Len(stack[g]) = {}
  BY DEF Init
<1> QED
  BY <1>1 DEF OnceInv, OnceAt

-----------------------------------------------------------------------------
(* Locking.  Until the service serves, main is alone with Redis up, and its   *)
(* stack goes through these states; in the course of them the Once's function *)
(* runs, and succeeds.                                                       *)

StartsUp == scenario.upAtStart /\ scenario.calls[Main] = {"options"}

Good == once = "done" /\ ~syncErr /\ redisSync # 0

Depth(n) == Len(stack[Main]) = n
Entry(i, label) == stack[Main][i] = label

BeforeOnce ==
  /\ once = "new"
  /\ \/ calls[Main] = 0
     \/ Depth(1) /\ Entry(1, "options")
     \/ options /\ Depth(1) /\ Entry(1, "attempt")
     \/ options /\ Depth(2) /\ Entry(1, "ping") /\ Entry(2, "attempted")
     \/ options /\ Depth(2) /\ Entry(1, "answered") /\ Entry(2, "attempted")
     \/ /\ options /\ client # 0
        /\ Depth(3) /\ Entry(1, "sync") /\ Entry(2, "synced") /\ Entry(3, "attempted")

InOnce ==
  /\ once = Main
  /\ \/ /\ options /\ client # 0
        /\ Depth(4) /\ Entry(1, "pool") /\ Entry(2, "onceDone") /\ Entry(3, "synced")
        /\ Entry(4, "attempted")
     \/ /\ ~failed[Main] /\ got[Main] # 0
        /\ Depth(3) /\ Entry(1, "onceDone") /\ Entry(2, "synced") /\ Entry(3, "attempted")

AfterOnce ==
  /\ Good
  /\ \/ Depth(2) /\ Entry(1, "synced") /\ Entry(2, "attempted")
     \/ ~failed[Main] /\ Depth(1) /\ Entry(1, "attempted")
     \/ Serving

SyncInv ==
  StartsUp => /\ ~Serving => up
              /\ BeforeOnce \/ InOnce \/ AfterOnce

(* Which action a point of the code is. *)
LEMMA StepAt ==
  ASSUME stack \in Stacks, NEW g \in Routine, Step(g)
  PROVE  /\ stack[g] # <<>> /\ Len(stack[g]) \in Nat \ {0}
         /\ stack[g][1] = "options"   => InitRedisOptions(g)
         /\ stack[g][1] = "attempt"   => Attempt(g)
         /\ stack[g][1] = "attempted" => Attempted(g)
         /\ stack[g][1] = "ping"      => Ping(g)
         /\ stack[g][1] = "answered"  => StoreClient(g)
         /\ stack[g][1] = "synced"    => Synced(g)
         /\ stack[g][1] = "pool"      => GetRedisPoolClient(g)
         /\ stack[g][1] = "sync"      => InitRedSyncOnce(g)
         /\ stack[g][1] = "onceDone"  => OnceDone(g)
<1>1. stack[g] # <<>>
  BY DEF Step, InitRedisOptions, Attempt, Attempted, Ping, StoreNil, StoreClient, Synced,
         GetRedisPoolClient, Lock, DoubleCheck, Rebuilt, InitRedSyncOnce, OnceDone, At
<1>2. Len(stack[g]) \in Nat \ {0} /\ Head(stack[g]) = stack[g][1]
  BY <1>1, TopOf DEF Stacks
<1> QED
  BY <1>1, <1>2 DEF Step, InitRedisOptions, Attempt, Attempted, Ping, StoreNil, StoreClient, Synced,
         GetRedisPoolClient, Lock, DoubleCheck, Rebuilt, InitRedSyncOnce, OnceDone, At

LEMMA MainGoes ==
  ASSUME TypeInv, MainFirst, Step(Main), stack[Main] # <<>>, up, BeforeOnce \/ InOnce \/ AfterOnce
  PROVE  BeforeOnce' \/ InOnce' \/ AfterOnce'
<1> USE DEF configVars, syncVars, envVars
<1>1. /\ stack \in Stacks /\ RestTypes /\ Main \in Routine
      /\ Len(stack[Main]) \in Nat \ {0} /\ calls[Main] # 0
  <2>1. stack \in Stacks /\ RestTypes /\ Main \in Routine
    BY TypeParts, Bounds DEF StackTypes
  <2> QED
    BY <2>1, StepAt DEF MainFirst
<1>2. ~Serving
  BY DEF Serving
<1>3. CASE once = "new" /\ Depth(1) /\ Entry(1, "options")
  <2>1. InitRedisOptions(Main)
    BY <1>1, <1>3, StepAt DEF Entry
  <2>2. Goto(Main, "attempt") /\ once' = once /\ options' /\ "attempt" \in Label
    BY <2>1 DEF InitRedisOptions, Label
  <2>3. Len(stack'[Main]) = Len(stack[Main]) /\ stack'[Main][1] = "attempt"
    BY <1>1, <2>2, GotoStack
  <2> QED
    BY <1>3, <2>2, <2>3 DEF BeforeOnce, Depth, Entry
<1>4. CASE once = "new" /\ options /\ Depth(1) /\ Entry(1, "attempt")
  <2>1. Attempt(Main)
    BY <1>1, <1>4, StepAt DEF Entry
  <2>2. /\ Invoke(Main, "ping", "attempted") /\ once' = once /\ options' = options
        /\ "ping" \in Label /\ "attempted" \in Label
    BY <2>1 DEF Attempt, Label
  <2>3. /\ Len(stack'[Main]) = Len(stack[Main]) + 1
        /\ stack'[Main][1] = "ping" /\ stack'[Main][2] = "attempted"
    BY <1>1, <2>2, InvokeStack
  <2>4. Len(stack'[Main]) = 2
    BY <1>4, <2>3 DEF Depth
  <2> QED
    BY <1>4, <2>2, <2>3, <2>4 DEF BeforeOnce, Depth, Entry
<1>5. CASE once = "new" /\ options /\ Depth(2) /\ Entry(1, "ping") /\ Entry(2, "attempted")
  <2>1. Ping(Main)
    BY <1>1, <1>5, StepAt DEF Entry
  <2>2. Goto(Main, "answered") /\ once' = once /\ options' = options /\ "answered" \in Label
    BY <2>1 DEF Ping, Label
  <2>3. /\ Len(stack'[Main]) = Len(stack[Main]) /\ stack'[Main][1] = "answered"
        /\ \A i \in 2 .. Len(stack[Main]) : stack'[Main][i] = stack[Main][i]
    BY <1>1, <2>2, GotoStack
  <2>4. stack'[Main][2] = "attempted"
    BY <1>5, <2>3 DEF Depth, Entry
  <2> QED
    BY <1>5, <2>2, <2>3, <2>4 DEF BeforeOnce, Depth, Entry
<1>6. CASE once = "new" /\ options /\ Depth(2) /\ Entry(1, "answered") /\ Entry(2, "attempted")
  <2>1. StoreClient(Main)
    BY <1>1, <1>6, StepAt DEF Entry
  <2>2. /\ Invoke(Main, "sync", "synced") /\ once' = once /\ options' = options
        /\ "sync" \in Label /\ "synced" \in Label
    BY <2>1 DEF StoreClient, Label
  <2>3. client' # 0
    BY <1>1, <2>1 DEF StoreClient, RestTypes
  <2>4. /\ Len(stack'[Main]) = Len(stack[Main]) + 1
        /\ stack'[Main][1] = "sync" /\ stack'[Main][2] = "synced"
        /\ \A i \in 3 .. Len(stack[Main]) + 1 : stack'[Main][i] = stack[Main][i - 1]
    BY <1>1, <2>2, InvokeStack
  <2>5. Len(stack'[Main]) = 3 /\ stack'[Main][3] = "attempted"
    <3>1. Len(stack[Main]) + 1 = 3 /\ 3 \in 3 .. 3 /\ 3 - 1 = 2
      BY <1>6 DEF Depth
    <3> QED
      BY <1>6, <2>4, <3>1 DEF Entry
  <2> QED
    BY <1>6, <2>2, <2>3, <2>4, <2>5 DEF BeforeOnce, Depth, Entry
<1>7. CASE /\ once = "new" /\ options /\ client # 0
           /\ Depth(3) /\ Entry(1, "sync") /\ Entry(2, "synced") /\ Entry(3, "attempted")
  <2>1. InitRedSyncOnce(Main)
    BY <1>1, <1>7, StepAt DEF Entry
  <2>2. /\ Invoke(Main, "pool", "onceDone") /\ once' = Main /\ UNCHANGED <<options, client>>
        /\ "pool" \in Label /\ "onceDone" \in Label
    BY <1>7, <2>1 DEF InitRedSyncOnce, Label
  <2>3. /\ Len(stack'[Main]) = Len(stack[Main]) + 1
        /\ stack'[Main][1] = "pool" /\ stack'[Main][2] = "onceDone"
        /\ \A i \in 3 .. Len(stack[Main]) + 1 : stack'[Main][i] = stack[Main][i - 1]
    BY <1>1, <2>2, InvokeStack
  <2>4. Len(stack'[Main]) = 4 /\ stack'[Main][3] = "synced" /\ stack'[Main][4] = "attempted"
    <3>1. /\ Len(stack[Main]) + 1 = 4 /\ 3 \in 3 .. 4 /\ 4 \in 3 .. 4
          /\ 3 - 1 = 2 /\ 4 - 1 = 3
      BY <1>7 DEF Depth
    <3>2. stack'[Main][3] = stack[Main][2] /\ stack'[Main][4] = stack[Main][3]
      BY <2>3, <3>1
    <3> QED
      BY <1>7, <2>3, <3>1, <3>2 DEF Entry
  <2> QED
    BY <1>7, <2>2, <2>3, <2>4 DEF InOnce, Depth, Entry
<1>8. CASE /\ once = Main /\ options /\ client # 0
           /\ Depth(4) /\ Entry(1, "pool") /\ Entry(2, "onceDone") /\ Entry(3, "synced")
           /\ Entry(4, "attempted")
  <2>1. GetRedisPoolClient(Main)
    BY <1>1, <1>8, StepAt DEF Entry
  <2>2. Return(Main, FALSE) /\ Load(Main) /\ once' = once
    BY <1>8, <2>1 DEF GetRedisPoolClient
  <2>3. ~failed'[Main] /\ got'[Main] # 0
    BY <1>1, <1>8, <2>2 DEF Return, Load, RestTypes
  <2>4. /\ Len(stack'[Main]) = Len(stack[Main]) - 1
        /\ \A i \in 1 .. Len(stack[Main]) - 1 : stack'[Main][i] = stack[Main][i + 1]
    BY <1>1, <2>2, ReturnStack
  <2>5. /\ Len(stack'[Main]) = 3 /\ stack'[Main][1] = "onceDone"
        /\ stack'[Main][2] = "synced" /\ stack'[Main][3] = "attempted"
    BY <1>8, <2>4 DEF Depth, Entry
  <2> QED
    BY <1>8, <2>2, <2>3, <2>5 DEF InOnce, Depth, Entry
<1>9. CASE /\ once = Main /\ ~failed[Main] /\ got[Main] # 0
           /\ Depth(3) /\ Entry(1, "onceDone") /\ Entry(2, "synced") /\ Entry(3, "attempted")
  <2>1. OnceDone(Main)
    BY <1>1, <1>9, StepAt DEF Entry
  <2>2. Return(Main, failed[Main]) /\ Good'
    BY <1>9, <2>1 DEF OnceDone, Good
  <2>3. /\ Len(stack'[Main]) = Len(stack[Main]) - 1
        /\ \A i \in 1 .. Len(stack[Main]) - 1 : stack'[Main][i] = stack[Main][i + 1]
    BY <1>1, <2>2, ReturnStack
  <2>4. /\ Len(stack'[Main]) = 2 /\ stack'[Main][1] = "synced" /\ stack'[Main][2] = "attempted"
    BY <1>9, <2>3 DEF Depth, Entry
  <2> QED
    BY <2>2, <2>4 DEF AfterOnce, Depth, Entry
<1>10. CASE Good /\ Depth(2) /\ Entry(1, "synced") /\ Entry(2, "attempted")
  <2>1. Synced(Main)
    BY <1>1, <1>10, StepAt DEF Entry
  <2>2. Return(Main, FALSE) /\ Good'
    BY <1>10, <2>1 DEF Synced, Good
  <2>3. ~failed'[Main]
    BY <1>1, <2>2 DEF Return, RestTypes
  <2>4. /\ Len(stack'[Main]) = Len(stack[Main]) - 1
        /\ \A i \in 1 .. Len(stack[Main]) - 1 : stack'[Main][i] = stack[Main][i + 1]
    BY <1>1, <2>2, ReturnStack
  <2>5. Len(stack'[Main]) = 1 /\ stack'[Main][1] = "attempted"
    BY <1>10, <2>4 DEF Depth, Entry
  <2> QED
    BY <2>2, <2>3, <2>5 DEF AfterOnce, Depth, Entry
<1>11. CASE Good /\ ~failed[Main] /\ Depth(1) /\ Entry(1, "attempted")
  <2>1. Attempted(Main)
    BY <1>1, <1>11, StepAt DEF Entry
  <2>2. Return(Main, failed[Main]) /\ Good' /\ calls' = calls
    BY <1>11, <2>1 DEF Attempted, Good
  <2>3. Len(stack'[Main]) = Len(stack[Main]) - 1 /\ stack' \in Stacks
    BY <1>1, <2>2, ReturnStack
  <2>4. stack'[Main] = <<>>
    <3>1. Len(stack'[Main]) = 0 /\ stack'[Main] \in Seq(Label)
      BY <1>1, <1>11, <2>3 DEF Depth, Stacks
    <3> QED
      BY <3>1
  <2>5. Serving'
    BY <1>1, <2>2, <2>4 DEF Serving, RestTypes
  <2> QED
    BY <2>2, <2>5 DEF AfterOnce
<1> QED
  BY <1>1, <1>2, <1>3, <1>4, <1>5, <1>6, <1>7, <1>8, <1>9, <1>10, <1>11
     DEF BeforeOnce, InOnce, AfterOnce

LEMMA ServingIsGood ==
  ASSUME TypeInv, Serving, BeforeOnce \/ InOnce \/ AfterOnce
  PROVE  Good
<1>1. calls[Main] # 0 /\ Len(stack[Main]) = 0
  BY Bounds, TypeParts DEF Serving, RestTypes
<1> QED
  BY <1>1 DEF BeforeOnce, InOnce, AfterOnce, Depth

LEMMA GoodStays ==
  ASSUME TypeInv, OnceInv, Good, NEW g \in Routine, Step(g)
  PROVE  Good'
<1> USE DEF configVars, syncVars, envVars
<1>1. ~OnceDone(g)
  <2> SUFFICES ASSUME OnceDone(g) PROVE FALSE
    OBVIOUS
  <2>1. stack \in Stacks
    BY TypeParts DEF StackTypes
  <2>2. stack[g][1] = "onceDone" /\ 1 \in 1 .. Len(stack[g])
    BY <2>1, TopOf DEF OnceDone, At, Stacks
  <2>3. once = g
    BY <2>2 DEF OnceInv, OnceAt
  <2> QED
    BY <2>3, RoutineNames DEF Good
<1>2. UNCHANGED <<once, redisSync, syncErr>>
  BY <1>1 DEF Good, Step, InitRedisOptions, Attempt, Attempted, Ping, StoreNil, StoreClient, Synced,
         GetRedisPoolClient, Lock, DoubleCheck, Rebuilt, InitRedSyncOnce
<1> QED
  BY <1>2 DEF Good

LEMMA SyncStep == TypeInv /\ MainFirst /\ OnceInv /\ SyncInv /\ [Next]_vars => SyncInv'
<1> SUFFICES ASSUME TypeInv, MainFirst, OnceInv, SyncInv, [Next]_vars, StartsUp'
             PROVE  (~Serving => up)' /\ (BeforeOnce \/ InOnce \/ AfterOnce)'
  BY DEF SyncInv
<1> USE DEF configVars, syncVars, envVars
<1>1. scenario' = scenario
  <2>1. ASSUME NEW g \in Routine, Step(g) PROVE scenario' = scenario
    BY <2>1 DEF Step, InitRedisOptions, Attempt, Attempted, Ping, StoreNil, StoreClient, Synced,
                GetRedisPoolClient, Lock, DoubleCheck, Rebuilt, InitRedSyncOnce, OnceDone
  <2>2. ASSUME NEW g \in Routine, NEW function \in {"options", "pool", "sync"}, Begin(g, function)
        PROVE  scenario' = scenario
    BY <2>2 DEF Begin
  <2>3. CASE GoesDown \/ ComesUp \/ UNCHANGED vars
    BY <2>3 DEF GoesDown, ComesUp, vars
  <2> QED
    BY <2>1, <2>2, <2>3 DEF Next
<1>2. /\ StartsUp /\ (~Serving => up) /\ (BeforeOnce \/ InOnce \/ AfterOnce)
      /\ Main \in Routine /\ stack \in Stacks /\ RestTypes
  BY <1>1, Bounds, TypeParts DEF StartsUp, SyncInv, StackTypes
<1>3. MainFirst'
  BY MainFirstStep
<1>4. ASSUME NEW g \in Routine, Step(g)
      PROVE  (~Serving => up)' /\ (BeforeOnce \/ InOnce \/ AfterOnce)'
  <2>1. stack[g] # <<>> /\ up' = up /\ calls' = calls
    <3>1. up' = up /\ calls' = calls
      BY <1>4 DEF Step, InitRedisOptions, Attempt, Attempted, Ping, StoreNil, StoreClient, Synced,
                  GetRedisPoolClient, Lock, DoubleCheck, Rebuilt, InitRedSyncOnce, OnceDone
    <3> QED
      BY <1>2, <1>4, <3>1, StepAt
  <2>2. CASE g = Main
    <3>1. up
      BY <1>2, <2>1, <2>2 DEF Serving
    <3> QED
      BY <1>2, <1>4, <2>1, <2>2, <3>1, MainGoes
  <2>3. CASE g # Main
    <3>1. Serving
      BY <2>1, <2>3 DEF MainFirst
    <3>2. stack'[Main] = stack[Main]
      <4>1. \E new : stack' = [stack EXCEPT ![g] = new]
        BY <1>4 DEF Step, InitRedisOptions, Attempt, Attempted, Ping, StoreNil, StoreClient, Synced,
                    GetRedisPoolClient, Lock, DoubleCheck, Rebuilt, InitRedSyncOnce, OnceDone,
                    Goto, Invoke, Return
      <4> QED
        BY <1>2, <2>3, <4>1 DEF Stacks
    <3>3. Serving'
      BY <2>1, <3>1, <3>2 DEF Serving
    <3>4. Good'
      BY <1>2, <1>4, <3>1, ServingIsGood, GoodStays
    <3> QED
      BY <3>3, <3>4 DEF AfterOnce
  <2> QED
    BY <2>2, <2>3
<1>5. ASSUME NEW g \in Routine, NEW function \in {"options", "pool", "sync"}, Begin(g, function)
      PROVE  (~Serving => up)' /\ (BeforeOnce \/ InOnce \/ AfterOnce)'
  <2>1. /\ stack' = [stack EXCEPT ![g] = <<function>>] /\ up' = up
        /\ calls' = [calls EXCEPT ![g] = @ + 1]
        /\ UNCHANGED <<once, syncErr, redisSync>>
    BY <1>5 DEF Begin
  <2>2. CASE g = Main
    <3>1. calls[Main] = 0 /\ function = "options"
      BY <1>2, <1>5, <2>2 DEF Begin, StartsUp
    <3>2. ~Serving /\ Len(stack[Main]) = 0
      BY <1>2, <1>5, <2>2, <3>1 DEF Begin, Serving
    <3>3. once = "new"
      BY <1>2, <3>2 DEF BeforeOnce, InOnce, AfterOnce, Depth
    <3>4. Len(stack'[Main]) = 1 /\ stack'[Main][1] = "options"
      <4>1. stack'[Main] = <<"options">>
        BY <1>2, <2>1, <2>2, <3>1 DEF Stacks
      <4> QED
        BY <4>1
    <3> QED
      BY <1>2, <2>1, <3>2, <3>3, <3>4 DEF BeforeOnce, Depth, Entry
  <2>3. CASE g # Main
    <3>1. Serving
      BY <1>5, <2>3 DEF Begin
    <3>2. Serving'
      BY <1>2, <2>1, <2>3, <3>1 DEF Serving, Stacks, RestTypes
    <3>3. Good'
      BY <1>2, <2>1, <3>1, ServingIsGood DEF Good
    <3> QED
      BY <3>2, <3>3 DEF AfterOnce
  <2> QED
    BY <2>2, <2>3
<1>6. CASE GoesDown \/ ComesUp \/ UNCHANGED vars
  <2>1. UNCHANGED <<configVars, syncVars, stack, failed, got, calls>>
    BY <1>6 DEF GoesDown, ComesUp, vars
  <2>2. (~Serving => up)'
    <3>1. Serving' <=> Serving
      BY <2>1 DEF Serving
    <3> QED
      BY <1>2, <1>6, <3>1 DEF GoesDown, ComesUp, vars, StartsUp
  <2>3. (BeforeOnce \/ InOnce \/ AfterOnce)'
    BY <1>2, <2>1 DEF BeforeOnce, InOnce, AfterOnce, Good, Depth, Entry, Serving
  <2> QED
    BY <2>2, <2>3
<1> QED
  BY <1>4, <1>5, <1>6 DEF Next

LEMMA SyncInit == Init => SyncInv /\ MainFirst
<1> SUFFICES ASSUME Init PROVE SyncInv /\ MainFirst
  OBVIOUS
<1>1. once = "new" /\ calls[Main] = 0 /\ up = scenario.upAtStart /\ opened = 0
      /\ \A g \in Routine : stack[g] = <<>>
  BY Bounds DEF Init
<1> QED
  BY <1>1, Bounds DEF SyncInv, StartsUp, BeforeOnce, MainFirst

-----------------------------------------------------------------------------
(* Waiting.  Whoever holds the mutex is between its second look at the pointer *)
(* and the end of the rebuild, and whoever fetches the pool has nothing below   *)
(* that but the function of the Once.                                         *)

Fetching == {"pool", "lock", "check"}

OverOnce(g) ==
  stack[g] # <<>> /\ stack[g][1] \in Fetching => Len(stack[g]) = 1 \/ stack[g][2] = "onceDone"

Rebuilding(g) ==
  mutex = g => \E i \in 1 .. Len(stack[g]) : stack[g][i] \in {"check", "rebuilt"}

WaitInv == \A g \in Routine : OverOnce(g) /\ Rebuilding(g)

LEMMA GotoWait ==
  ASSUME stack \in Stacks, NEW g \in Routine, stack[g] # <<>>, OverOnce(g), Rebuilding(g),
         NEW label \in Label, Goto(g, label), stack[g][1] \notin {"check", "rebuilt"},
         label \in Fetching => stack[g][1] \in Fetching,
         mutex' = mutex \/ label = "check"
  PROVE  OverOnce(g)' /\ Rebuilding(g)'
<1>1. /\ Len(stack'[g]) = Len(stack[g]) /\ stack'[g][1] = label
      /\ \A i \in 2 .. Len(stack[g]) : stack'[g][i] = stack[g][i]
  BY GotoStack
<1>2. Len(stack[g]) \in Nat \ {0}
  BY TopOf DEF Stacks
<1>3. OverOnce(g)'
  <2>1. \A n \in Nat \ {0} : n = 1 \/ 2 \in 2 .. n
    OBVIOUS
  <2>2. Len(stack[g]) = 1 \/ stack'[g][2] = stack[g][2]
    BY <1>1, <1>2, <2>1, Zenon
  <2> QED
    BY <1>1, <2>2 DEF OverOnce
<1>4. Rebuilding(g)'
  <2>1. CASE label = "check"
    BY <1>1, <1>2, <2>1 DEF Rebuilding
  <2>2. CASE mutex' = mutex
    <3> SUFFICES ASSUME mutex = g
                 PROVE  \E i \in 1 .. Len(stack'[g]) : stack'[g][i] \in {"check", "rebuilt"}
      BY <2>2 DEF Rebuilding
    <3>1. PICK i \in 1 .. Len(stack[g]) : stack[g][i] \in {"check", "rebuilt"}
      BY DEF Rebuilding
    <3>2. i # 1
      BY <3>1
    <3>3. i \in 2 .. Len(stack[g])
      BY <1>2, <3>2
    <3> QED
      BY <1>1, <3>1, <3>3
  <2> QED
    BY <2>1, <2>2
<1> QED
  BY <1>3, <1>4

LEMMA InvokeWait ==
  ASSUME stack \in Stacks, NEW g \in Routine, stack[g] # <<>>, Rebuilding(g),
         NEW function \in {"ping", "sync", "pool"}, NEW back \in Back, Invoke(g, function, back),
         function = "pool" => back = "onceDone",
         stack[g][1] \in {"check", "rebuilt"} => back = "rebuilt",
         mutex' = mutex
  PROVE  OverOnce(g)' /\ Rebuilding(g)'
<1>1. /\ Len(stack'[g]) = Len(stack[g]) + 1
      /\ stack'[g][1] = function /\ stack'[g][2] = back
      /\ \A i \in 3 .. Len(stack[g]) + 1 : stack'[g][i] = stack[g][i - 1]
  BY InvokeStack DEF Label, Back
<1>2. Len(stack[g]) \in Nat \ {0}
  BY TopOf DEF Stacks
<1>3. OverOnce(g)'
  BY <1>1 DEF OverOnce, Fetching
<1>4. Rebuilding(g)'
  <2> SUFFICES ASSUME mutex = g
               PROVE  \E i \in 1 .. Len(stack'[g]) : stack'[g][i] \in {"check", "rebuilt"}
    BY DEF Rebuilding
  <2>1. PICK i \in 1 .. Len(stack[g]) : stack[g][i] \in {"check", "rebuilt"}
    BY DEF Rebuilding
  <2>2. CASE i = 1
    <3>1. 2 \in 1 .. Len(stack'[g])
      BY <1>1, <1>2
    <3> QED
      BY <1>1, <2>1, <2>2, <3>1
  <2>3. CASE i # 1
    <3>1. i + 1 \in 3 .. Len(stack[g]) + 1 /\ (i + 1) - 1 = i
      BY <1>2, <2>3
    <3>2. i + 1 \in 1 .. Len(stack'[g])
      BY <1>1, <1>2, <3>1
    <3>3. stack'[g][i + 1] = stack[g][i]
      BY <1>1, <3>1
    <3> QED
      BY <2>1, <3>2, <3>3
  <2> QED
    BY <2>2, <2>3
<1> QED
  BY <1>3, <1>4

LEMMA ReturnWait ==
  ASSUME stack \in Stacks, Under, NEW g \in Routine, stack[g] # <<>>, Rebuilding(g),
         NEW err, Return(g, err),
         (mutex' = mutex /\ stack[g][1] \notin {"check", "rebuilt"}) \/ mutex' = None
  PROVE  OverOnce(g)' /\ Rebuilding(g)'
<1>1. /\ Len(stack'[g]) = Len(stack[g]) - 1 /\ stack' \in Stacks
      /\ \A i \in 1 .. Len(stack[g]) - 1 : stack'[g][i] = stack[g][i + 1]
  BY ReturnStack
<1>2. Len(stack[g]) \in Nat \ {0}
  BY TopOf DEF Stacks
<1>3. OverOnce(g)'
  <2> SUFFICES ASSUME stack'[g] # <<>> PROVE stack'[g][1] \notin Fetching
    BY DEF OverOnce
  <2>1. Len(stack'[g]) \in Nat \ {0}
    BY <1>1, TopOf DEF Stacks
  <2>2. 1 \in 1 .. Len(stack[g]) - 1 /\ 1 + 1 \in 2 .. Len(stack[g])
    BY <1>1, <1>2, <2>1
  <2>3. stack'[g][1] \in Back
    BY <1>1, <2>2 DEF Under
  <2> QED
    BY <2>3 DEF Back, Fetching
<1>4. Rebuilding(g)'
  <2> SUFFICES ASSUME mutex' = g
               PROVE  \E i \in 1 .. Len(stack'[g]) : stack'[g][i] \in {"check", "rebuilt"}
    BY DEF Rebuilding
  <2>1. mutex = g /\ stack[g][1] \notin {"check", "rebuilt"}
    BY Bounds
  <2>2. PICK i \in 1 .. Len(stack[g]) : stack[g][i] \in {"check", "rebuilt"}
    BY <2>1 DEF Rebuilding
  <2>3. i # 1
    BY <2>1, <2>2
  <2>4. i - 1 \in 1 .. Len(stack[g]) - 1 /\ (i - 1) + 1 = i
    BY <1>2, <2>3
  <2> QED
    BY <1>1, <2>2, <2>4
<1> QED
  BY <1>3, <1>4

LEMMA WaitStep == TypeInv /\ WaitInv /\ [Next]_vars => WaitInv'
<1> SUFFICES ASSUME TypeInv, WaitInv, [Next]_vars PROVE WaitInv'
  OBVIOUS
<1>1. stack \in Stacks /\ Under
  BY TypeParts DEF StackTypes
(* The others keep theirs, if nobody takes the mutex for them. *)
<1>2. ASSUME NEW g \in Routine, \A h \in Routine \ {g} : stack'[h] = stack[h],
             mutex' \in {mutex, g, None}, OverOnce(g)', Rebuilding(g)'
      PROVE  WaitInv'
  <2>1. ASSUME NEW h \in Routine \ {g} PROVE OverOnce(h)' /\ Rebuilding(h)'
    <3>1. OverOnce(h) /\ Rebuilding(h) /\ stack'[h] = stack[h] /\ (mutex' = h => mutex = h)
      BY <1>2, Bounds DEF WaitInv
    <3> QED
      BY <3>1 DEF OverOnce, Rebuilding
  <2> QED
    BY <1>2, <2>1 DEF WaitInv
<1>3. ASSUME NEW g \in Routine, NEW label \in Label, stack[g] # <<>>, Goto(g, label),
             stack[g][1] \notin {"check", "rebuilt"},
             label \in Fetching => stack[g][1] \in Fetching,
             mutex' = mutex \/ (label = "check" /\ mutex' = g)
      PROVE  WaitInv'
  <2>1. OverOnce(g)' /\ Rebuilding(g)'
    BY <1>1, <1>3, GotoWait DEF WaitInv
  <2>2. \A h \in Routine \ {g} : stack'[h] = stack[h]
    BY <1>1, <1>3, GotoStack
  <2> QED
    BY <1>2, <1>3, <2>1, <2>2
<1>4. ASSUME NEW g \in Routine, NEW function \in {"ping", "sync", "pool"}, NEW back \in Back,
             stack[g] # <<>>, Invoke(g, function, back), function = "pool" => back = "onceDone",
             stack[g][1] \in {"check", "rebuilt"} => back = "rebuilt", mutex' = mutex
      PROVE  WaitInv'
  <2>1. OverOnce(g)' /\ Rebuilding(g)'
    BY <1>1, <1>4, InvokeWait DEF WaitInv
  <2>2. \A h \in Routine \ {g} : stack'[h] = stack[h]
    BY <1>1, <1>4, InvokeStack DEF Label, Back
  <2> QED
    BY <1>2, <1>4, <2>1, <2>2
<1>5. ASSUME NEW g \in Routine, stack[g] # <<>>, NEW err, Return(g, err),
             (mutex' = mutex /\ stack[g][1] \notin {"check", "rebuilt"}) \/ mutex' = None
      PROVE  WaitInv'
  <2>1. OverOnce(g)' /\ Rebuilding(g)'
    BY <1>1, <1>5, ReturnWait DEF WaitInv
  <2>2. \A h \in Routine \ {g} : stack'[h] = stack[h]
    BY <1>1, <1>5, ReturnStack
  <2> QED
    BY <1>2, <1>5, <2>1, <2>2
<1> USE DEF configVars, syncVars, envVars
<1>6. ASSUME NEW g \in Routine, NEW label, At(g, label) PROVE stack[g] # <<>> /\ stack[g][1] = label
  BY <1>1, <1>6, TopOf DEF At, Stacks
<1>7. ASSUME NEW g \in Routine,
             InitRedisOptions(g) \/ Attempt(g) \/ Attempted(g) \/ Ping(g)
      PROVE  WaitInv'
  <2>1. mutex' = mutex /\ \E label \in {"options", "attempt", "attempted", "ping"} : At(g, label)
    BY <1>7 DEF InitRedisOptions, Attempt, Attempted, Ping
  <2>2. stack[g] # <<>> /\ stack[g][1] \notin {"check", "rebuilt"}
    BY <1>6, <2>1
  <2>3. \/ \E label \in {"attempt", "answered", "refused"} : Goto(g, label)
        \/ Invoke(g, "ping", "attempted")
        \/ Return(g, failed[g])
    BY <1>7 DEF InitRedisOptions, Attempt, Attempted, Ping
  <2>4. {"attempt", "answered", "refused"} \subseteq Label \ Fetching /\ "attempted" \in Back
    BY DEF Label, Back, Fetching
  <2> QED
    BY <1>3, <1>4, <1>5, <2>1, <2>2, <2>3, <2>4
<1>8. ASSUME NEW g \in Routine, StoreNil(g) \/ StoreClient(g) \/ Synced(g) \/ OnceDone(g)
      PROVE  WaitInv'
  <2>1. mutex' = mutex /\ \E label \in {"refused", "answered", "synced", "onceDone"} : At(g, label)
    BY <1>8 DEF StoreNil, StoreClient, Synced, OnceDone
  <2>2. stack[g] # <<>> /\ stack[g][1] \notin {"check", "rebuilt"}
    BY <1>6, <2>1
  <2>3. \/ Invoke(g, "sync", "synced")
        \/ \E err \in {TRUE, FALSE, failed[g]} : Return(g, err)
    BY <1>8 DEF StoreNil, StoreClient, Synced, OnceDone
  <2>4. "synced" \in Back
    BY DEF Back
  <2> QED
    BY <1>4, <1>5, <2>1, <2>2, <2>3, <2>4
<1>9. ASSUME NEW g \in Routine, GetRedisPoolClient(g) \/ Lock(g) PROVE WaitInv'
  <2>1. stack[g] # <<>> /\ stack[g][1] \in {"pool", "lock"}
    BY <1>6, <1>9 DEF GetRedisPoolClient, Lock
  <2>2. CASE GetRedisPoolClient(g)
    <3>1. options \in BOOLEAN /\ mutex' = mutex
      BY <2>2, TypeParts DEF RestTypes, GetRedisPoolClient
    <3>2. ~options \/ (options /\ client # 0) \/ (options /\ client = 0)
      BY <3>1
    <3>3. Goto(g, "lock") \/ \E err \in BOOLEAN : Return(g, err)
      BY <2>2, <3>2 DEF GetRedisPoolClient
    <3>4. "lock" \in Label
      BY DEF Label
    <3> QED
      BY <1>3, <1>5, <2>1, <3>1, <3>3, <3>4 DEF Fetching
  <2>3. CASE Lock(g)
    <3>1. Goto(g, "check") /\ mutex' = g /\ "check" \in Label
      BY <2>3 DEF Lock, Label
    <3> QED
      BY <1>3, <2>1, <3>1 DEF Fetching
  <2> QED
    BY <1>9, <2>2, <2>3
<1>10. ASSUME NEW g \in Routine, DoubleCheck(g) \/ Rebuilt(g) PROVE WaitInv'
  <2>1. stack[g] # <<>>
    BY <1>6, <1>10 DEF DoubleCheck, Rebuilt
  <2>2. \/ Invoke(g, "ping", "rebuilt") /\ mutex' = mutex
        \/ mutex' = None /\ \E err \in {FALSE, failed[g]} : Return(g, err)
    BY <1>10 DEF DoubleCheck, Rebuilt
  <2>3. "rebuilt" \in Back
    BY DEF Back
  <2> QED
    BY <1>4, <1>5, <2>1, <2>2, <2>3
<1>11. ASSUME NEW g \in Routine, InitRedSyncOnce(g) PROVE WaitInv'
  <2>1. stack[g] # <<>> /\ stack[g][1] = "sync" /\ mutex' = mutex /\ "onceDone" \in Back
    BY <1>6, <1>11 DEF InitRedSyncOnce, Back
  <2>2. Return(g, syncErr) \/ Invoke(g, "pool", "onceDone")
    BY <1>11 DEF InitRedSyncOnce
  <2> QED
    BY <1>4, <1>5, <2>1, <2>2
<1>12. ASSUME NEW g \in Routine, NEW function \in {"options", "pool", "sync"}, Begin(g, function)
       PROVE  WaitInv'
  <2>1. /\ stack' = [stack EXCEPT ![g] = <<function>>] /\ mutex' = mutex
        /\ Len(stack[g]) = 0
    BY <1>12 DEF Begin
  <2>2. stack'[g] = <<function>> /\ \A h \in Routine \ {g} : stack'[h] = stack[h]
    BY <1>1, <2>1 DEF Stacks
  <2>3. Len(stack'[g]) = 1
    BY <2>2
  <2>4. mutex # g
    BY <2>1 DEF WaitInv, Rebuilding
  <2>5. OverOnce(g)' /\ Rebuilding(g)'
    BY <2>1, <2>3, <2>4 DEF OverOnce, Rebuilding
  <2> QED
    BY <1>2, <2>1, <2>2, <2>5
<1>13. CASE GoesDown \/ ComesUp \/ UNCHANGED vars
  <2>1. UNCHANGED <<stack, mutex>>
    BY <1>13 DEF GoesDown, ComesUp, vars
  <2> QED
    BY <2>1 DEF WaitInv, OverOnce, Rebuilding
<1> QED
  BY <1>7, <1>8, <1>9, <1>10, <1>11, <1>12, <1>13 DEF Next, Step

LEMMA WaitInit == Init => WaitInv
  BY Bounds DEF Init, WaitInv, OverOnce, Rebuilding

(* When the service serves, the Once is done and nobody holds the mutex where it *)
(* asks for it; before that, main runs the Once once and never asks for the mutex. *)
LEMMA NobodyWaits ==
  ASSUME TypeInv, MainFirst, OnceInv, SyncInv, WaitInv, StartsUp PROVE NobodyWaitsForItself
<1>1. stack \in Stacks /\ Main \in Routine
  BY TypeParts, Bounds DEF StackTypes
<1>2. SUFFICES ASSUME NEW g \in Routine, stack[g] # <<>>,
                      (stack[g][1] = "lock" /\ mutex = g) \/ (stack[g][1] = "sync" /\ once = g)
               PROVE  FALSE
  BY <1>1, TopOf DEF NobodyWaitsForItself, At, Stacks
<1>3. Len(stack[g]) \in Nat \ {0}
  BY <1>1, <1>2, TopOf DEF Stacks
<1>4. CASE g = Main
  <2>1. ~Serving /\ calls[Main] # 0
    BY <1>2, <1>4 DEF Serving, MainFirst
  <2>2. CASE BeforeOnce
    BY <1>2, <1>4, <2>1, <2>2, RoutineNames DEF BeforeOnce, Entry
  <2>3. CASE InOnce
    BY <1>2, <1>4, <2>3 DEF InOnce, Entry
  <2>4. CASE AfterOnce
    BY <1>2, <1>4, <2>1, <2>4 DEF AfterOnce, Entry
  <2> QED
    BY <2>2, <2>3, <2>4 DEF SyncInv
<1>5. CASE g # Main
  <2>1. once = "done"
    <3>1. Serving
      BY <1>2, <1>5 DEF MainFirst
    <3>2. Good
      BY <3>1, ServingIsGood DEF SyncInv
    <3> QED
      BY <3>2 DEF Good
  <2>2. stack[g][1] = "lock" /\ mutex = g
    BY <1>2, <2>1, RoutineNames
  <2>3. CASE Len(stack[g]) = 1
    BY <2>2, <2>3 DEF WaitInv, Rebuilding
  <2>4. CASE Len(stack[g]) # 1
    <3>1. stack[g][2] = "onceDone"
      BY <1>2, <2>2, <2>4 DEF WaitInv, OverOnce, Fetching
    <3>2. \A n \in Nat \ {0} : n # 1 => 2 \in 1 .. n
      OBVIOUS
    <3>3. 2 \in 1 .. Len(stack[g])
      BY <1>3, <2>4, <3>2, Zenon
    <3> QED
      BY <2>1, <3>1, <3>3, RoutineNames DEF OnceInv, OnceAt
  <2> QED
    BY <2>3, <2>4
<1> QED
  BY <1>4, <1>5

(* Once main has initialised Redis and found it up, no outage and no failed    *)
(* re-initialisation by any goroutine disables locking, and none makes a        *)
(* goroutine wait for a mutex or a Once of its own (redis.go 208-229, 340-366).  *)
THEOREM LockingStays == Spec => []LockingStaysAvailable
<1>1. TypeInv /\ MainFirst /\ OnceInv /\ SyncInv /\ WaitInv => LockingStaysAvailable
  <2> SUFFICES ASSUME TypeInv, MainFirst, OnceInv, SyncInv, WaitInv, StartsUp
               PROVE  (once = "done" => ~syncErr /\ redisSync # 0) /\ NobodyWaitsForItself
    BY DEF LockingStaysAvailable, StartsUp
  <2>1. ASSUME once = "done" PROVE ~syncErr /\ redisSync # 0
    <3>1. Main \in Routine
      BY Bounds
    <3>2. AfterOnce
      BY <2>1, <3>1, RoutineNames DEF SyncInv, BeforeOnce, InOnce
    <3> QED
      BY <3>2 DEF AfterOnce, Good
  <2> QED
    BY <2>1, NobodyWaits
<1>2. TypeInv /\ MainFirst /\ [Next]_vars => MainFirst'
  BY MainFirstStep
<1> QED
  BY <1>1, <1>2, TypeInit, TypeStep, OnceInit, OnceStep, SyncInit, SyncStep, WaitInit, WaitStep,
     PTL DEF Spec
=============================================================================

------------------------------- MODULE UtilProofs -------------------------------
(***************************************************************************)
(* Theorems about two components that share nothing but their place under  *)
(* the others: CloseableThreadLocal, for any threads, addresses and        *)
(* values, and Encodings, for any numbers and strings, any arrays and any  *)
(* number of entries.                                                      *)
(*                                                                         *)
(* What has no bound in Encodings (the groups of a number, the loop that   *)
(* writes them, the digits of a length) is proved by least counterexample: *)
(* Least, from the well-foundedness of < on Nat.                           *)
(***************************************************************************)
EXTENDS CloseableThreadLocal, Encodings, WellFoundedInduction, TLAPS

--------------------------------------------------------------------------------
(* CloseableThreadLocal. *)
LEMMA InitLocalInv == Init => LocalInv
<1> SUFFICES ASSUME Init PROVE LocalInv
  OBVIOUS
<1>1. TypeOK
  BY DEF Init, TypeOK
<1>2. Confined /\ ~stray
  BY DEF Init, Confined, ConfinedAt
<1>3. QED
  BY <1>1, <1>2 DEF LocalInv

LEMMA StepTypeOK == TypeOK /\ [Next]_vars => TypeOK'
<1> SUFFICES ASSUME TypeOK, [Next]_vars PROVE TypeOK'
  OBVIOUS
<1> USE DEF TypeOK
<1>1. ASSUME NEW t \in Threads, Start(t) PROVE TypeOK'
  BY <1>1 DEF Start
<1>2. ASSUME NEW t \in Threads, Exit(t) PROVE TypeOK'
  BY <1>2 DEF Exit
<1>3. ASSUME NEW t \in Threads, NEW a \in Addrs, New(t, a) PROVE TypeOK'
  BY <1>3 DEF New
<1>4. ASSUME NEW t \in Threads, NEW a \in Addrs, NEW v \in Values, Set(t, a, v)
      PROVE TypeOK'
  BY <1>4 DEF Set, Use, Insert
<1>5. ASSUME NEW t \in Threads, NEW a \in Addrs, Get(t, a) PROVE TypeOK'
  BY <1>5 DEF Get, Use
<1>6. ASSUME NEW t \in Threads, NEW a \in Addrs, Close(t, a) PROVE TypeOK'
  BY <1>6 DEF Close, Use, Erase
<1>7. ASSUME NEW t \in Threads, NEW a \in Addrs, Destroy(t, a) PROVE TypeOK'
  BY <1>7 DEF Destroy, Erase
<1>8. CASE UNCHANGED vars
  BY <1>8 DEF vars
<1>9. QED
  BY <1>1, <1>2, <1>3, <1>4, <1>5, <1>6, <1>7, <1>8 DEF Next

(* A use that is no misuse leaves its thread as the only user. *)
LEMMA UsedAlone ==
  ASSUME TypeOK, Confined, NEW t \in Threads, NEW a \in Addrs,
         Use(t, a), ~misused'
  PROVE  /\ t \in running
         /\ a \in alive
         /\ users[a] \subseteq {t}
         /\ users'[a] = {t}
         /\ \A b \in Addrs : b # a => users'[b] = users[b]
         /\ \A u \in Threads : u # t => mine[u][a] = {}
<1>1. /\ t \in running
      /\ a \in alive
      /\ users[a] \ {t} = {}
      /\ users' = [users EXCEPT ![a] = @ \cup {t}]
  BY DEF Use
<1>2. users \in [Addrs -> SUBSET Threads]
  BY DEF TypeOK
<1>3. users[a] \subseteq {t}
  BY <1>1
<1>4. users'[a] = {t} /\ \A b \in Addrs : b # a => users'[b] = users[b]
  BY <1>1, <1>2, <1>3
<1>5. \A u \in Threads : u # t => mine[u][a] = {}
  BY <1>3 DEF Confined, ConfinedAt
<1>6. QED
  BY <1>1, <1>3, <1>4, <1>5

(* The part of the invariant that only holds for objects that are not shared. *)
LEMMA StepConfined ==
  ASSUME TypeOK, Confined, ~stray, [Next]_vars, ~misused'
  PROVE  Confined' /\ ~stray'
<1> USE ThreadLocalAssumption
<1>a. \A b \in Addrs : ConfinedAt(b)
  BY DEF Confined
<1>b. SUFFICES (\A b \in Addrs : ConfinedAt(b)') /\ ~stray'
  BY DEF Confined
<1>1. ASSUME NEW t \in Threads, Start(t)
      PROVE (\A b \in Addrs : ConfinedAt(b)') /\ ~stray'
  BY <1>1, <1>a DEF Start, ConfinedAt
<1>2. ASSUME NEW t \in Threads, Exit(t)
      PROVE (\A b \in Addrs : ConfinedAt(b)') /\ ~stray'
  <2>1. ASSUME NEW b \in Addrs PROVE ConfinedAt(b)'
    <3>1. /\ running' = running \ {t} /\ alive' = alive
          /\ closed'[b] = (closed[b] \/ reference[t][b] # NoValue)
          /\ users'[b] = users[b] \ {t}
          /\ reference'[t][b] = NoValue /\ mine'[t][b] = {}
          /\ \A u \in Threads : u # t => /\ reference'[u][b] = reference[u][b]
                                         /\ mine'[u][b] = mine[u][b]
      BY <1>2, <2>1 DEF Exit, TypeOK
    <3>2. ConfinedAt(b)
      BY <1>a, <2>1
    <3>3. \A u \in Threads : u # t /\ mine[u][b] # {} => reference[t][b] = NoValue
      BY <3>2 DEF ConfinedAt
    <3>4. QED
      BY <3>1, <3>2, <3>3 DEF ConfinedAt
  <2>2. \A b \in Addrs : reference[t][b] # NoValue => b \in alive /\ mine[t][b] # {}
    BY <1>a DEF ConfinedAt
  <2>3. ~stray'
    BY <1>2, <2>2 DEF Exit
  <2>4. QED
    BY <2>1, <2>3
<1>3. ASSUME NEW t \in Threads, NEW a \in Addrs, New(t, a)
      PROVE (\A b \in Addrs : ConfinedAt(b)') /\ ~stray'
  BY <1>3, <1>a DEF New, ConfinedAt, TypeOK
<1>4. ASSUME NEW t \in Threads, NEW a \in Addrs, NEW v \in Values, Set(t, a, v)
      PROVE (\A b \in Addrs : ConfinedAt(b)') /\ ~stray'
  <2>1. Use(t, a) /\ ~closed[a] /\ UNCHANGED <<running, alive, closed, stray>>
    BY <1>4 DEF Set
  <2>2. /\ reference'[t][a] = IF reference[t][a] = NoValue THEN v
                              ELSE reference[t][a]
        /\ mine'[t][a] = mine[t][a] \cup {v}
        /\ \A u \in Threads, b \in Addrs : u # t \/ b # a =>
             reference'[u][b] = reference[u][b] /\ mine'[u][b] = mine[u][b]
    BY <1>4 DEF Set, Insert, TypeOK
  <2>3. ConfinedAt(a)'
    <3>1. ConfinedAt(a)
      BY <1>a
    <3>2. v # NoValue
      OBVIOUS
    <3>3. mine'[t][a] # {} /\ reference'[t][a] \in mine'[t][a]
      BY <2>2, <3>1 DEF ConfinedAt
    <3>4. \A u \in Threads : u # t => mine'[u][a] = {} /\ reference'[u][a] = NoValue
      BY <2>1, <2>2, <3>1, UsedAlone DEF ConfinedAt
    <3>5. users'[a] = {t} /\ t \in running /\ a \in alive
      BY <2>1, UsedAlone
    <3>6. QED
      BY <2>1, <3>3, <3>4, <3>5 DEF ConfinedAt
  <2>4. ASSUME NEW b \in Addrs, b # a PROVE ConfinedAt(b)'
    <3>1. ConfinedAt(b) /\ users'[b] = users[b]
      BY <1>a, <2>1, <2>4, UsedAlone
    <3>2. QED
      BY <2>1, <2>2, <2>4, <3>1 DEF ConfinedAt
  <2>5. QED
    BY <2>1, <2>3, <2>4
<1>5. ASSUME NEW t \in Threads, NEW a \in Addrs, Get(t, a)
      PROVE (\A b \in Addrs : ConfinedAt(b)') /\ ~stray'
  <2>1. Use(t, a) /\ UNCHANGED <<running, reference, alive, closed, mine, stray>>
    BY <1>5 DEF Get
  <2>2. /\ t \in running /\ users[a] \subseteq {t} /\ users'[a] = {t}
        /\ \A b \in Addrs : b # a => users'[b] = users[b]
    BY <2>1, UsedAlone
  <2>3. QED
    BY <1>a, <2>1, <2>2 DEF ConfinedAt
<1>6. ASSUME NEW t \in Threads, NEW a \in Addrs, Close(t, a)
      PROVE (\A b \in Addrs : ConfinedAt(b)') /\ ~stray'
  <2>1. Use(t, a) /\ UNCHANGED <<running, alive, closed, stray>>
    BY <1>6 DEF Close
  <2>2. /\ reference'[t][a] = IF closed[a] THEN reference[t][a] ELSE NoValue
        /\ mine'[t][a] = {}
        /\ \A u \in Threads, b \in Addrs : u # t \/ b # a =>
             reference'[u][b] = reference[u][b] /\ mine'[u][b] = mine[u][b]
    BY <1>6 DEF Close, Erase, TypeOK
  <2>3. /\ t \in running /\ users'[a] = {t}
        /\ \A b \in Addrs : b # a => users'[b] = users[b]
        /\ \A u \in Threads : u # t => mine[u][a] = {}
    BY <2>1, UsedAlone
  <2>4. ConfinedAt(a)'
    <3>1. closed[a] => reference[t][a] = NoValue
      BY <1>a DEF ConfinedAt
    <3>2. \A u \in Threads : mine'[u][a] = {} /\ reference'[u][a] = NoValue
      BY <1>a, <2>2, <2>3, <3>1 DEF ConfinedAt
    <3>3. QED
      BY <2>1, <2>3, <3>2 DEF ConfinedAt
  <2>5. ASSUME NEW b \in Addrs, b # a PROVE ConfinedAt(b)'
    BY <1>a, <2>1, <2>2, <2>3, <2>5 DEF ConfinedAt
  <2>6. QED
    BY <2>1, <2>4, <2>5
<1>7. ASSUME NEW t \in Threads, NEW a \in Addrs, Destroy(t, a)
      PROVE (\A b \in Addrs : ConfinedAt(b)') /\ ~stray'
  <2>1. /\ users[a] \ {t} = {}
        /\ alive' = alive \ {a}
        /\ UNCHANGED <<running, closed, stray>>
    BY <1>7 DEF Destroy
  <2>2. /\ reference'[t][a] = IF closed[a] THEN reference[t][a] ELSE NoValue
        /\ users'[a] = {}
        /\ \A u \in Threads : mine'[u][a] = {}
        /\ \A u \in Threads, b \in Addrs : u # t \/ b # a =>
             reference'[u][b] = reference[u][b]
        /\ \A b \in Addrs : b # a =>
             users'[b] = users[b] /\ \A u \in Threads : mine'[u][b] = mine[u][b]
    BY <1>7 DEF Destroy, Erase, TypeOK
  <2>3. ConfinedAt(a)'
    <3>1. closed[a] => reference[t][a] = NoValue
      BY <1>a DEF ConfinedAt
    <3>2. \A u \in Threads : u # t => mine[u][a] = {}
      BY <1>a, <2>1 DEF ConfinedAt
    <3>3. \A u \in Threads : reference'[u][a] = NoValue
      BY <1>a, <2>2, <3>1, <3>2 DEF ConfinedAt
    <3>4. QED
      BY <2>2, <3>3 DEF ConfinedAt
  <2>4. ASSUME NEW b \in Addrs, b # a PROVE ConfinedAt(b)'
    BY <1>a, <2>1, <2>2, <2>4 DEF ConfinedAt
  <2>5. QED
    BY <2>1, <2>3, <2>4
<1>8. ASSUME UNCHANGED vars
      PROVE (\A b \in Addrs : ConfinedAt(b)') /\ ~stray'
  BY <1>8, <1>a DEF vars, ConfinedAt
<1>9. QED
  BY <1>1, <1>2, <1>3, <1>4, <1>5, <1>6, <1>7, <1>8 DEF Next

(* Sharing is never taken back. *)
LEMMA StepMisused == TypeOK /\ misused /\ [Next]_vars => misused'
BY ZenonT(60) DEF TypeOK, Next, vars, Start, Exit, New, Set, Get, Close, Destroy, Use

LEMMA StepLocalInv == LocalInv /\ [Next]_vars => LocalInv'
BY StepTypeOK, StepConfined, StepMisused DEF LocalInv

LEMMA LocalInvHolds == Spec => []LocalInv
<1>1. QED
  BY InitLocalInv, StepLocalInv, PTL DEF Spec

(* Types, and that the map of a thread is gone with its thread: whatever the
   callers do with the objects of Util/Concurrency.h. *)
THEOREM TypeCorrect == Spec => []TypeOK
<1>1. LocalInv => TypeOK
  BY DEF LocalInv
<1>2. QED
  BY LocalInvHolds, <1>1, PTL

(* Unless an object is shared between running threads, CloseableThreadLocal's
   Get finds the caller's own values of this object, and no others. *)
THEOREM ValuesStayWithTheirThread == Spec => []GetIsMine
<1>1. LocalInv => GetIsMine
  BY ThreadLocalAssumption DEF LocalInv, TypeOK, Confined, ConfinedAt, GetIsMine, Lookup
<1>2. QED
  BY LocalInvHolds, <1>1, PTL

(* And then the destructor of a thread's map only writes to the flags of
   objects that are alive and the thread's own. *)
THEOREM ExitsAreClean == Spec => []NoStrayWrite
<1>1. LocalInv => NoStrayWrite
  BY DEF LocalInv, NoStrayWrite
<1>2. QED
  BY LocalInvHolds, <1>1, PTL

(* Unless an object is shared, a step changes what Get gives as PrivateValues
   says: the thread that ends, or destroys an object, was the only one that had
   something there. *)
LEMMA PrivateStep ==
  ASSUME LocalInv, LocalInv', [Next]_vars
  PROVE  [Private!Next]_(Private!vars)
<1> DEFINE value == [t \in Threads |-> [a \in Addrs |->
                       IF t \in running /\ a \in alive THEN Lookup(t, a) ELSE NoValue]]
<1>1. TypeOK /\ TypeOK'
  BY DEF LocalInv
<1>2. CASE misused'
  BY <1>2 DEF Private!Next
<1>3. ASSUME ~misused', Next PROVE [Private!Next]_(Private!vars)
  <2>1. ~misused /\ Confined /\ Confined'
    <3>1. ~misused
      BY <1>1, <1>3, StepMisused
    <3>2. QED
      BY <1>3, <3>1 DEF LocalInv
  <2>2. \A t \in Threads, a \in Addrs : reference[t][a] # NoValue =>
          t \in running /\ a \in alive /\ ~closed[a] /\ users[a] = {t}
    BY <1>1, <2>1 DEF Confined, ConfinedAt, TypeOK
  <2>3. \A t \in Threads, a \in Addrs : value[t][a] = reference[t][a]
    BY <2>2 DEF Lookup
  <2>4. \A t \in Threads, a \in Addrs : reference'[t][a] # NoValue =>
          t \in running' /\ a \in alive' /\ ~closed'[a] /\ users'[a] = {t}
    BY <1>1, <2>1 DEF Confined, ConfinedAt, TypeOK
  <2>5. \A t \in Threads, a \in Addrs : value'[t][a] = reference'[t][a]
    BY <2>4 DEF Lookup
  <2>6. reference = value /\ reference' = value'
    BY <1>1, <2>3, <2>5 DEF TypeOK
  <2> HIDE DEF value
  <2>7. ASSUME NEW t \in Threads, NEW a \in Addrs, New(t, a) PROVE Private!Promise
    <3>1. \A u \in Threads : value[u][a] = NoValue
      BY <2>2, <2>6, <2>7 DEF New
    <3>2. Private!New(a)
      BY <2>6, <2>7, <3>1 DEF New, Private!New, value
    <3>3. QED
      BY <3>2 DEF Private!Promise
  <2>8. ASSUME NEW t \in Threads, NEW a \in Addrs, NEW v \in Values, Set(t, a, v)
        PROVE  Private!Promise \/ UNCHANGED <<alive, value>>
    <3>1. a \in alive /\ alive' = alive
      BY <2>8 DEF Set, Use
    <3>2. CASE reference[t][a] = NoValue
      <4>1. reference' = [reference EXCEPT ![t][a] = v]
        BY <1>1, <2>8, <3>2 DEF Set, Insert, TypeOK
      <4>2. Private!Set(t, a, v)
        BY <2>6, <3>1, <3>2, <4>1 DEF Private!Set, value
      <4>3. QED
        BY <4>2 DEF Private!Promise
    <3>3. CASE reference[t][a] # NoValue
      <4>1. reference' = reference
        BY <1>1, <2>8, <3>3 DEF Set, Insert, TypeOK
      <4>2. QED
        BY <2>6, <3>1, <4>1
    <3>4. QED
      BY <3>2, <3>3
  <2>9. ASSUME NEW t \in Threads, NEW a \in Addrs, Close(t, a) PROVE Private!Promise
    <3>1. a \in alive /\ alive' = alive
      BY <2>9 DEF Close, Use
    <3>2. reference' = [reference EXCEPT ![t][a] = NoValue]
      BY <1>1, <2>2, <2>9 DEF Close, Erase, TypeOK
    <3>3. Private!Close(t, a)
      BY <2>6, <3>1, <3>2 DEF Private!Close, value
    <3>4. QED
      BY <3>3 DEF Private!Promise
  <2>10. ASSUME NEW t \in Threads, NEW a \in Addrs, Destroy(t, a) PROVE Private!Promise
    <3>1. users[a] \subseteq {t} /\ alive' = alive \ {a}
      BY <1>3, <2>10 DEF Destroy
    <3>2. \A u \in Threads : u # t => reference[u][a] = NoValue
      BY <2>2, <3>1
    <3>3. reference' = [reference EXCEPT ![t][a] = NoValue]
      BY <1>1, <2>2, <2>10 DEF Destroy, Erase, TypeOK
    <3>4. reference' = [u \in Threads |-> [reference[u] EXCEPT ![a] = NoValue]]
      <4>1. \A u \in Threads : reference[u] = [b \in Addrs |-> reference[u][b]]
        BY <1>1 DEF TypeOK
      <4>2. ASSUME NEW u \in Threads PROVE reference'[u] = [reference[u] EXCEPT ![a] = NoValue]
        <5>1. CASE u = t
          BY <1>1, <3>3, <5>1 DEF TypeOK
        <5>2. CASE u # t
          <6>1. reference'[u] = reference[u] /\ reference[u][a] = NoValue
            BY <1>1, <3>2, <3>3, <5>2 DEF TypeOK
          <6>2. QED
            BY <4>1, <6>1
        <5>3. QED
          BY <5>1, <5>2
      <4>3. reference' = [u \in Threads |-> reference'[u]]
        BY <1>1 DEF TypeOK
      <4>4. QED
        BY <4>2, <4>3
    <3>5. Private!Destroy(a)
      BY <2>6, <3>1, <3>4 DEF Private!Destroy, value
    <3>6. QED
      BY <3>5 DEF Private!Promise
  <2>11. ASSUME NEW t \in Threads, Exit(t) PROVE Private!Promise
    <3>1. alive' = alive /\ reference' = [reference EXCEPT ![t] = [a \in Addrs |-> NoValue]]
      BY <2>11 DEF Exit
    <3>2. Private!End(t)
      BY <2>6, <3>1 DEF Private!End, value
    <3>3. QED
      BY <3>2 DEF Private!Promise
  <2>12. ASSUME NEW t \in Threads, Start(t) \/ \E a \in Addrs : Get(t, a)
         PROVE  UNCHANGED <<alive, value>>
    BY <2>6, <2>12 DEF Start, Get
  <2>13. Private!Promise \/ UNCHANGED <<alive, value>>
    BY <1>3, <2>7, <2>8, <2>9, <2>10, <2>11, <2>12 DEF Next
  <2>14. CASE Private!Promise
    BY <1>3, <2>1, <2>14 DEF Private!Next
  <2>15. CASE UNCHANGED <<alive, value>>
    BY <1>3, <2>1, <2>15, <1>1 DEF Private!vars, value, TypeOK
  <2>16. QED
    BY <2>13, <2>14, <2>15
<1>4. CASE UNCHANGED vars
  BY <1>4 DEF Private!vars, vars, Lookup
<1>5. QED
  BY <1>2, <1>3, <1>4

(* A CloseableThreadLocal implements PrivateValues: unless an object is shared
   between running threads, what Get gives a thread is its own, from the first
   Set to a Close, the end of the thread or of the object, whatever other threads
   and earlier objects at the address did. *)
THEOREM LocalsArePrivate == Spec => ImplementsPrivateValues
<1>1. Init => Private!Init
  BY DEF Init, Private!Init
<1>2. LocalInv /\ LocalInv' /\ [Next]_vars => [Private!Next]_(Private!vars)
  BY PrivateStep
<1>3. QED
  BY <1>1, <1>2, LocalInvHolds, PTL DEF Spec, ImplementsPrivateValues, Private!Spec

--------------------------------------------------------------------------------
(* Encodings. *)

(* The natural numbers are well-ordered; induction and minima follow. *)
LEMMA Least ==
  ASSUME NEW S, S \subseteq Nat, S # {}
  PROVE  \E n \in S : \A m \in S : n <= m
<1> DEFINE R == OpToRel(<, Nat)
<1>1. IsWellFoundedOn(R, Nat)
  BY NatLessThanWellFounded
<1>2. \A x, y \in Nat : x < y => <<x, y>> \in R
  BY DEF OpToRel
<1> HIDE DEF R
<1>3. PICK n \in S : \A m \in S : ~(<<m, n>> \in R)
  BY <1>1, WFMin
<1>4. \A m \in S : ~(m < n)
  BY <1>2, <1>3
<1>5. \A m \in S : m \in Int /\ n \in Int
  OBVIOUS
<1>6. QED
  BY <1>4, <1>5

LEMMA NatInductionOnSets ==
  ASSUME NEW S, 0 \in S, \A n \in Nat : n \in S => n + 1 \in S
  PROVE  Nat \subseteq S
<1>1. SUFFICES ASSUME Nat \ S # {} PROVE FALSE
  OBVIOUS
<1>2. PICK n \in Nat \ S : \A m \in Nat \ S : n <= m
  BY <1>1, Least
<1>3. n # 0 /\ n - 1 \in Nat /\ n - 1 \in S
  BY <1>2
<1>4. QED
  BY <1>2, <1>3

LEMMA MinIs ==
  ASSUME NEW S, S \subseteq Nat, S # {}
  PROVE  Min(S) \in S /\ \A m \in S : Min(S) <= m
BY Least DEF Min

LEMMA MaxIs ==
  ASSUME NEW S, NEW n \in Nat, S \subseteq 0..n, S # {}
  PROVE  Max(S) \in S /\ \A m \in S : m <= Max(S)
<1> DEFINE T == {n - m : m \in S}
<1>1. T \subseteq Nat /\ T # {}
  OBVIOUS
<1>2. PICK k \in T : \A j \in T : k <= j
  BY <1>1, Least
<1>3. PICK m \in S : k = n - m
  OBVIOUS
<1>4. \A l \in S : l \in Int /\ n - l \in T
  OBVIOUS
<1>5. \A l \in S : m >= l
  BY <1>2, <1>3, <1>4
<1>6. \E x \in S : \A y \in S : x >= y
  BY <1>5
<1>7. Max(S) \in S /\ \A y \in S : Max(S) >= y
  BY <1>6 DEF Max
<1>8. QED
  BY <1>7, <1>4

--------------------------------------------------------------------------------
(* Sets of places. *)
LEMMA BitsAre ==
  ASSUME NEW x, x \subseteq Nat, NEW from \in Nat, NEW n \in Nat
  PROVE  /\ Bits(x, from, n) \subseteq 0..n - 1
         /\ \A b \in Nat : b \in Bits(x, from, n) <=> b < n /\ b + from \in x
<1>1. ASSUME NEW b \in Nat, b < n, b + from \in x PROVE b \in Bits(x, from, n)
  <2>1. b = (b + from) - from /\ b + from \in {c \in x : from <= c /\ c < from + n}
    BY <1>1
  <2>2. QED
    BY <2>1 DEF Bits
<1>2. ASSUME NEW b \in Bits(x, from, n) PROVE b \in 0..n - 1 /\ b + from \in x
  BY <1>2 DEF Bits
<1>3. QED
  BY <1>1, <1>2

LEMMA LowBitsAre ==
  ASSUME NEW x, x \subseteq Nat, NEW n \in Nat
  PROVE  /\ Bits(x, 0, n) \subseteq 0..n - 1
         /\ \A b \in Nat : b \in Bits(x, 0, n) <=> b < n /\ b \in x
<1> DEFINE zero == 0
<1>1. zero \in Nat /\ \A b \in Nat : b + zero = b
  OBVIOUS
<1> HIDE DEF zero
<1>2. /\ Bits(x, zero, n) \subseteq 0..n - 1
      /\ \A b \in Nat : b \in Bits(x, zero, n) <=> b < n /\ b + zero \in x
  BY <1>1, BitsAre
<1>3. QED
  BY <1>1, <1>2 DEF zero

LEMMA ShiftedIs ==
  ASSUME NEW x, x \subseteq Nat, NEW n \in Nat
  PROVE  /\ Shifted(x, n) \subseteq Nat
         /\ \A b \in Nat : b \in Shifted(x, n) <=> (b - n \in x)
BY DEF Shifted

(* The i-th of m bytes. *)
LEMMA BigEndianType ==
  ASSUME NEW m \in Nat, NEW x, x \subseteq 0..8 * m - 1
  PROVE  /\ BigEndian(x, 8 * m) \in Seq(Bytes)
         /\ Len(BigEndian(x, 8 * m)) = m
         /\ \A i \in 1..m : BigEndian(x, 8 * m)[i] \subseteq 0..7
         /\ \A i \in 1..m, b \in 0..7 :
              b \in BigEndian(x, 8 * m)[i] <=> b + 8 * (m - i) \in x
<1>1. (8 * m) \div 8 = m /\ x \subseteq Nat
  OBVIOUS
<1>2. ASSUME NEW i \in 1..m
      PROVE  /\ Bits(x, 8 * m - 8 * i, 8) \subseteq 0..7
             /\ \A b \in 0..7 : b \in Bits(x, 8 * m - 8 * i, 8) <=> b + 8 * (m - i) \in x
  <2> DEFINE from == 8 * m - 8 * i
  <2>1. from \in Nat /\ \A b \in Nat : b + from = b + 8 * (m - i)
    OBVIOUS
  <2> HIDE DEF from
  <2>2. /\ Bits(x, from, 8) \subseteq 0..8 - 1
        /\ \A b \in Nat : b \in Bits(x, from, 8) <=> b < 8 /\ b + from \in x
    BY <2>1, <1>1, BitsAre
  <2>3. QED
    BY <2>1, <2>2 DEF from
<1>3. BigEndian(x, 8 * m) = [i \in 1..m |-> Bits(x, 8 * m - 8 * i, 8)]
  BY <1>1 DEF BigEndian
<1> DEFINE bytes == BigEndian(x, 8 * m)
<1>4. DOMAIN bytes = 1..m /\ \A i \in 1..m : bytes[i] = Bits(x, 8 * m - 8 * i, 8)
  BY <1>3
<1>5. bytes \in [1..m -> Bytes]
  BY <1>2, <1>3 DEF Bytes
<1>6. bytes \in Seq(Bytes) /\ Len(bytes) = m
  BY <1>5
<1> HIDE DEF bytes
<1>7. QED
  BY <1>2, <1>4, <1>6 DEF bytes

(* What BigEndian has taken apart, FromBigEndian puts together. *)
LEMMA BigEndianInverse ==
  ASSUME NEW m \in Nat, NEW x, x \subseteq 0..8 * m - 1
  PROVE  FromBigEndian(BigEndian(x, 8 * m)) = x
<1> DEFINE bytes == BigEndian(x, 8 * m)
<1>1. bytes \in Seq(Bytes) /\ Len(bytes) = m
  BY BigEndianType
<1>2. \A i \in 1..m : /\ bytes[i] \subseteq 0..7
                      /\ \A b \in 0..7 : b \in bytes[i] <=> b + 8 * (m - i) \in x
  BY BigEndianType
<1> HIDE DEF bytes
<1>0. DOMAIN bytes = 1..m
  BY <1>1
<1>3. \A i \in 1..m, b \in Nat : b \in Shifted(bytes[i], 8 * (m - i)) <=>
        (b - 8 * (m - i) \in 0..7 /\ b \in x)
  <2> TAKE i \in 1..m, b \in Nat
  <2>1. bytes[i] \subseteq Nat /\ 8 * (m - i) \in Nat
    BY <1>2
  <2>2. b \in Shifted(bytes[i], 8 * (m - i)) <=> b - 8 * (m - i) \in bytes[i]
    BY <2>1, ShiftedIs
  <2>3. b - 8 * (m - i) \in bytes[i] <=> (b - 8 * (m - i) \in 0..7 /\ b \in x)
    <3>1. (b - 8 * (m - i)) + 8 * (m - i) = b
      OBVIOUS
    <3>2. QED
      BY <1>2, <3>1
  <2>4. QED
    BY <2>2, <2>3
<1>4. \A i \in 1..m : Shifted(bytes[i], 8 * (m - i)) \subseteq Nat
  <2> TAKE i \in 1..m
  <2>1. bytes[i] \subseteq Nat /\ 8 * (m - i) \in Nat
    BY <1>2
  <2>2. QED
    BY <2>1, ShiftedIs
<1>5. FromBigEndian(bytes) = UNION {Shifted(bytes[i], 8 * (m - i)) : i \in 1..m}
  BY <1>1, <1>0 DEF FromBigEndian
<1>6. ASSUME NEW b \in x PROVE b \in UNION {Shifted(bytes[i], 8 * (m - i)) : i \in 1..m}
  <2> DEFINE i == m - (b \div 8)
  <2>1. b \in Nat /\ i \in 1..m /\ b - 8 * (m - i) \in 0..7
    OBVIOUS
  <2>2. b \in Shifted(bytes[i], 8 * (m - i))
    BY <1>3, <2>1
  <2>3. QED
    BY <2>1, <2>2
<1>7. ASSUME NEW b \in UNION {Shifted(bytes[i], 8 * (m - i)) : i \in 1..m} PROVE b \in x
  <2>1. PICK i \in 1..m : b \in Shifted(bytes[i], 8 * (m - i))
    OBVIOUS
  <2>2. b \in Nat
    BY <2>1, <1>4
  <2>3. QED
    BY <2>1, <2>2, <1>3
<1>8. QED
  BY <1>5, <1>6, <1>7 DEF bytes

--------------------------------------------------------------------------------
(* Numbers of seven bits to a byte. *)
LEMMA GroupsType ==
  ASSUME NEW n \in Nat, NEW x, x \subseteq 0..n
  PROVE  /\ Groups(x) \in Seq(Bytes)
         /\ Len(Groups(x)) \in 1..n \div 7 + 1
         /\ \A b \in x : b \div 7 + 1 <= Len(Groups(x))
         /\ \A i \in 1..Len(Groups(x)) :
              /\ Groups(x)[i] \subseteq 0..7
              /\ 7 \in Groups(x)[i] <=> i < Len(Groups(x))
              /\ \A b \in 0..6 : b \in Groups(x)[i] <=> b + 7 * (i - 1) \in x
<1> DEFINE g == GroupsOf(x)
           byte(i) == Bits(x, 7 * (i - 1), 7) \cup {b \in {7} : i < g}
<1>1. g \in 1..n \div 7 + 1 /\ \A b \in x : b \div 7 + 1 <= g
  <2>1. CASE x = {}
    BY <2>1 DEF GroupsOf
  <2>2. CASE x # {}
    <3>1. Max(x) \in x /\ \A b \in x : b <= Max(x)
      BY <2>2, MaxIs
    <3>2. g = Max(x) \div 7 + 1
      BY <2>2 DEF GroupsOf
    <3> HIDE DEF g
    <3>3. Max(x) \in 0..n /\ \A b \in x : b \in 0..n
      BY <3>1
    <3>4. \A b \in x : b \div 7 <= Max(x) \div 7
      BY <3>1, <3>3
    <3>5. Max(x) \div 7 \in 0..n \div 7
      BY <3>3
    <3>6. QED
      BY <3>2, <3>3, <3>4, <3>5
  <2>3. QED
    BY <2>1, <2>2
<1>2. Groups(x) = [i \in 1..g |-> byte(i)]
  BY DEF Groups
<1> HIDE DEF g
<1>3. ASSUME NEW i \in 1..g
      PROVE  /\ byte(i) \subseteq 0..7
             /\ 7 \in byte(i) <=> i < g
             /\ \A b \in 0..6 : b \in byte(i) <=> b + 7 * (i - 1) \in x
  <2> DEFINE from == 7 * (i - 1)
  <2>1. from \in Nat /\ x \subseteq Nat
    OBVIOUS
  <2> HIDE DEF from
  <2>2. /\ Bits(x, from, 7) \subseteq 0..7 - 1
        /\ \A b \in Nat : b \in Bits(x, from, 7) <=> b < 7 /\ b + from \in x
    BY <2>1, BitsAre
  <2>3. byte(i) = Bits(x, from, 7) \cup {b \in {7} : i < g}
    BY DEF from
  <2> HIDE DEF byte
  <2>4. byte(i) \subseteq 0..7 /\ (7 \in byte(i) <=> i < g)
    BY <2>2, <2>3
  <2>5. \A b \in 0..6 : b \in byte(i) <=> b + from \in x
    BY <2>2, <2>3
  <2>6. QED
    BY <2>4, <2>5 DEF from
<1> HIDE DEF byte
<1>4. g \in Nat /\ Groups(x) \in [1..g -> Bytes]
  BY <1>1, <1>2, <1>3 DEF Bytes
<1>5. Groups(x) \in Seq(Bytes) /\ Len(Groups(x)) = g
  BY <1>4
<1>6. \A i \in 1..g : Groups(x)[i] = byte(i)
  BY <1>2
<1>7. QED
  BY <1>1, <1>3, <1>5, <1>6

(* ReadVInt32 and ReadVInt64 find a number that lies ahead. *)
LEMMA ReadGroupsInverse ==
  ASSUME NEW k \in Nat, NEW x, x \subseteq 0..k,
         NEW full \in Nat, NEW last \in Nat, NEW ahead \in Seq(Bytes),
         Len(Groups(x)) <= Len(ahead),
         \A i \in 1..Len(Groups(x)) : ahead[i] = Groups(x)[i],
         \/ Len(Groups(x)) <= full
         \/ Len(Groups(x)) = full + 1 /\ last # 0 /\ ahead[full + 1] \subseteq 0..last - 1
  PROVE  ReadGroups(ahead, full, last) = Result(x, Len(Groups(x)))
<1> DEFINE g == Len(Groups(x))
           S == {i \in 1..full : i > Len(ahead) \/ 7 \notin ahead[i]} \cup {full + 1}
<1>a. g \in 1..k \div 7 + 1
  BY GroupsType
<1>b. \A b \in x : b \div 7 + 1 <= g
  BY GroupsType
<1>c. \A i \in 1..g :
              /\ Groups(x)[i] \subseteq 0..7
              /\ 7 \in Groups(x)[i] <=> i < g
              /\ \A b \in 0..6 : b \in Groups(x)[i] <=> b + 7 * (i - 1) \in x
  BY GroupsType
<1>d. g \in Nat /\ g >= 1
  BY <1>a
<1>2. /\ g <= Len(ahead) /\ (g <= full \/ (g = full + 1 /\ last # 0 /\ ahead[g] \subseteq 0..last - 1))
      /\ \A i \in 1..g : ahead[i] = Groups(x)[i]
  OBVIOUS
<1> HIDE DEF g
<1>e. \A i \in 1..g : ahead[i] \subseteq 0..7
  BY <1>2, <1>c
<1>f. \A i \in 1..g : 7 \in ahead[i] <=> i < g
  BY <1>2, <1>c
<1>g. \A i \in 1..g : \A b \in 0..6 : b \in ahead[i] <=> b + 7 * (i - 1) \in x
  BY <1>2, <1>c
<1>3. Min(S) = g
  <2>1. S \subseteq Nat /\ S # {}
    OBVIOUS
  <2>2. Min(S) \in S /\ \A m \in S : Min(S) <= m
    BY <2>1, MinIs
  <2>3. g \in S
    BY <1>d, <1>f, <1>2
  <2>4. ASSUME NEW m \in S PROVE m >= g
    <3>1. CASE m = full + 1
      BY <3>1, <1>d, <1>2
    <3>2. CASE m \in 1..full /\ m > Len(ahead)
      BY <3>2, <1>d, <1>2
    <3>3. CASE m \in 1..full /\ 7 \notin ahead[m]
      BY <3>3, <1>d, <1>2, <1>f
    <3>4. QED
      BY <3>1, <3>2, <3>3
  <2>5. Min(S) \in Nat
    BY <2>1, <2>2
  <2> HIDE DEF S
  <2>6. QED
    BY <2>2, <2>3, <2>4, <2>5, <1>d
<1> DEFINE piece(i) == Shifted(ahead[i] \ {7}, 7 * (i - 1))
<1>4. \A i \in 1..g : /\ piece(i) \subseteq Nat
                      /\ \A b \in Nat : b \in piece(i) <=> (b - 7 * (i - 1) \in 0..6 /\ b \in x)
  <2> TAKE i \in 1..g
  <2>1. ahead[i] \ {7} \subseteq Nat /\ 7 * (i - 1) \in Nat
    BY <1>d, <1>e
  <2>2. /\ piece(i) \subseteq Nat
        /\ \A b \in Nat : b \in piece(i) <=> b - 7 * (i - 1) \in ahead[i] \ {7}
    BY <2>1, ShiftedIs
  <2>3. \A b \in Nat : (b - 7 * (i - 1)) + 7 * (i - 1) = b
    OBVIOUS
  <2>4. ASSUME NEW b \in Nat
        PROVE  b - 7 * (i - 1) \in ahead[i] \ {7} <=> (b - 7 * (i - 1) \in 0..6 /\ b \in x)
    <3> DEFINE c == b - 7 * (i - 1)
    <3>1. c + 7 * (i - 1) = b
      BY <2>3
    <3> HIDE DEF c
    <3>2. c \in ahead[i] \ {7} => c \in 0..6
      BY <1>e
    <3>3. ASSUME c \in 0..6 PROVE (c \in ahead[i] <=> b \in x) /\ c # 7
      <4>1. c \in ahead[i] <=> c + 7 * (i - 1) \in x
        BY <3>3, <1>g
      <4>2. QED
        BY <3>1, <3>3, <4>1
    <3>4. QED
      BY <3>2, <3>3 DEF c
  <2>5. QED
    BY <2>2, <2>4
<1>5. UNION {piece(i) : i \in 1..g} = x
  <2> HIDE DEF piece
  <2>1. ASSUME NEW b \in x PROVE b \in UNION {piece(i) : i \in 1..g}
    <3> DEFINE i == b \div 7 + 1
    <3>1. b \in Nat
      OBVIOUS
    <3>2. i \in 1..g /\ b - 7 * (i - 1) \in 0..6
      BY <3>1, <1>b, <1>d
    <3> HIDE DEF i
    <3>3. b \in piece(i)
      BY <1>4, <3>1, <3>2
    <3>4. QED
      BY <3>2, <3>3
  <2>2. ASSUME NEW b \in UNION {piece(i) : i \in 1..g} PROVE b \in x
    <3>1. PICK i \in 1..g : b \in piece(i)
      OBVIOUS
    <3>2. b \in Nat
      BY <3>1, <1>4
    <3>3. QED
      BY <3>1, <3>2, <1>4
  <2>3. QED
    BY <2>1, <2>2
<1>6. ReadGroups(ahead, full, last) =
        IF g > Len(ahead) \/ (g > full /\ (last = 0 \/ ~(ahead[g] \subseteq 0..last - 1)))
        THEN Undefined
        ELSE Result(UNION {piece(i) : i \in 1..g}, g)
  <2> HIDE DEF S
  <2>1. QED
    BY <1>3 DEF ReadGroups, S
<1>7. Len(ahead) \in Nat
  OBVIOUS
<1>8. ~(g > Len(ahead)) /\ ~(g > full /\ (last = 0 \/ ~(ahead[g] \subseteq 0..last - 1)))
  BY <1>d, <1>2, <1>7
<1> HIDE DEF piece
<1>9. QED
  BY <1>5, <1>6, <1>8 DEF g

StartsWith(ahead, code) ==
  /\ ahead \in Seq(Bytes)
  /\ Len(code) <= Len(ahead)
  /\ \A i \in 1..Len(code) : ahead[i] = code[i]

LEMMA VInt32Type ==
  ASSUME NEW x, x \subseteq 0..31
  PROVE  VInt32(x) \in Seq(Bytes)
<1>1. CASE Negative(x, 32)
  <2>0. x \subseteq Nat /\ 8 \in Nat
    OBVIOUS
  <2>1. Bits(x, 0, 8) \subseteq 0..8 - 1
    BY <2>0, LowBitsAre
  <2>2. Bits(x, 0, 8) \in Bytes
    BY <2>1 DEF Bytes
  <2>3. VInt32(x) = <<Bits(x, 0, 8)>>
    BY <1>1 DEF VInt32
  <2>4. QED
    BY <2>2, <2>3
<1>2. CASE ~Negative(x, 32)
  <2>1. VInt32(x) = Groups(x)
    BY <1>2 DEF VInt32
  <2>2. Groups(x) \in Seq(Bytes)
    BY GroupsType
  <2>3. QED
    BY <2>1, <2>2
<1>3. QED
  BY <1>1, <1>2

LEMMA VInt32Inverse ==
  ASSUME NEW x, x \subseteq 0..30, NEW ahead, StartsWith(ahead, VInt32(x))
  PROVE  ReadVInt32(ahead) = Result(x, Len(VInt32(x)))
<1>1. VInt32(x) = Groups(x)
  BY DEF VInt32, Negative
<1>2. Len(Groups(x)) \in 1..30 \div 7 + 1
  BY GroupsType
<1>3. Len(Groups(x)) \in 1..5
  BY <1>2
<1>4. /\ ahead \in Seq(Bytes)
      /\ Len(Groups(x)) <= Len(ahead)
      /\ \A i \in 1..Len(Groups(x)) : ahead[i] = Groups(x)[i]
  BY <1>1 DEF StartsWith
<1>5. ASSUME Len(Groups(x)) = 5 PROVE ahead[4 + 1] \subseteq 0..4 - 1
  <2>1. /\ Groups(x)[5] \subseteq 0..7
        /\ 7 \notin Groups(x)[5]
        /\ \A b \in 0..6 : b \in Groups(x)[5] <=> b + 28 \in x
    <3>1. \A i \in 1..Len(Groups(x)) :
              /\ Groups(x)[i] \subseteq 0..7
              /\ 7 \in Groups(x)[i] <=> i < Len(Groups(x))
              /\ \A b \in 0..6 : b \in Groups(x)[i] <=> b + 7 * (i - 1) \in x
      BY GroupsType
    <3>2. 5 \in 1..Len(Groups(x)) /\ 7 * (5 - 1) = 28
      BY <1>5
    <3>3. QED
      BY <3>1, <3>2, <1>5
  <2>2. \A b \in Groups(x)[5] : b \in 0..3
    BY <2>1
  <2>3. ahead[5] = Groups(x)[5]
    BY <1>4, <1>5
  <2>4. QED
    BY <2>2, <2>3
<1>6. Len(Groups(x)) <= 4 \/ (Len(Groups(x)) = 4 + 1 /\ ahead[4 + 1] \subseteq 0..4 - 1)
  <2>1. Len(Groups(x)) <= 4 \/ Len(Groups(x)) = 5
    <3>1. \A n \in 1..5 : n <= 4 \/ n = 5
      OBVIOUS
    <3>2. QED
      BY <1>3, <3>1
  <2>2. 4 + 1 = 5
    OBVIOUS
  <2>3. QED
    BY <1>5, <2>1, <2>2
<1>7. ReadGroups(ahead, 4, 4) = Result(x, Len(Groups(x)))
  <2>1. 4 \in Nat /\ 30 \in Nat /\ 4 # 0
    OBVIOUS
  <2>2. QED
    BY <1>4, <1>6, <2>1, ReadGroupsInverse
<1>8. QED
  BY <1>1, <1>7 DEF ReadVInt32

LEMMA VInt64Inverse ==
  ASSUME NEW x, x \subseteq 0..62, NEW ahead, StartsWith(ahead, Groups(x)), NEW a \in BOOLEAN
  PROVE  ReadVInt64(ahead, a) = Result(x, Len(Groups(x)))
<1>1. Len(Groups(x)) \in 1..62 \div 7 + 1
  BY GroupsType
<1>2. Len(Groups(x)) <= 9
  <2>1. \A n \in 1..62 \div 7 + 1 : n <= 9
    OBVIOUS
  <2>2. QED
    BY <1>1, <2>1
<1>3. /\ ahead \in Seq(Bytes)
      /\ Len(Groups(x)) <= Len(ahead)
      /\ \A i \in 1..Len(Groups(x)) : ahead[i] = Groups(x)[i]
  BY DEF StartsWith
<1>4. ReadGroups(ahead, 9, IF a THEN 1 ELSE 0) = Result(x, Len(Groups(x)))
  <2> DEFINE last == IF a THEN 1 ELSE 0
  <2>1. last \in Nat
    OBVIOUS
  <2> HIDE DEF last
  <2>2. ReadGroups(ahead, 9, last) = Result(x, Len(Groups(x)))
    BY <1>2, <1>3, <2>1, ReadGroupsInverse, ZenonT(60)
  <2>3. QED
    BY <2>2 DEF last
<1>5. QED
  BY <1>4 DEF ReadVInt64

--------------------------------------------------------------------------------
(* Zigzag. *)
LEMMA ZigZagEncodes ==
  ASSUME NEW x, x \subseteq 0..31
  PROVE  /\ ZigZagEncode(x) \subseteq 0..31
         /\ 0 \in ZigZagEncode(x) <=> 31 \in x
         /\ \A b \in 1..31 : b \in ZigZagEncode(x) <=> (b - 1 \in x <=> 31 \notin x)
<1> DEFINE left == ToInt32(Shifted(x, 1))
<1>1. /\ Shifted(x, 1) \subseteq Nat
      /\ \A b \in Nat : b \in Shifted(x, 1) <=> b - 1 \in x
  <2>1. x \subseteq Nat
    OBVIOUS
  <2>2. QED
    BY <2>1, ShiftedIs
<1>2. /\ left \subseteq 0..31
      /\ \A b \in 0..31 : b \in left <=> b - 1 \in x
  <2>0. 32 \in Nat
    OBVIOUS
  <2>1. /\ Bits(Shifted(x, 1), 0, 32) \subseteq 0..32 - 1
        /\ \A b \in Nat : b \in Bits(Shifted(x, 1), 0, 32) <=> b < 32 /\ b \in Shifted(x, 1)
    BY <1>1, <2>0, LowBitsAre
  <2>2. \A b \in 0..31 : b \in Bits(Shifted(x, 1), 0, 32) <=> b \in Shifted(x, 1)
    BY <2>1
  <2>3. QED
    BY <2>1, <2>2, <1>1 DEF ToInt32
<1> HIDE DEF left
<1>3. ZigZagEncode(x) = IF 31 \in x THEN (0..31) \ left ELSE left
  BY DEF ZigZagEncode, Negative, Not, left
<1>4. 0 - 1 \notin x
  OBVIOUS
<1>5. QED
  BY <1>2, <1>3, <1>4

LEMMA ZigZagDecodes ==
  ASSUME NEW w \in Nat, NEW x, x \subseteq 0..w - 1
  PROVE  \A b : b \in ZigZagDecode(x, w) <=>
           /\ b \in 0..w - 1
           /\ ((b + 1 \in x \/ (b = w - 1 /\ b \in x)) <=> 0 \notin x)
<1> DEFINE right == {b - 1 : b \in x \ {0}} \cup (x \cap {w - 1})
<1>1. \A b : b \in right <=> b \in 0..w - 1 /\ (b + 1 \in x \/ (b = w - 1 /\ b \in x))
  <2>1. ASSUME NEW b \in right PROVE b \in 0..w - 1 /\ (b + 1 \in x \/ (b = w - 1 /\ b \in x))
    <3>1. CASE b \in x \cap {w - 1}
      BY <3>1
    <3>2. CASE b \in {c - 1 : c \in x \ {0}}
      <4>1. PICK c \in x \ {0} : b = c - 1
        BY <3>2
      <4>2. c \in 1..w - 1 /\ b + 1 = c
        BY <4>1
      <4>3. QED
        BY <4>1, <4>2
    <3>3. QED
      BY <3>1, <3>2
  <2>2. ASSUME NEW b \in 0..w - 1, b + 1 \in x \/ (b = w - 1 /\ b \in x) PROVE b \in right
    <3>1. CASE b + 1 \in x
      <4>1. b = (b + 1) - 1 /\ b + 1 \in x \ {0}
        BY <3>1
      <4>2. QED
        BY <4>1
    <3>2. CASE b = w - 1 /\ b \in x
      BY <3>2
    <3>3. QED
      BY <2>2, <3>1, <3>2
  <2>3. QED
    BY <2>1, <2>2
<1>2. ZigZagDecode(x, w) = IF 0 \in x THEN (0..w - 1) \ right ELSE right
  BY DEF ZigZagDecode, Not
<1> HIDE DEF right
<1>3. QED
  BY <1>1, <1>2

LEMMA ZigZagInverse ==
  ASSUME NEW x, x \subseteq 0..31, 30 \in x <=> 31 \in x
  PROVE  ZigZagEncode(x) \subseteq 0..30 /\ ZigZagDecode(ZigZagEncode(x), 32) = x
<1> DEFINE e == ZigZagEncode(x)
<1>1. e \subseteq 0..31
  BY ZigZagEncodes
<1>2. 0 \in e <=> 31 \in x
  BY ZigZagEncodes
<1>3. \A b \in 1..31 : b \in e <=> (b - 1 \in x <=> 31 \notin x)
  BY ZigZagEncodes
<1> HIDE DEF e
<1>4. 31 \notin e
  <2>1. 31 - 1 = 30
    OBVIOUS
  <2>2. QED
    BY <1>3, <2>1
<1>5. \A b : b \in ZigZagDecode(e, 32) <=>
           /\ b \in 0..31
           /\ ((b + 1 \in e \/ (b = 31 /\ b \in e)) <=> 0 \notin e)
  <2>1. 32 \in Nat /\ e \subseteq 0..32 - 1 /\ 32 - 1 = 31
    BY <1>1
  <2>2. \A b : b \in ZigZagDecode(e, 32) <=>
           /\ b \in 0..32 - 1
           /\ ((b + 1 \in e \/ (b = 32 - 1 /\ b \in e)) <=> 0 \notin e)
    BY <2>1, ZigZagDecodes
  <2>3. QED
    BY <2>1, <2>2
<1>6. ASSUME NEW b \in 0..31 PROVE (b + 1 \in e <=> 31 \notin x) <=> b \in x
  <2>1. CASE b = 31
    <3>1. b + 1 \notin e
      BY <1>1, <2>1
    <3>2. QED
      BY <2>1, <3>1
  <2>2. CASE b \in 0..30
    <3>1. b + 1 \in 1..31 /\ (b + 1) - 1 = b
      BY <2>2
    <3>2. QED
      BY <1>3, <3>1
  <2>3. QED
    BY <2>1, <2>2
<1>7. ZigZagDecode(e, 32) = x
  <2>1. ASSUME NEW b PROVE b \in ZigZagDecode(e, 32) <=> b \in x
    <3>1. b = 31 /\ b \in e <=> FALSE
      BY <1>4
    <3>2. b \in ZigZagDecode(e, 32) <=> b \in 0..31 /\ (b + 1 \in e <=> 0 \notin e)
      BY <1>5, <3>1
    <3>3. QED
      BY <1>2, <1>6, <3>2
  <2>2. QED
    BY <2>1
<1>8. e \subseteq 0..30
  BY <1>1, <1>4
<1>9. QED
  BY <1>7, <1>8 DEF e

LEMMA ZigZag64Inverse ==
  ASSUME NEW x, x \subseteq 0..63, x \cap 30..63 \in {{}, 30..63}
  PROVE  ZigZagged64(x) \subseteq 0..30 /\ ZigZagDecode(ZigZagged64(x), 64) = x
<1> DEFINE y == ToInt32(x)
           e == ZigZagEncode(y)
<1>1. y \subseteq 0..31 /\ \A b \in 0..31 : b \in y <=> b \in x
  <2>1. x \subseteq Nat /\ 32 \in Nat
    OBVIOUS
  <2>2. /\ Bits(x, 0, 32) \subseteq 0..32 - 1
        /\ \A b \in Nat : b \in Bits(x, 0, 32) <=> b < 32 /\ b \in x
    BY <2>1, LowBitsAre
  <2>3. QED
    BY <2>2 DEF ToInt32
<1>2. \A b \in 30..63 : b \in x <=> 31 \in x
  OBVIOUS
<1> HIDE DEF y
<1>3. 30 \in y <=> 31 \in y
  BY <1>1, <1>2
<1>4. e \subseteq 0..30
  BY <1>1, <1>3, ZigZagInverse
<1>5. 0 \in e <=> 31 \in y
  BY <1>1, ZigZagEncodes
<1>6. \A b \in 1..31 : b \in e <=> (b - 1 \in y <=> 31 \notin y)
  BY <1>1, ZigZagEncodes
<1>7. ZigZagged64(x) = e
  BY <1>4 DEF ZigZagged64, ToInt64, Negative, y
<1> HIDE DEF e
<1>8. \A b : b \in ZigZagDecode(e, 64) <=>
           /\ b \in 0..63
           /\ ((b + 1 \in e \/ (b = 63 /\ b \in e)) <=> 0 \notin e)
  <2> DEFINE w == 64
  <2>1. w \in Nat /\ e \subseteq 0..w - 1
    BY <1>4
  <2>2. w - 1 = 63
    OBVIOUS
  <2> HIDE DEF w
  <2>3. \A b : b \in ZigZagDecode(e, w) <=>
           /\ b \in 0..w - 1
           /\ ((b + 1 \in e \/ (b = w - 1 /\ b \in e)) <=> 0 \notin e)
    BY <2>1, ZigZagDecodes
  <2>4. QED
    BY <2>2, <2>3 DEF w
<1>9. ASSUME NEW b \in 0..63 PROVE (b + 1 \in e <=> 31 \notin x) <=> b \in x
  <2>1. CASE b \in 30..63
    <3>1. b + 1 \notin e
      <4>1. b + 1 \in e => b + 1 = 31
        BY <1>4, <2>1
      <4>2. QED
        BY <1>4, <4>1
    <3>2. QED
      BY <2>1, <3>1, <1>2
  <2>2. CASE b \in 0..29
    <3>1. b + 1 \in 1..31 /\ (b + 1) - 1 = b /\ b \in 0..31 /\ 31 \in 0..31
      BY <2>2
    <3>2. QED
      BY <1>1, <1>6, <3>1
  <2>3. QED
    BY <2>1, <2>2
<1>10. 63 \notin e /\ (31 \in y <=> 31 \in x)
  BY <1>1, <1>4
<1>11. ZigZagDecode(e, 64) = x
  <2>1. ASSUME NEW b PROVE b \in ZigZagDecode(e, 64) <=> b \in x
    <3>1. b = 63 /\ b \in e <=> FALSE
      BY <1>10
    <3>2. b \in ZigZagDecode(e, 64) <=> b \in 0..63 /\ (b + 1 \in e <=> 0 \notin e)
      BY <1>8, <3>1
    <3>3. QED
      BY <1>5, <1>9, <1>10, <3>2
  <2>2. QED
    BY <2>1
<1>12. QED
  BY <1>4, <1>7, <1>11

--------------------------------------------------------------------------------
(* The numbers that sort. *)
LEMMA FlippedInverse ==
  ASSUME NEW w \in Nat \ {0}, NEW x, x \subseteq 0..w - 1
  PROVE  Flipped(x, w) \subseteq 0..w - 1 /\ Flipped(Flipped(x, w), w) = x
BY DEF Flipped, Xor

LEMMA SortableBitsInverse ==
  ASSUME NEW w \in Nat \ {0}, NEW x, x \subseteq 0..w - 1
  PROVE  SortableBits(x, w) \subseteq 0..w - 1 /\ SortableBits(SortableBits(x, w), w) = x
BY DEF SortableBits, Negative, Not

--------------------------------------------------------------------------------
(* The length of a string. *)
LEMMA ByteNumberIs ==
  ASSUME NEW n \in Nat, NEW x,
         \A b \in 0..7 : b \in x <=> (n \div 2^b) % 2 = 1
  PROVE  ByteNumber(x) = n % 2^8
<1>0. (IF 0 \in x THEN 2^0 ELSE 0) = 2^0 * ((n \div 2^0) % 2)
  <2>1. 0 \in x <=> (n \div 2^0) % 2 = 1
    BY 0 \in 0..7
  <2>2. (n \div 2^0) % 2 \in 0..1
    BY SMT
  <2>3. QED
    BY <2>1, <2>2, SMT
<1>1. (IF 1 \in x THEN 2^1 ELSE 0) = 2^1 * ((n \div 2^1) % 2)
  <2>1. 1 \in x <=> (n \div 2^1) % 2 = 1
    BY 1 \in 0..7
  <2>2. (n \div 2^1) % 2 \in 0..1
    BY SMT
  <2>3. QED
    BY <2>1, <2>2, SMT
<1>2. (IF 2 \in x THEN 2^2 ELSE 0) = 2^2 * ((n \div 2^2) % 2)
  <2>1. 2 \in x <=> (n \div 2^2) % 2 = 1
    BY 2 \in 0..7
  <2>2. (n \div 2^2) % 2 \in 0..1
    BY SMT
  <2>3. QED
    BY <2>1, <2>2, SMT
<1>3. (IF 3 \in x THEN 2^3 ELSE 0) = 2^3 * ((n \div 2^3) % 2)
  <2>1. 3 \in x <=> (n \div 2^3) % 2 = 1
    BY 3 \in 0..7
  <2>2. (n \div 2^3) % 2 \in 0..1
    BY SMT
  <2>3. QED
    BY <2>1, <2>2, SMT
<1>4. (IF 4 \in x THEN 2^4 ELSE 0) = 2^4 * ((n \div 2^4) % 2)
  <2>1. 4 \in x <=> (n \div 2^4) % 2 = 1
    BY 4 \in 0..7
  <2>2. (n \div 2^4) % 2 \in 0..1
    BY SMT
  <2>3. QED
    BY <2>1, <2>2, SMT
<1>5. (IF 5 \in x THEN 2^5 ELSE 0) = 2^5 * ((n \div 2^5) % 2)
  <2>1. 5 \in x <=> (n \div 2^5) % 2 = 1
    BY 5 \in 0..7
  <2>2. (n \div 2^5) % 2 \in 0..1
    BY SMT
  <2>3. QED
    BY <2>1, <2>2, SMT
<1>6. (IF 6 \in x THEN 2^6 ELSE 0) = 2^6 * ((n \div 2^6) % 2)
  <2>1. 6 \in x <=> (n \div 2^6) % 2 = 1
    BY 6 \in 0..7
  <2>2. (n \div 2^6) % 2 \in 0..1
    BY SMT
  <2>3. QED
    BY <2>1, <2>2, SMT
<1>7. (IF 7 \in x THEN 2^7 ELSE 0) = 2^7 * ((n \div 2^7) % 2)
  <2>1. 7 \in x <=> (n \div 2^7) % 2 = 1
    BY 7 \in 0..7
  <2>2. (n \div 2^7) % 2 \in 0..1
    BY SMT
  <2>3. QED
    BY <2>1, <2>2, SMT
<1>8. n % 2^8 = 2^0 * ((n \div 2^0) % 2) + 2^1 * ((n \div 2^1) % 2) + 2^2 * ((n \div 2^2) % 2)
                + 2^3 * ((n \div 2^3) % 2) + 2^4 * ((n \div 2^4) % 2) + 2^5 * ((n \div 2^5) % 2)
                + 2^6 * ((n \div 2^6) % 2) + 2^7 * ((n \div 2^7) % 2)
  <2>0. n \div 2^0 = 2 * (n \div 2^1) + ((n \div 2^0) % 2)
    BY SMT
  <2>1. n \div 2^1 = 2 * (n \div 2^2) + ((n \div 2^1) % 2)
    BY SMT
  <2>2. n \div 2^2 = 2 * (n \div 2^3) + ((n \div 2^2) % 2)
    BY SMT
  <2>3. n \div 2^3 = 2 * (n \div 2^4) + ((n \div 2^3) % 2)
    BY SMT
  <2>4. n \div 2^4 = 2 * (n \div 2^5) + ((n \div 2^4) % 2)
    BY SMT
  <2>5. n \div 2^5 = 2 * (n \div 2^6) + ((n \div 2^5) % 2)
    BY SMT
  <2>6. n \div 2^6 = 2 * (n \div 2^7) + ((n \div 2^6) % 2)
    BY SMT
  <2>7. n \div 2^7 = 2 * (n \div 2^8) + ((n \div 2^7) % 2)
    BY SMT
  <2>8. n = n \div 2^0 /\ n = 2^8 * (n \div 2^8) + (n % 2^8)
    BY SMT
  <2>9. QED
    BY <2>0, <2>1, <2>2, <2>3, <2>4, <2>5, <2>6, <2>7, <2>8, SMT
<1>9. QED
  BY <1>0, <1>1, <1>2, <1>3, <1>4, <1>5, <1>6, <1>7, <1>8 DEF ByteNumber

LEMMA QuotientOfQuotient ==
  ASSUME NEW n \in Nat, NEW from \in {0, 8, 16, 24}, NEW b \in 0..7
  PROVE  n \div 2^(b + from) = (n \div 2^from) \div 2^b
<1>1. CASE from = 0
  <2>0. CASE b = 0  BY <1>1, <2>0, SMT
  <2>1. CASE b = 1  BY <1>1, <2>1, SMT
  <2>2. CASE b = 2  BY <1>1, <2>2, SMT
  <2>3. CASE b = 3  BY <1>1, <2>3, SMT
  <2>4. CASE b = 4  BY <1>1, <2>4, SMT
  <2>5. CASE b = 5  BY <1>1, <2>5, SMT
  <2>6. CASE b = 6  BY <1>1, <2>6, SMT
  <2>7. CASE b = 7  BY <1>1, <2>7, SMT
  <2>8. QED
    BY <2>0, <2>1, <2>2, <2>3, <2>4, <2>5, <2>6, <2>7, SMT
<1>2. CASE from = 8
  <2>0. CASE b = 0  BY <1>2, <2>0, SMT
  <2>1. CASE b = 1  BY <1>2, <2>1, SMT
  <2>2. CASE b = 2  BY <1>2, <2>2, SMT
  <2>3. CASE b = 3  BY <1>2, <2>3, SMT
  <2>4. CASE b = 4  BY <1>2, <2>4, SMT
  <2>5. CASE b = 5  BY <1>2, <2>5, SMT
  <2>6. CASE b = 6  BY <1>2, <2>6, SMT
  <2>7. CASE b = 7  BY <1>2, <2>7, SMT
  <2>8. QED
    BY <2>0, <2>1, <2>2, <2>3, <2>4, <2>5, <2>6, <2>7, SMT
<1>3. CASE from = 16
  <2>0. CASE b = 0  BY <1>3, <2>0, SMT
  <2>1. CASE b = 1  BY <1>3, <2>1, SMT
  <2>2. CASE b = 2  BY <1>3, <2>2, SMT
  <2>3. CASE b = 3  BY <1>3, <2>3, SMT
  <2>4. CASE b = 4  BY <1>3, <2>4, SMT
  <2>5. CASE b = 5  BY <1>3, <2>5, SMT
  <2>6. CASE b = 6  BY <1>3, <2>6, SMT
  <2>7. CASE b = 7  BY <1>3, <2>7, SMT
  <2>8. QED
    BY <2>0, <2>1, <2>2, <2>3, <2>4, <2>5, <2>6, <2>7, SMT
<1>4. CASE from = 24
  <2>0. CASE b = 0  BY <1>4, <2>0, SMT
  <2>1. CASE b = 1  BY <1>4, <2>1, SMT
  <2>2. CASE b = 2  BY <1>4, <2>2, SMT
  <2>3. CASE b = 3  BY <1>4, <2>3, SMT
  <2>4. CASE b = 4  BY <1>4, <2>4, SMT
  <2>5. CASE b = 5  BY <1>4, <2>5, SMT
  <2>6. CASE b = 6  BY <1>4, <2>6, SMT
  <2>7. CASE b = 7  BY <1>4, <2>7, SMT
  <2>8. QED
    BY <2>0, <2>1, <2>2, <2>3, <2>4, <2>5, <2>6, <2>7, SMT
<1>5. QED
  BY <1>1, <1>2, <1>3, <1>4

LEMMA MaxInt32Is ==
  MaxInt32 \in Nat /\ MaxInt32 < 2^31
BY SMT DEF MaxInt32

LEMMA BitsOfBinary ==
  ASSUME NEW n \in 0..MaxInt32, NEW from \in {0, 8, 16, 24}
  PROVE  ByteNumber(Bits(Binary(n), from, 8)) = (n \div 2^from) % 2^8
<1> DEFINE x == Binary(n)
           y == Bits(x, from, 8)
<1>1. n \in Nat
  BY MaxInt32Is, SMT
<1>2. from \in Nat /\ 8 \in Nat /\ x \subseteq Nat
  BY DEF Binary
<1>3. \A b \in Nat : b \in y <=> b < 8 /\ b + from \in x
  BY <1>2, BitsAre
<1>4. n \div 2^from \in Nat
  <2>1. n \div 2^0 \in Nat /\ n \div 2^8 \in Nat /\ n \div 2^16 \in Nat /\ n \div 2^24 \in Nat
    BY <1>1, SMT
  <2>2. QED
    BY <2>1
<1>5. n \div 2^31 = 0
  BY MaxInt32Is, SMT
<1>6. ASSUME NEW b \in 0..7 PROVE b \in y <=> ((n \div 2^from) \div 2^b) % 2 = 1
  <2>1. n \div 2^(b + from) = (n \div 2^from) \div 2^b
    BY <1>1, QuotientOfQuotient
  <2>2. b \in y <=> b + from \in x
    BY <1>3
  <2>3. CASE b + from = 31
    <3>1. b + from \notin x
      BY <2>3 DEF Binary
    <3>2. (n \div 2^from) \div 2^b = 0
      BY <1>5, <2>1, <2>3
    <3>3. 0 % 2 # 1
      BY SMT
    <3>4. QED
      BY <2>2, <3>1, <3>2, <3>3
  <2>4. CASE b + from # 31
    <3>1. b + from \in 0..30
      BY <2>4
    <3>2. b + from \in x <=> (n \div 2^(b + from)) % 2 = 1
      BY <3>1 DEF Binary
    <3>3. QED
      BY <2>1, <2>2, <3>2
  <2>5. QED
    BY <2>3, <2>4
<1> HIDE DEF x, y
<1>7. QED
  BY <1>4, <1>6, ByteNumberIs DEF x, y

LEMMA BinaryType ==
  ASSUME NEW n
  PROVE  Binary(n) \subseteq 0..31
BY DEF Binary

LEMMA NumberInverse ==
  ASSUME NEW n \in 0..MaxInt32
  PROVE  Binary(n) \subseteq 0..30 /\ Number(Binary(n)) = n
<1>1. ByteNumber(Bits(Binary(n), 0, 8)) = (n \div 2^0) % 2^8
  BY BitsOfBinary
<1>2. ByteNumber(Bits(Binary(n), 8, 8)) = (n \div 2^8) % 2^8
  BY BitsOfBinary
<1>3. ByteNumber(Bits(Binary(n), 16, 8)) = (n \div 2^16) % 2^8
  BY BitsOfBinary
<1>4. ByteNumber(Bits(Binary(n), 24, 8)) = (n \div 2^24) % 2^8
  BY BitsOfBinary
<1>5. n = ((n \div 2^0) % 2^8) + 2^8 * ((n \div 2^8) % 2^8)
          + 2^16 * ((n \div 2^16) % 2^8) + 2^24 * ((n \div 2^24) % 2^8)
  BY MaxInt32Is, SMT
<1>6. Binary(n) \subseteq 0..30
  BY DEF Binary
<1>7. QED
  BY <1>1, <1>2, <1>3, <1>4, <1>5, <1>6, SMT DEF Number

--------------------------------------------------------------------------------
(* The output. *)
Cells == {Junk} \cup Bytes

IsOutput(o) ==
  /\ o \in [bytes: Seq(Cells), length: Nat]
  /\ o.length <= Len(o.bytes)
  /\ \A i \in 1..o.length : o.bytes[i] \in Bytes

(* p is o with some bytes more. *)
Appended(o, p, code) ==
  /\ IsOutput(p)
  /\ p.length = o.length + Len(code)
  /\ \A i \in 1..o.length : p.bytes[i] = o.bytes[i]
  /\ \A j \in 1..Len(code) : p.bytes[o.length + j] = code[j]

LEMMA GrowIs ==
  ASSUME NEW array \in Seq(Cells), NEW n \in Nat, Len(array) <= n
  PROVE  /\ Grow(array, n, n + 1) \in Seq(Cells)
         /\ n < Len(Grow(array, n, n + 1))
         /\ \A i \in 1..Len(array) : Grow(array, n, n + 1)[i] = array[i]
<1> DEFINE m == Oversize(n + 1)
<1>1. m \in Nat /\ n < m
  BY DEF Oversize
<1> HIDE DEF m
<1>2. Grow(array, n, n + 1) = CopyOf(array, n, m)
  BY DEF Grow, m
<1> DEFINE cell(i) == IF i <= n /\ i <= Len(array) THEN array[i] ELSE Junk
<1>3. CopyOf(array, n, m) = [i \in 1..m |-> cell(i)]
  BY DEF CopyOf
<1>4. \A i \in 1..m : cell(i) \in Cells
  BY DEF Cells
<1>5. \A i \in 1..Len(array) : i \in 1..m /\ cell(i) = array[i]
  BY <1>1
<1> HIDE DEF cell
<1>6. CopyOf(array, n, m) \in [1..m -> Cells]
  BY <1>3, <1>4
<1>7. CopyOf(array, n, m) \in Seq(Cells) /\ Len(CopyOf(array, n, m)) = m
  BY <1>1, <1>6
<1>8. \A i \in 1..Len(array) : CopyOf(array, n, m)[i] = array[i]
  BY <1>3, <1>5
<1>9. QED
  BY <1>1, <1>2, <1>7, <1>8

LEMMA StoreIs ==
  ASSUME NEW array \in Seq(Cells), NEW at \in Nat, NEW code \in Seq(Bytes),
         at + Len(code) <= Len(array)
  PROVE  /\ Store(array, at, code) \in Seq(Cells)
         /\ Len(Store(array, at, code)) = Len(array)
         /\ \A i \in 1..at : Store(array, at, code)[i] = array[i]
         /\ \A j \in 1..Len(code) : Store(array, at, code)[at + j] = code[j]
<1> DEFINE m == Len(array)
           cell(i) == IF at < i /\ i <= at + Len(code) THEN code[i - at] ELSE array[i]
<1>1. m \in Nat /\ Len(code) \in Nat /\ DOMAIN array = 1..m
  OBVIOUS
<1>2. \A i \in 1..m : cell(i) \in Cells
  <2> TAKE i \in 1..m
  <2>1. CASE at < i /\ i <= at + Len(code)
    <3>1. i - at \in 1..Len(code)
      BY <2>1
    <3>2. code[i - at] \in Bytes
      BY <3>1
    <3>3. QED
      BY <2>1, <3>2 DEF Cells
  <2>2. CASE ~(at < i /\ i <= at + Len(code))
    BY <2>2
  <2>3. QED
    BY <2>1, <2>2
<1>3. \A i \in 1..at : i \in 1..m /\ cell(i) = array[i]
  BY <1>1
<1>4. \A j \in 1..Len(code) : at + j \in 1..m /\ cell(at + j) = code[j]
  <2> TAKE j \in 1..Len(code)
  <2>1. at < at + j /\ at + j <= at + Len(code) /\ (at + j) - at = j
    OBVIOUS
  <2>2. QED
    BY <1>1, <2>1
<1>5. Store(array, at, code) = [i \in 1..m |-> cell(i)]
  BY <1>1 DEF Store
<1> HIDE DEF cell, m
<1>6. Store(array, at, code) \in [1..m -> Cells]
  BY <1>2, <1>5
<1>7. Store(array, at, code) \in Seq(Cells) /\ Len(Store(array, at, code)) = m
  BY <1>1, <1>6
<1>8. QED
  BY <1>3, <1>4, <1>5, <1>7 DEF m

LEMMA WriteBytesAppends ==
  ASSUME NEW o, IsOutput(o), NEW code \in Seq(Bytes)
  PROVE  Appended(o, WriteBytes(o, code), code)
<1> DEFINE n == o.length + Len(code)
           array == IF n >= Len(o.bytes) THEN Grow(o.bytes, n, n + 1) ELSE o.bytes
           p == WriteBytes(o, code)
<1>1. /\ o.bytes \in Seq(Cells) /\ o.length \in Nat /\ o.length <= Len(o.bytes)
      /\ \A i \in 1..o.length : o.bytes[i] \in Bytes
  BY DEF IsOutput
<1>2. n \in Nat /\ Len(o.bytes) \in Nat /\ Len(code) \in Nat
  BY <1>1
<1>3. p = [bytes |-> Store(array, o.length, code), length |-> n]
  BY DEF WriteBytes
<1> HIDE DEF p
<1>4. /\ array \in Seq(Cells) /\ n <= Len(array)
      /\ \A i \in 1..Len(o.bytes) : array[i] = o.bytes[i]
  <2> HIDE DEF n
  <2>1. CASE n >= Len(o.bytes)
    <3>1. /\ Grow(o.bytes, n, n + 1) \in Seq(Cells)
          /\ n < Len(Grow(o.bytes, n, n + 1))
          /\ \A i \in 1..Len(o.bytes) : Grow(o.bytes, n, n + 1)[i] = o.bytes[i]
      BY <1>1, <1>2, <2>1, GrowIs
    <3>2. Len(Grow(o.bytes, n, n + 1)) \in Nat
      BY <3>1
    <3>3. QED
      BY <1>2, <2>1, <3>1, <3>2
  <2>2. CASE ~(n >= Len(o.bytes))
    BY <1>1, <1>2, <2>2
  <2>3. QED
    BY <2>1, <2>2
<1> HIDE DEF array
<1>5. o.length + Len(code) <= Len(array)
  BY <1>4
<1>6. /\ p.bytes \in Seq(Cells) /\ Len(p.bytes) = Len(array)
      /\ \A i \in 1..o.length : p.bytes[i] = array[i]
      /\ \A j \in 1..Len(code) : p.bytes[o.length + j] = code[j]
  BY <1>1, <1>3, <1>4, <1>5, StoreIs
<1>7. \A i \in 1..o.length : p.bytes[i] = o.bytes[i]
  <2>1. \A i \in 1..o.length : i \in 1..Len(o.bytes)
    BY <1>1, <1>2
  <2>2. QED
    BY <1>4, <1>6, <2>1
<1>8. \A i \in 1..n : p.bytes[i] \in Bytes
  <2> TAKE i \in 1..n
  <2>1. CASE i \in 1..o.length
    BY <1>1, <1>7, <2>1
  <2>2. CASE i \notin 1..o.length
    <3>1. i - o.length \in 1..Len(code) /\ i = o.length + (i - o.length)
      BY <1>1, <1>2, <2>2
    <3>2. p.bytes[i] = code[i - o.length]
      BY <1>6, <3>1
    <3>3. QED
      BY <3>1, <3>2
  <2>3. QED
    BY <2>1, <2>2
<1>9. p \in [bytes: Seq(Cells), length: Nat] /\ p.length = n
  BY <1>2, <1>3, <1>6
<1>10. n <= Len(p.bytes)
  BY <1>4, <1>6
<1> HIDE DEF n
<1>11. IsOutput(p)
  BY <1>8, <1>9, <1>10 DEF IsOutput
<1>12. QED
  BY <1>6, <1>7, <1>9, <1>11 DEF Appended, n, p

LEMMA WriteByteAppends ==
  ASSUME NEW o, IsOutput(o), NEW byte \in Bytes
  PROVE  Appended(o, WriteByte(o, byte), <<byte>>)
<1> DEFINE n == Len(o.bytes)
           array == IF o.length >= n THEN Grow(o.bytes, n, n + 1) ELSE o.bytes
           code == <<byte>>
           p == WriteByte(o, byte)
<1>1. /\ o.bytes \in Seq(Cells) /\ o.length \in Nat /\ o.length <= Len(o.bytes)
      /\ \A i \in 1..o.length : o.bytes[i] \in Bytes
  BY DEF IsOutput
<1>2. n \in Nat /\ code \in Seq(Bytes) /\ Len(code) = 1
  BY <1>1
<1>3. p = [bytes |-> Store(array, o.length, code), length |-> o.length + 1]
  BY DEF WriteByte
<1> HIDE DEF p, code
<1>4. /\ array \in Seq(Cells) /\ o.length + 1 <= Len(array)
      /\ \A i \in 1..n : array[i] = o.bytes[i]
  <2>1. CASE o.length >= n
    <3>1. /\ Grow(o.bytes, n, n + 1) \in Seq(Cells)
          /\ n < Len(Grow(o.bytes, n, n + 1))
          /\ \A i \in 1..Len(o.bytes) : Grow(o.bytes, n, n + 1)[i] = o.bytes[i]
      BY <1>1, <1>2, GrowIs
    <3>2. Len(Grow(o.bytes, n, n + 1)) \in Nat
      BY <3>1
    <3>3. QED
      BY <1>1, <1>2, <2>1, <3>1, <3>2
  <2>2. CASE ~(o.length >= n)
    BY <1>1, <1>2, <2>2
  <2>3. QED
    BY <2>1, <2>2
<1> HIDE DEF array
<1>5. o.length + Len(code) <= Len(array)
  BY <1>2, <1>4
<1>6. /\ p.bytes \in Seq(Cells) /\ Len(p.bytes) = Len(array)
      /\ \A i \in 1..o.length : p.bytes[i] = array[i]
      /\ \A j \in 1..Len(code) : p.bytes[o.length + j] = code[j]
  BY <1>1, <1>2, <1>3, <1>4, <1>5, StoreIs, ZenonT(60)
<1>7. \A i \in 1..o.length : p.bytes[i] = o.bytes[i]
  <2>1. \A i \in 1..o.length : i \in 1..n
    BY <1>1, <1>2
  <2>2. QED
    BY <1>4, <1>6, <2>1
<1>8. \A i \in 1..o.length + 1 : p.bytes[i] \in Bytes
  <2> TAKE i \in 1..o.length + 1
  <2>1. CASE i \in 1..o.length
    BY <1>1, <1>7, <2>1
  <2>2. CASE i = o.length + 1
    <3>1. p.bytes[o.length + 1] = code[1] /\ code[1] = byte
      BY <1>2, <1>6 DEF code
    <3>2. QED
      BY <2>2, <3>1
  <2>3. QED
    BY <1>1, <2>1, <2>2
<1>9. p \in [bytes: Seq(Cells), length: Nat] /\ p.length = o.length + 1
  BY <1>1, <1>3, <1>6
<1>10. p.length <= Len(p.bytes)
  BY <1>4, <1>6, <1>9
<1>11. IsOutput(p)
  BY <1>8, <1>9, <1>10 DEF IsOutput
<1>12. QED
  BY <1>2, <1>6, <1>7, <1>9, <1>11 DEF Appended, p, code

LEMMA WriteEachAppends ==
  ASSUME NEW o, IsOutput(o), NEW code \in Seq(Bytes)
  PROVE  Appended(o, WriteEach(o, code), code)
<1> DEFINE Step(f, n) == IF n = 0 THEN o ELSE WriteByte(f[n - 1], code[n])
           IsAfter(f, m) == f = [n \in 0..m |-> Step(f, n)]
           After == CHOOSE f : IsAfter(f, Len(code))
<1>0. Len(code) \in Nat /\ o.length \in Nat
  BY DEF IsOutput
<1>1. \E f : IsAfter(f, Len(code))
  <2> DEFINE S == {m \in Nat : \E f : IsAfter(f, m)}
  <2>1. 0 \in S
    <3>1. IsAfter([n \in 0..0 |-> o], 0)
      OBVIOUS
    <3>2. QED
      BY <3>1
  <2>2. ASSUME NEW m \in Nat, m \in S PROVE m + 1 \in S
    <3>1. PICK f : IsAfter(f, m)
      BY <2>2
    <3> DEFINE g == [n \in 0..m + 1 |-> IF n = m + 1 THEN WriteByte(f[m], code[m + 1]) ELSE f[n]]
    <3>2. \A n \in 0..m : g[n] = f[n]
      OBVIOUS
    <3>3. \A n \in 0..m : f[n] = Step(f, n)
      BY <3>1
    <3>4. ASSUME NEW n \in 0..m + 1 PROVE g[n] = Step(g, n)
      <4>1. CASE n = m + 1
        <5>1. n - 1 = m /\ g[m] = f[m] /\ n # 0
          BY <3>2, <4>1
        <5>2. g[n] = WriteByte(f[m], code[m + 1])
          BY <4>1
        <5> HIDE DEF g
        <5>3. QED
          BY <4>1, <5>1, <5>2
      <4>2. CASE n \in 0..m
        <5>1. n = 0 \/ n - 1 \in 0..m
          BY <4>2
        <5>2. n # 0 => g[n - 1] = f[n - 1]
          BY <3>2, <5>1
        <5>3. g[n] = f[n] /\ f[n] = Step(f, n)
          BY <3>2, <3>3, <4>2
        <5> HIDE DEF g
        <5>4. QED
          BY <5>2, <5>3
      <4>3. QED
        BY <4>1, <4>2
    <3>5. g = [n \in 0..m + 1 |-> g[n]]
      OBVIOUS
    <3> HIDE DEF g
    <3>6. IsAfter(g, m + 1)
      BY <3>4, <3>5
    <3> HIDE DEF IsAfter
    <3>7. m + 1 \in Nat
      OBVIOUS
    <3>8. QED
      BY <3>6, <3>7
  <2> HIDE DEF S
  <2>3. Nat \subseteq S
    BY <2>1, <2>2, NatInductionOnSets
  <2>4. QED
    BY <1>0, <2>3 DEF S
<1>2. IsAfter(After, Len(code))
  BY <1>1
<1>3. WriteEach(o, code) = After[Len(code)]
  BY DEF WriteEach
<1> HIDE DEF After
<1>4. \A n \in 0..Len(code) : After[n] = Step(After, n)
  BY <1>2
<1> DEFINE Holds(p, n) ==
             /\ IsOutput(p) /\ p.length = o.length + n
             /\ \A i \in 1..o.length : p.bytes[i] = o.bytes[i]
             /\ \A j \in 1..n : p.bytes[o.length + j] = code[j]
           T == {n \in Nat : n <= Len(code) => Holds(After[n], n)}
<1>5. 0 \in T
  <2>1. After[0] = o
    BY <1>0, <1>4
  <2>2. QED
    BY <1>0, <2>1
<1>6. ASSUME NEW n \in Nat, n \in T PROVE n + 1 \in T
  <2>1. SUFFICES ASSUME n + 1 <= Len(code) PROVE Holds(After[n + 1], n + 1)
    OBVIOUS
  <2> DEFINE p == After[n]
             q == WriteByte(p, code[n + 1])
  <2>2. Holds(p, n)
    BY <1>0, <1>6, <2>1
  <2>3. After[n + 1] = q
    <3>1. n + 1 \in 0..Len(code) /\ n + 1 # 0 /\ (n + 1) - 1 = n
      BY <1>0, <2>1
    <3>2. QED
      BY <1>4, <3>1
  <2>4. code[n + 1] \in Bytes
    BY <1>0, <2>1
  <2> HIDE DEF p
  <2>5. Appended(p, q, <<code[n + 1]>>)
    BY <2>2, <2>4, WriteByteAppends
  <2> HIDE DEF q
  <2>6. /\ IsOutput(q) /\ q.length = p.length + 1
        /\ \A i \in 1..p.length : q.bytes[i] = p.bytes[i]
        /\ q.bytes[p.length + 1] = code[n + 1]
    BY <2>5 DEF Appended
  <2>7. \A i \in 1..o.length : q.bytes[i] = o.bytes[i]
    BY <1>0, <2>2, <2>6
  <2>8. \A j \in 1..n + 1 : q.bytes[o.length + j] = code[j]
    <3> TAKE j \in 1..n + 1
    <3>1. CASE j = n + 1
      <4>1. o.length + j = p.length + 1
        BY <1>0, <2>2, <3>1
      <4>2. QED
        BY <2>6, <3>1, <4>1
    <3>2. CASE j \in 1..n
      <4>1. o.length + j \in 1..p.length
        BY <1>0, <2>2, <3>2
      <4>2. QED
        BY <2>2, <2>6, <3>2, <4>1
    <3>3. QED
      BY <3>1, <3>2
  <2>9. q.length = o.length + (n + 1)
    <3>1. p.length = o.length + n /\ q.length = p.length + 1
      BY <2>2, <2>6
    <3> HIDE DEF Holds
    <3>2. QED
      BY <1>0, <3>1
  <2>10. QED
    BY <2>3, <2>6, <2>7, <2>8, <2>9
<1> HIDE DEF T
<1>7. Nat \subseteq T
  BY <1>5, <1>6, NatInductionOnSets
<1>8. Holds(After[Len(code)], Len(code))
  BY <1>0, <1>7 DEF T
<1>9. QED
  BY <1>3, <1>8 DEF Appended

--------------------------------------------------------------------------------
(* The bytes of a number, and the number that is read from them. *)
LEMMA WidthsAre ==
  /\ \A k \in Fixed \cup Sortable : \E m \in 1..8 : Widths[k] = 8 * m /\ 8 * m - 1 \in Nat
  /\ \A k \in {"VInt32", "ZInt32"} : Widths[k] = 32
  /\ \A k \in {"VInt64", "ZInt64"} : Widths[k] = 64
<1>1. Widths["Int16"] = 8 * 2 /\ Widths["Int32"] = 8 * 4 /\ Widths["Int64"] = 8 * 8
  BY DEF Widths
<1>2. Widths["SortableInt"] = 8 * 4 /\ Widths["SortableLong"] = 8 * 8
  BY DEF Widths
<1>3. Widths["SortableFloat"] = 8 * 4 /\ Widths["SortableDouble"] = 8 * 8
  BY DEF Widths
<1>4. \A k \in Fixed \cup Sortable :
        k \in {"Int16", "Int32", "Int64", "SortableInt", "SortableLong", "SortableFloat",
               "SortableDouble"}
  BY DEF Fixed, Sortable, Floating
<1>5. \A k \in Fixed \cup Sortable :
        Widths[k] = 8 * 2 \/ Widths[k] = 8 * 4 \/ Widths[k] = 8 * 8
  BY <1>1, <1>2, <1>3, <1>4
<1>6. \A k \in {"VInt32", "ZInt32"} : Widths[k] = 32
  BY DEF Widths
<1>7. \A k \in {"VInt64", "ZInt64"} : Widths[k] = 64
  BY DEF Widths
<1>8. QED
  BY <1>5, <1>6, <1>7

LEMMA ZigZagged64Type ==
  ASSUME NEW x, x \subseteq 0..63
  PROVE  ZigZagged64(x) \subseteq 0..63
<1>1. x \subseteq Nat /\ 32 \in Nat
  OBVIOUS
<1>2. ToInt32(x) \subseteq 0..32 - 1
  BY <1>1, LowBitsAre, ZenonT(60) DEF ToInt32
<1>3. ToInt32(x) \subseteq 0..31
  BY <1>2
<1>4. ZigZagEncode(ToInt32(x)) \subseteq 0..31
  BY <1>3, ZigZagEncodes
<1>5. QED
  BY <1>4 DEF ZigZagged64, ToInt64

(* The bits of a number: those of the one NaN for all NaNs. *)
Sent(k, x) == IF k \in Floating THEN ToBits(x, Widths[k]) ELSE x

LEMMA SentIs ==
  ASSUME NEW k, NEW x, k \in Floating => x \subseteq 0..Widths[k] - 1
  PROVE  /\ k \in Floating => Sent(k, x) \subseteq 0..Widths[k] - 1
         /\ k \notin Floating => Sent(k, x) = x
         /\ Alike(k, Sent(k, x), x)
<1>1. CASE k \notin Floating
  BY <1>1 DEF Sent, Alike
<1>2. CASE k \in Floating
  <2>1. PICK w \in {32, 64} : w = Widths[k]
    BY <1>2 DEF Floating, Widths
  <2>2. Sent(k, x) = ToBits(x, w)
    BY <1>2, <2>1 DEF Sent
  <2>3. CASE ~IsNaN(x, w)
    BY <1>2, <2>1, <2>2, <2>3 DEF ToBits, Alike
  <2>4. CASE IsNaN(x, w)
    <3>1. PICK m \in {23, 52} : m = Mantissa(w) /\ m < w - 1
      BY DEF Mantissa
    <3>2. PICK q : q = m - 1..w - 2
      OBVIOUS
    <3>3. Sent(k, x) = q
      BY <2>2, <2>4, <3>1, <3>2 DEF ToBits
    <3>4. q \subseteq 0..w - 1 /\ m..w - 2 \subseteq q /\ m - 1 \in q /\ m - 1 \in 0..m - 1
      BY <3>1, <3>2
    <3>5. q \cap 0..m - 1 # {}
      BY <3>4
    <3>6. IsNaN(q, w)
      BY <3>1, <3>4, <3>5 DEF IsNaN
    <3>7. QED
      BY <1>2, <2>1, <2>4, <3>3, <3>4, <3>6 DEF Alike
  <2>5. QED
    BY <2>3, <2>4
<1>3. QED
  BY <1>1, <1>2

(* What BigEndian is given for the bits of a sortable number. *)
Sorted(k, x) ==
  CASE k \in Fixed -> x
    [] k \in {"SortableInt", "SortableLong"} -> Flipped(x, Widths[k])
    [] k \in Floating -> Flipped(SortableBits(x, Widths[k]), Widths[k])

LEMMA SortedIs ==
  ASSUME NEW k \in Fixed \cup Sortable, NEW x, x \subseteq 0..Widths[k] - 1
  PROVE  /\ Sorted(k, Sent(k, x)) \subseteq 0..Widths[k] - 1
         /\ Code(k, x) = BigEndian(Sorted(k, Sent(k, x)), Widths[k])
<1>1. Widths[k] \in Nat \ {0}
  BY WidthsAre
<1>2. CASE k \in Fixed
  BY <1>2 DEF Sorted, Code, Fixed, Sent, Floating
<1>3. CASE k \in {"SortableInt", "SortableLong"}
  <2>1. Sorted(k, Sent(k, x)) = Flipped(x, Widths[k])
    BY <1>3 DEF Sorted, Fixed, Sent, Floating
  <2>2. Code(k, x) = BigEndian(Flipped(x, Widths[k]), Widths[k])
    BY <1>3 DEF Code, Fixed, Floating
  <2>3. QED
    BY <1>1, <2>1, <2>2, FlippedInverse
<1>4. CASE k \in Floating
  <2> DEFINE bits == ToBits(x, Widths[k])
  <2>0. Sent(k, x) = bits /\ bits \subseteq 0..Widths[k] - 1
    <3>1. Sent(k, x) \subseteq 0..Widths[k] - 1
      BY <1>4, SentIs
    <3>2. QED
      BY <1>4, <3>1 DEF Sent
  <2> HIDE DEF bits
  <2>1. Sorted(k, Sent(k, x)) = Flipped(SortableBits(bits, Widths[k]), Widths[k])
    BY <1>4, <2>0 DEF Sorted, Fixed, Floating
  <2>2. Code(k, x) = BigEndian(Flipped(SortableBits(bits, Widths[k]), Widths[k]), Widths[k])
    BY <1>4 DEF Code, Fixed, Floating, bits
  <2>3. SortableBits(bits, Widths[k]) \subseteq 0..Widths[k] - 1
    BY <1>1, <2>0, SortableBitsInverse
  <2>4. QED
    BY <1>1, <2>1, <2>2, <2>3, FlippedInverse
<1>5. QED
  BY <1>2, <1>3, <1>4 DEF Sortable

LEMMA CodeType ==
  ASSUME NEW k \in Kinds \ {"String"}, NEW x, x \subseteq 0..Widths[k] - 1
  PROVE  Code(k, x) \in Seq(Bytes)
<1>1. CASE k \in Fixed \cup Sortable
  <2>1. PICK m \in 1..8 : Widths[k] = 8 * m
    BY <1>1, WidthsAre
  <2>2. PICK y \in SUBSET (0..8 * m - 1) : Code(k, x) = BigEndian(y, 8 * m)
    BY <1>1, <2>1, SortedIs
  <2>3. m \in Nat
    OBVIOUS
  <2>4. QED
    BY <2>2, <2>3, BigEndianType
<1>2. CASE k = "VInt32"
  <2>1. x \subseteq 0..31 /\ Code(k, x) = VInt32(x)
    BY <1>2, WidthsAre DEF Code, Fixed, Floating
  <2>2. QED
    BY <2>1, VInt32Type
<1>3. CASE k = "ZInt32"
  <2>1. x \subseteq 0..31 /\ Code(k, x) = VInt32(ZigZagEncode(x))
    BY <1>3, WidthsAre DEF Code, Fixed, Floating
  <2>2. ZigZagEncode(x) \subseteq 0..31
    BY <2>1, ZigZagEncodes
  <2>3. QED
    BY <2>1, <2>2, VInt32Type
<1>4. CASE k = "VInt64"
  <2>1. x \subseteq 0..63 /\ Code(k, x) = Groups(x) /\ 63 \in Nat
    BY <1>4, WidthsAre DEF Code, Fixed, Floating
  <2>2. QED
    BY <2>1, GroupsType
<1>5. CASE k = "ZInt64"
  <2>1. x \subseteq 0..63 /\ Code(k, x) = Groups(ZigZagged64(x)) /\ 63 \in Nat
    BY <1>5, WidthsAre DEF Code, Fixed, Floating
  <2>2. ZigZagged64(x) \subseteq 0..63
    BY <2>1, ZigZagged64Type
  <2>3. QED
    BY <2>1, <2>2, GroupsType
<1>6. QED
  BY <1>1, <1>2, <1>3, <1>4, <1>5 DEF Kinds, Widths, Fixed, Sortable, Floating

LEMMA SubSeqIs ==
  ASSUME NEW S, NEW s \in Seq(S), NEW from \in Nat, NEW to \in Nat, from <= to, to <= Len(s)
  PROVE  /\ SubSeq(s, from + 1, to) \in Seq(S)
         /\ Len(SubSeq(s, from + 1, to)) = to - from
         /\ \A i \in 1..to - from : SubSeq(s, from + 1, to)[i] = s[from + i]
<1>1. \A i \in 1..to - from : from + i \in 1..Len(s) /\ (i + (from + 1)) - 1 = from + i
  OBVIOUS
<1>2. QED
  BY <1>1

LEMMA SeqsEqual ==
  ASSUME NEW S, NEW s \in Seq(S), NEW t \in Seq(S), Len(s) = Len(t),
         \A i \in 1..Len(s) : s[i] = t[i]
  PROVE  s = t
OBVIOUS

LEMMA ReadFixedInverse ==
  ASSUME NEW m \in Nat, NEW x, x \subseteq 0..8 * m - 1,
         NEW ahead, StartsWith(ahead, BigEndian(x, 8 * m))
  PROVE  /\ ReadFixed(ahead, 8 * m) = Result(x, Len(BigEndian(x, 8 * m)))
         /\ SubSeq(ahead, 1, m) = BigEndian(x, 8 * m)
<1> DEFINE code == BigEndian(x, 8 * m)
           head == SubSeq(ahead, 1, m)
<1>1. code \in Seq(Bytes) /\ Len(code) = m
  BY BigEndianType
<1>2. FromBigEndian(code) = x
  BY BigEndianInverse
<1> HIDE DEF code
<1>3. ahead \in Seq(Bytes) /\ m <= Len(ahead) /\ \A i \in 1..m : ahead[i] = code[i]
  BY <1>1 DEF StartsWith, code
<1>4. head \in Seq(Bytes) /\ Len(head) = m /\ \A i \in 1..m : head[i] = ahead[i]
  BY <1>3
<1> HIDE DEF head
<1>5. head = code
  BY <1>1, <1>3, <1>4, SeqsEqual
<1>6. (8 * m) \div 8 = m /\ ~(m > Len(ahead))
  BY <1>3
<1>7. ReadFixed(ahead, 8 * m) = Result(FromBigEndian(head), m)
  BY <1>6 DEF ReadFixed, head
<1>8. QED
  BY <1>1, <1>2, <1>5, <1>7 DEF code, head

LEMMA ReadNumber ==
  ASSUME NEW e, e.kind \in Kinds \ {"String"}, e.x \subseteq 0..Widths[e.kind] - 1,
         Kept(e), e.kind = "VInt64" => ~Negative(e.x, 64),
         NEW ahead, StartsWith(ahead, Code(e.kind, e.x))
  PROVE  Read(ahead, e.kind) = Result(Sent(e.kind, e.x), Len(Code(e.kind, e.x)))
<1> DEFINE k == e.kind
           x == e.x
           w == Widths[k]
           size == Len(Code(k, x))
           bits == Sent(k, x)
<1>1. \A v, n : Result(v, n).fails = FALSE /\ Result(v, n).value = v /\ Result(v, n).size = n
  BY DEF Result
<1>2. CASE k \in Fixed \cup Sortable
  <2>1. PICK m \in 1..8 : w = 8 * m
    BY <1>2, WidthsAre
  <2>2. Sorted(k, bits) \subseteq 0..8 * m - 1 /\ Code(k, x) = BigEndian(Sorted(k, bits), 8 * m)
    BY <1>2, <2>1, SortedIs
  <2>3. m \in Nat /\ w \in Nat \ {0} /\ bits \subseteq 0..w - 1
    <3>1. bits \subseteq 0..w - 1
      BY SentIs
    <3>2. QED
      BY <2>1, <3>1
  <2> HIDE DEF bits
  <2>4. ReadFixed(ahead, w) = Result(Sorted(k, bits), size)
    BY <2>1, <2>2, <2>3, ReadFixedInverse
  <2>5. CASE k \in Fixed
    <3>1. Read(ahead, k) = ReadFixed(ahead, w)
      BY <2>5 DEF Read, Fixed, Floating
    <3>2. Sorted(k, bits) = bits
      BY <2>5 DEF Sorted, Fixed, Floating
    <3>3. QED
      BY <2>4, <3>1, <3>2 DEF bits
  <2>6. CASE k \in {"SortableInt", "SortableLong"}
    <3>1. Read(ahead, k) = Wrap(ReadFixed(ahead, w), LAMBDA y : Flipped(y, w))
      BY <2>6 DEF Read, Fixed, Floating
    <3>2. Sorted(k, bits) = Flipped(bits, w)
      BY <2>6 DEF Sorted, Fixed, Floating
    <3>3. Flipped(Flipped(bits, w), w) = bits
      BY <2>3, FlippedInverse
    <3>4. QED
      BY <1>1, <2>4, <3>1, <3>2, <3>3 DEF Wrap, bits
  <2>7. CASE k \in Floating
    <3>1. Read(ahead, k) = Wrap(ReadFixed(ahead, w), LAMBDA y : SortableBits(Flipped(y, w), w))
      BY <2>7 DEF Read, Fixed, Floating
    <3>2. Sorted(k, bits) = Flipped(SortableBits(bits, w), w)
      BY <2>7 DEF Sorted, Fixed, Floating
    <3>3. Flipped(Flipped(SortableBits(bits, w), w), w) = SortableBits(bits, w)
      BY <2>3, SortableBitsInverse, FlippedInverse
    <3>4. SortableBits(SortableBits(bits, w), w) = bits
      BY <2>3, SortableBitsInverse
    <3>5. QED
      BY <1>1, <2>4, <3>1, <3>2, <3>3, <3>4 DEF Wrap, bits
  <2>8. QED
    BY <1>2, <2>5, <2>6, <2>7 DEF Sortable, bits
<1>b. k \notin Floating => Sent(k, x) = x
  BY DEF Sent
<1> HIDE DEF bits
<1>3. CASE k = "VInt32"
  <2>1. x \subseteq 0..31 /\ Code(k, x) = VInt32(x) /\ Read(ahead, k) = ReadVInt32(ahead)
    BY <1>3, WidthsAre DEF Code, Fixed, Floating, Read
  <2>2. 31 \notin x
    BY <1>3 DEF Kept, Negative
  <2>3. x \subseteq 0..30
    BY <2>1, <2>2
  <2>4. QED
    BY <1>b, <1>3, <2>1, <2>3, VInt32Inverse DEF Floating
<1>4. CASE k = "ZInt32"
  <2>1. x \subseteq 0..31 /\ Code(k, x) = VInt32(ZigZagEncode(x))
    BY <1>4, WidthsAre DEF Code, Fixed, Floating
  <2>2. Read(ahead, k) = Wrap(ReadVInt32(ahead), LAMBDA y : ZigZagDecode(y, 32))
    BY <1>4 DEF Fixed, Floating, Read
  <2>3. 30 \in x <=> 31 \in x
    BY <1>4 DEF Kept
  <2>4. ZigZagEncode(x) \subseteq 0..30 /\ ZigZagDecode(ZigZagEncode(x), 32) = x
    BY <2>1, <2>3, ZigZagInverse
  <2>5. ReadVInt32(ahead) = Result(ZigZagEncode(x), size)
    BY <2>1, <2>4, VInt32Inverse
  <2>6. QED
    BY <1>b, <1>1, <1>4, <2>2, <2>4, <2>5 DEF Wrap, Floating
<1>5. CASE k = "VInt64"
  <2>1. x \subseteq 0..63 /\ Code(k, x) = Groups(x) /\ Read(ahead, k) = ReadVInt64(ahead, FALSE)
    BY <1>5, WidthsAre DEF Code, Fixed, Floating, Read
  <2>2. 63 \notin x
    BY <1>5 DEF Negative
  <2>3. x \subseteq 0..62
    BY <2>1, <2>2
  <2>4. QED
    BY <1>b, <1>5, <2>1, <2>3, VInt64Inverse DEF Floating
<1>6. CASE k = "ZInt64"
  <2>1. x \subseteq 0..63 /\ Code(k, x) = Groups(ZigZagged64(x))
    BY <1>6, WidthsAre DEF Code, Fixed, Floating
  <2>2. Read(ahead, k) = Wrap(ReadVInt64(ahead, TRUE), LAMBDA y : ZigZagDecode(y, 64))
    BY <1>6 DEF Fixed, Floating, Read
  <2>3. x \cap 30..63 \in {{}, 30..63}
    BY <1>6 DEF Kept
  <2>4. ZigZagged64(x) \subseteq 0..30 /\ ZigZagDecode(ZigZagged64(x), 64) = x
    BY <2>1, <2>3, ZigZag64Inverse
  <2>5. ZigZagged64(x) \subseteq 0..62
    BY <2>4
  <2>6. ReadVInt64(ahead, TRUE) = Result(ZigZagged64(x), size)
    BY <2>1, <2>5, VInt64Inverse
  <2>7. ZigZagDecode(ZigZagged64(x), 64) = x
    BY <2>4
  <2>8. Wrap(Result(ZigZagged64(x), size), LAMBDA y : ZigZagDecode(y, 64)) = Result(x, size)
    BY <1>1, <2>7 DEF Wrap
  <2>9. QED
    BY <1>b, <1>6, <2>2, <2>6, <2>8 DEF Floating
<1>7. QED
  BY <1>2, <1>3, <1>4, <1>5, <1>6 DEF Kinds, Widths, Fixed, Sortable, Floating

LEMMA NotNegative ==
  ASSUME NEW x, x \subseteq 0..30
  PROVE  ~Negative(x, 32)
BY DEF Negative

LEMMA ReadStringInverse ==
  ASSUME NEW s \in Seq(Bytes), Len(s) <= MaxInt32,
         NEW ahead, StartsWith(ahead, VInt32(Binary(Len(s))) \o s)
  PROVE  /\ VInt32(Binary(Len(s))) \o s \in Seq(Bytes)
         /\ ReadString(ahead) = Result(s, Len(VInt32(Binary(Len(s))) \o s))
<1> DEFINE n == Len(s)
           c == VInt32(Binary(n))
           g == Len(c)
           head == SubSeq(ahead, g + 1, g + n)
<1>1. n \in 0..MaxInt32 /\ n \in Nat
  BY MaxInt32Is, SMT
<1>2. Binary(n) \subseteq 0..30 /\ Number(Binary(n)) = n
  BY <1>1, NumberInverse
<1>3. Binary(n) \subseteq 0..31
  BY <1>2
<1>4. c \in Seq(Bytes)
  BY <1>3, VInt32Type
<1> HIDE DEF n, c
<1>5. g \in Nat /\ c \o s \in Seq(Bytes) /\ Len(c \o s) = g + n
  BY <1>1, <1>4 DEF n
<1>6. \A i \in 1..g : (c \o s)[i] = c[i]
  BY <1>4
<1>7. \A i \in 1..n : (c \o s)[g + i] = s[i]
  BY <1>4 DEF n
<1>8. ahead \in Seq(Bytes) /\ g + n <= Len(ahead) /\ \A i \in 1..g + n : ahead[i] = (c \o s)[i]
  BY <1>5 DEF StartsWith, n, c
<1>9. StartsWith(ahead, c)
  <2>1. \A i \in 1..g : ahead[i] = c[i]
    BY <1>1, <1>5, <1>6, <1>8
  <2>2. Len(c) <= Len(ahead)
    BY <1>1, <1>5, <1>8
  <2>3. QED
    BY <1>8, <2>1, <2>2 DEF StartsWith
<1>10. ReadVInt32(ahead) = Result(Binary(n), g)
  BY <1>2, <1>9, VInt32Inverse DEF c
<1> DEFINE r == ReadVInt32(ahead)
<1>11. r.fails = FALSE /\ r.value = Binary(n) /\ r.size = g
  BY <1>10 DEF Result
<1> HIDE DEF r, g
<1>12. ~Negative(r.value, 32)
  <2>1. ~Negative(Binary(n), 32)
    BY <1>2, NotNegative
  <2>2. QED
    BY <1>11, <2>1
<1>13. ~(Number(r.value) > Len(ahead) - r.size)
  BY <1>1, <1>2, <1>5, <1>8, <1>11
<1>14. ReadString(ahead) = Result(SubSeq(ahead, g + 1, g + n), g + n)
  BY <1>2, <1>11, <1>12, <1>13 DEF ReadString, r
<1>15. head \in Seq(Bytes) /\ Len(head) = n /\ \A i \in 1..n : head[i] = ahead[g + i]
  <2>1. PICK from \in Nat, to \in Nat : from = g /\ to = g + n
    BY <1>1, <1>5
  <2>2. from <= to /\ to - from = n /\ to <= Len(ahead)
    BY <1>1, <1>5, <1>8, <2>1
  <2>3. ahead \in Seq(Bytes)
    BY <1>8
  <2>4. /\ SubSeq(ahead, from + 1, to) \in Seq(Bytes)
        /\ Len(SubSeq(ahead, from + 1, to)) = to - from
        /\ \A i \in 1..to - from : SubSeq(ahead, from + 1, to)[i] = ahead[from + i]
    BY <2>2, <2>3, SubSeqIs
  <2>5. QED
    BY <2>1, <2>2, <2>4
<1> HIDE DEF head
<1>16. \A i \in 1..n : head[i] = s[i]
  <2> TAKE i \in 1..n
  <2>1. g + i \in 1..g + n
    BY <1>1, <1>5
  <2>2. QED
    BY <1>7, <1>8, <1>15, <2>1
<1>17. head = s
  BY <1>15, <1>16, SeqsEqual DEF n
<1>18. QED
  BY <1>5, <1>14, <1>17 DEF n, c, g, head

(* What FromBigEndian has put together, BigEndian takes apart. *)
LEMMA FromBigEndianInverse ==
  ASSUME NEW m \in Nat, NEW bytes \in Seq(Bytes), Len(bytes) = m
  PROVE  /\ FromBigEndian(bytes) \subseteq 0..8 * m - 1
         /\ BigEndian(FromBigEndian(bytes), 8 * m) = bytes
<1> DEFINE x == FromBigEndian(bytes)
           piece(i) == Shifted(bytes[i], 8 * (m - i))
<1>1. \A i \in 1..m : bytes[i] \subseteq 0..7
  BY DEF Bytes
<1>2. x = UNION {piece(i) : i \in 1..m}
  <2>1. DOMAIN bytes = 1..m
    OBVIOUS
  <2>2. QED
    BY <2>1 DEF FromBigEndian
<1> HIDE DEF x
<1>3. \A i \in 1..m : /\ piece(i) \subseteq Nat
                      /\ \A b \in Nat : b \in piece(i) <=> b - 8 * (m - i) \in bytes[i]
  <2> TAKE i \in 1..m
  <2>1. bytes[i] \subseteq Nat /\ 8 * (m - i) \in Nat
    BY <1>1
  <2>2. QED
    BY <2>1, ShiftedIs
<1> HIDE DEF piece
<1>4. \A i \in 1..m : \A b \in piece(i) : b \in 8 * (m - i)..8 * (m - i) + 7
  <2> TAKE i \in 1..m
  <2> TAKE b \in piece(i)
  <2>1. b \in Nat /\ b - 8 * (m - i) \in 0..7
    BY <1>1, <1>3
  <2>2. QED
    BY <2>1
<1>5. \A i \in 1..m : \A b \in piece(i) : b \in 0..8 * m - 1 /\ i = m - (b \div 8)
  BY <1>4
<1>6. x \subseteq 0..8 * m - 1
  BY <1>2, <1>5
<1>7. \A i \in 1..m, b \in 0..7 : b \in bytes[i] <=> b + 8 * (m - i) \in x
  <2> TAKE i \in 1..m, b \in 0..7
  <2> DEFINE c == b + 8 * (m - i)
  <2>1. c \in Nat /\ c - 8 * (m - i) = b /\ i = m - (c \div 8)
    OBVIOUS
  <2> HIDE DEF c
  <2>2. b \in bytes[i] <=> c \in piece(i)
    BY <1>3, <2>1
  <2>3. c \in x => c \in piece(i)
    BY <1>2, <1>5, <2>1
  <2>4. c \in piece(i) => c \in x
    BY <1>2
  <2>5. QED
    BY <2>2, <2>3, <2>4 DEF c
<1> DEFINE code == BigEndian(x, 8 * m)
<1>8. code \in Seq(Bytes) /\ Len(code) = m
  BY <1>6, BigEndianType
<1>9. \A i \in 1..m : /\ code[i] \subseteq 0..7
                      /\ \A b \in 0..7 : b \in code[i] <=> b + 8 * (m - i) \in x
  BY <1>6, BigEndianType
<1> HIDE DEF code
<1>10. \A i \in 1..m : code[i] = bytes[i]
  BY <1>1, <1>7, <1>9
<1>11. code = bytes
  BY <1>8, <1>10, SeqsEqual
<1>12. QED
  BY <1>6, <1>11 DEF code, x

LEMMA ReadPositionalIs ==
  ASSUME NEW k \in Fixed, NEW x, x \subseteq 0..Widths[k] - 1,
         NEW ahead, StartsWith(ahead, Code(k, x))
  PROVE  \/ ReadPositional(ahead, k) = x
         \/ /\ k # "Int16"
            /\ BigEndian(ReadPositional(ahead, k), Widths[k]) = Reverse(BigEndian(x, Widths[k]))
<1>1. PICK m \in 1..8 : Widths[k] = 8 * m
  BY WidthsAre
<1> DEFINE code == BigEndian(x, 8 * m)
<1>2. m \in Nat /\ x \subseteq 0..8 * m - 1 /\ Code(k, x) = code
  BY <1>1 DEF Code, Fixed, Floating
<1>3. SubSeq(ahead, 1, m) = code
  BY <1>2, ReadFixedInverse
<1>4. ReadPositional(ahead, k) = FromBigEndian(IF k = "Int16" THEN code ELSE Reverse(code))
  <2>1. (8 * m) \div 8 = m
    OBVIOUS
  <2>2. QED
    BY <1>1, <1>3, <2>1 DEF ReadPositional
<1>5. CASE k = "Int16"
  BY <1>2, <1>4, <1>5, BigEndianInverse
<1>6. CASE k # "Int16"
  <2>1. code \in Seq(Bytes) /\ Len(code) = m
    BY <1>2, BigEndianType
  <2> HIDE DEF code
  <2>2. Reverse(code) \in Seq(Bytes) /\ Len(Reverse(code)) = m
    <3>1. Reverse(code) = [i \in 1..m |-> code[(m - i) + 1]]
      BY <2>1 DEF Reverse
    <3>2. \A i \in 1..m : code[(m - i) + 1] \in Bytes
      BY <2>1
    <3>3. Reverse(code) \in [1..m -> Bytes]
      BY <3>1, <3>2
    <3>4. QED
      BY <3>3
  <2>3. BigEndian(FromBigEndian(Reverse(code)), 8 * m) = Reverse(code)
    BY <2>2, FromBigEndianInverse
  <2>4. QED
    BY <1>1, <1>4, <1>6, <2>3 DEF code
<1>7. QED
  BY <1>5, <1>6

--------------------------------------------------------------------------------
(* Entries. *)
LEMMA CodeOfType ==
  ASSUME NEW e, e.kind \in Kinds, e.x \in Domain(e.kind)
  PROVE  CodeOf(e) \in Seq(Bytes)
<1>1. CASE e.kind = "String"
  <2>1. e.x \in Seq(Bytes) /\ Len(e.x) <= MaxInt32
    BY <1>1 DEF Domain
  <2>2. Len(e.x) \in 0..MaxInt32
    BY <2>1, MaxInt32Is, SMT
  <2>3. Binary(Len(e.x)) \subseteq 0..31
    BY BinaryType
  <2>4. VInt32(Binary(Len(e.x))) \in Seq(Bytes)
    BY <2>3, VInt32Type
  <2>5. VInt32(Binary(Len(e.x))) \o e.x \in Seq(Bytes)
    BY <2>1, <2>4
  <2>6. QED
    BY <1>1, <2>5 DEF CodeOf
<1>2. CASE e.kind # "String"
  <2>1. e.x \subseteq 0..Widths[e.kind] - 1 /\ CodeOf(e) = Code(e.kind, e.x)
    BY <1>2 DEF Domain, CodeOf
  <2>2. QED
    BY <1>2, <2>1, CodeType
<1>3. QED
  BY <1>1, <1>2

LEMMA ReadEntry ==
  ASSUME NEW e, e.kind \in Kinds, e.x \in Domain(e.kind), Kept(e),
         e.kind = "VInt64" => ~Negative(e.x, 64),
         NEW ahead, StartsWith(ahead, CodeOf(e))
  PROVE  Read(ahead, e.kind) = Result(Sent(e.kind, e.x), Len(CodeOf(e)))
<1>1. CASE e.kind = "String"
  <2>1. e.x \in Seq(Bytes) /\ Len(e.x) <= MaxInt32
    BY <1>1 DEF Domain
  <2>2. CodeOf(e) = VInt32(Binary(Len(e.x))) \o e.x
    BY <1>1 DEF CodeOf
  <2>3. ReadString(ahead) = Result(e.x, Len(CodeOf(e)))
    BY <2>1, <2>2, ReadStringInverse
  <2>4. Read(ahead, e.kind) = ReadString(ahead)
    BY <1>1 DEF Read, Fixed, Floating
  <2>5. Sent(e.kind, e.x) = e.x
    BY <1>1 DEF Sent, Floating
  <2>6. QED
    BY <2>3, <2>4, <2>5
<1>2. CASE e.kind # "String"
  <2>1. e.x \subseteq 0..Widths[e.kind] - 1 /\ CodeOf(e) = Code(e.kind, e.x)
    BY <1>2 DEF Domain, CodeOf
  <2>2. QED
    BY <1>2, <2>1, ReadNumber
<1>3. QED
  BY <1>1, <1>2

LEMMA AppendedTwice ==
  ASSUME NEW o, IsOutput(o), NEW p, NEW q, NEW c \in Seq(Bytes), NEW d \in Seq(Bytes),
         Appended(o, p, c), Appended(p, q, d)
  PROVE  Appended(o, q, c \o d)
<1>1. o.length \in Nat /\ Len(c) \in Nat /\ Len(d) \in Nat
  BY DEF IsOutput
<1>2. /\ p.length = o.length + Len(c)
      /\ \A i \in 1..o.length : p.bytes[i] = o.bytes[i]
      /\ \A j \in 1..Len(c) : p.bytes[o.length + j] = c[j]
  BY DEF Appended
<1>3. /\ q.length = p.length + Len(d)
      /\ \A i \in 1..p.length : q.bytes[i] = p.bytes[i]
      /\ \A j \in 1..Len(d) : q.bytes[p.length + j] = d[j]
      /\ IsOutput(q)
  BY DEF Appended
<1>4. Len(c \o d) = Len(c) + Len(d)
  OBVIOUS
<1>5. \A i \in 1..Len(c) : (c \o d)[i] = c[i]
  OBVIOUS
<1>6. \A j \in 1..Len(d) : (c \o d)[Len(c) + j] = d[j]
  OBVIOUS
<1>7. q.length = o.length + Len(c \o d)
  BY <1>1, <1>2, <1>3, <1>4
<1>8. \A i \in 1..o.length : q.bytes[i] = o.bytes[i]
  BY <1>1, <1>2, <1>3
<1>9. \A j \in 1..Len(c \o d) : q.bytes[o.length + j] = (c \o d)[j]
  <2> TAKE j \in 1..Len(c \o d)
  <2>1. CASE j \in 1..Len(c)
    <3>1. o.length + j \in 1..p.length
      BY <1>1, <1>2, <2>1
    <3>2. q.bytes[o.length + j] = p.bytes[o.length + j]
      BY <1>3, <3>1
    <3>3. QED
      BY <1>2, <1>5, <2>1, <3>2
  <2>2. CASE j \notin 1..Len(c)
    <3>1. j - Len(c) \in 1..Len(d) /\ Len(c) + (j - Len(c)) = j
      BY <1>1, <1>4, <2>2
    <3>2. p.length + (j - Len(c)) = o.length + j
      BY <1>1, <1>2, <3>1
    <3>3. q.bytes[o.length + j] = d[j - Len(c)]
      BY <1>3, <3>1, <3>2
    <3>4. (c \o d)[j] = d[j - Len(c)]
      BY <1>6, <3>1
    <3>5. QED
      BY <3>3, <3>4
  <2>3. QED
    BY <2>1, <2>2
<1>10. QED
  BY <1>3, <1>7, <1>8, <1>9 DEF Appended

LEMMA WriteAppends ==
  ASSUME NEW o, IsOutput(o), NEW e, e.kind \in Kinds, e.x \in Domain(e.kind)
  PROVE  Appended(o, Write(o, e.kind, e.x), CodeOf(e))
<1>1. CodeOf(e) \in Seq(Bytes)
  BY CodeOfType
<1>2. CASE e.kind = "String"
  <2> DEFINE c == VInt32(Binary(Len(e.x)))
  <2>1. e.x \in Seq(Bytes) /\ Len(e.x) <= MaxInt32
    BY <1>2 DEF Domain
  <2>2. Len(e.x) \in 0..MaxInt32
    BY <2>1, MaxInt32Is, SMT
  <2>3. Binary(Len(e.x)) \subseteq 0..31
    BY BinaryType
  <2>4. c \in Seq(Bytes)
    BY <2>3, VInt32Type
  <2>5. CodeOf(e) = c \o e.x /\ Write(o, e.kind, e.x) = WriteBytes(WriteEach(o, c), e.x)
    BY <1>2 DEF CodeOf, Write, VariableLength, Fixed, Sortable, Floating
  <2> HIDE DEF c
  <2>6. Appended(o, WriteEach(o, c), c)
    BY <2>4, WriteEachAppends
  <2>7. IsOutput(WriteEach(o, c))
    BY <2>6 DEF Appended
  <2>8. Appended(WriteEach(o, c), WriteBytes(WriteEach(o, c), e.x), e.x)
    BY <2>1, <2>7, WriteBytesAppends
  <2>9. QED
    BY <2>1, <2>4, <2>5, <2>6, <2>8, AppendedTwice
<1>3. CASE e.kind \in VariableLength
  <2>1. CodeOf(e) = Code(e.kind, e.x) /\ Write(o, e.kind, e.x) = WriteEach(o, Code(e.kind, e.x))
    BY <1>3 DEF CodeOf, Write, VariableLength, Fixed, Sortable, Floating
  <2>2. QED
    BY <1>1, <2>1, WriteEachAppends
<1>4. CASE e.kind \in Fixed \cup Sortable
  <2>1. CodeOf(e) = Code(e.kind, e.x) /\ Write(o, e.kind, e.x) = WriteBytes(o, Code(e.kind, e.x))
    BY <1>4 DEF CodeOf, Write, VariableLength, Fixed, Floating, Sortable
  <2>2. QED
    BY <1>1, <2>1, WriteBytesAppends
<1>5. QED
  BY <1>2, <1>3, <1>4 DEF Kinds, Widths, VariableLength, Fixed, Sortable, Floating

LEMMA WrittenIs ==
  ASSUME OutputInv, NEW from \in Nat, from <= out.length
  PROVE  /\ Written(from) \in Seq(Bytes)
         /\ Len(Written(from)) = out.length - from
         /\ \A i \in 1..out.length - from : Written(from)[i] = out.bytes[from + i]
<1>1. /\ out.bytes \in Seq({Junk} \cup Bytes) /\ out.length \in Nat /\ Len(out.bytes) \in Nat
      /\ out.length <= Len(out.bytes)
  BY DEF OutputInv
<1>2. \A i \in 1..out.length : out.bytes[i] \in Bytes
  BY DEF OutputInv
<1> DEFINE end == IF out.length < Len(out.bytes) THEN out.length ELSE Len(out.bytes)
           junk == {i \in from + 1..end : out.bytes[i] = Junk}
<1>3. end = out.length
  BY <1>1
<1>4. junk = {}
  BY <1>1, <1>2, <1>3, EncodingsAssumption
<1>5. Min(junk \cup {end + 1}) = out.length + 1
  <2> DEFINE S == {out.length + 1}
  <2>1. S \subseteq Nat /\ S # {}
    BY <1>1
  <2>2. Min(S) \in S
    BY <2>1, MinIs
  <2>3. junk \cup {end + 1} = S
    BY <1>3, <1>4
  <2> HIDE DEF junk, end
  <2>4. QED
    BY <2>2, <2>3
<1>6. Written(from) = SubSeq(out.bytes, from + 1, out.length)
  <2>1. Written(from) = SubSeq(out.bytes, from + 1, Min(junk \cup {end + 1}) - 1)
    BY DEF Written
  <2>2. (out.length + 1) - 1 = out.length
    BY <1>1
  <2> HIDE DEF junk, end
  <2>3. QED
    BY <1>5, <2>1, <2>2
<1> DEFINE w == SubSeq(out.bytes, from + 1, out.length)
<1>7. /\ w \in Seq({Junk} \cup Bytes) /\ Len(w) = out.length - from
      /\ \A i \in 1..out.length - from : w[i] = out.bytes[from + i]
  BY <1>1, SubSeqIs
<1>8. \A i \in 1..out.length - from : from + i \in 1..out.length
  BY <1>1
<1> HIDE DEF w
<1>9. \A i \in 1..Len(w) : w[i] \in Bytes
  BY <1>2, <1>7, <1>8
<1>10. w \in Seq(Bytes)
  BY <1>7, <1>9
<1>11. QED
  BY <1>6, <1>7, <1>10 DEF w

--------------------------------------------------------------------------------
(* The invariant. *)
LEMMA EndlessNotKept ==
  ASSUME NEW e, e.x \in Domain(e.kind), Endless(e)
  PROVE  ~Kept(e)
<1>1. e.kind = "ZInt64" /\ 63 \in ZigZagged64(e.x)
  BY DEF Endless, Negative
<1>2. e.x \subseteq 0..63
  BY <1>1, WidthsAre DEF Domain
<1>3. SUFFICES ASSUME Kept(e) PROVE FALSE
  OBVIOUS
<1>4. e.x \cap 30..63 \in {{}, 30..63}
  BY <1>1, <1>3 DEF Kept
<1>5. ZigZagged64(e.x) \subseteq 0..30
  BY <1>2, <1>4, ZigZag64Inverse
<1>6. QED
  BY <1>1, <1>5

LEMMA PlacedIs ==
  ASSUME OutputInv, EntriesInv, NEW i \in DOMAIN entries
  PROVE  LET e == entries[i] IN
         /\ e.kind \in Kinds /\ e.x \in Domain(e.kind) /\ CodeOf(e) \in Seq(Bytes)
         /\ e.kind = "VInt64" => ~Negative(e.x, 64)
         /\ e.from \in Nat /\ e.to \in Nat
         /\ e.from = EndOf(i - 1) /\ e.from <= e.to /\ e.to <= out.length
         /\ Endless(e) => phase = "stopped"
         /\ ~Endless(e) => /\ e.to = e.from + Len(CodeOf(e))
                           /\ \A j \in 1..Len(CodeOf(e)) : out.bytes[e.from + j] = CodeOf(e)[j]
                           /\ StartsWith(Written(e.from), CodeOf(e))
<1> DEFINE e == entries[i]
<1>1. Placed(i)
  BY DEF EntriesInv
<1>2. /\ e.kind \in Kinds /\ e.x \in Inputs[e.kind] /\ e.from \in Nat /\ e.to \in Nat
      /\ e.kind = "VInt64" => ~Negative(e.x, 64)
      /\ e.from = EndOf(i - 1) /\ e.from <= e.to /\ e.to <= out.length
      /\ Endless(e) => phase = "stopped"
      /\ ~Endless(e) => /\ e.to = e.from + Len(CodeOf(e))
                        /\ \A j \in DOMAIN CodeOf(e) : out.bytes[e.from + j] = CodeOf(e)[j]
  BY <1>1 DEF Placed
<1> HIDE DEF e
<1>3. e.x \in Domain(e.kind)
  BY <1>2, EncodingsAssumption
<1>4. CodeOf(e) \in Seq(Bytes)
  BY <1>2, <1>3, CodeOfType
<1> DEFINE c == CodeOf(e)
<1>5. Len(c) \in Nat /\ DOMAIN c = 1..Len(c)
  BY <1>4
<1>6. out.length \in Nat
  BY DEF OutputInv
<1>7. ASSUME ~Endless(e) PROVE StartsWith(Written(e.from), c)
  <2>1. e.to = e.from + Len(c) /\ \A j \in 1..Len(c) : out.bytes[e.from + j] = c[j]
    BY <1>2, <1>5, <1>7
  <2>2. e.from <= out.length /\ Len(c) <= out.length - e.from
    BY <1>2, <1>5, <1>6, <2>1
  <2>3. /\ Written(e.from) \in Seq(Bytes)
        /\ Len(Written(e.from)) = out.length - e.from
        /\ \A j \in 1..out.length - e.from : Written(e.from)[j] = out.bytes[e.from + j]
    BY <1>2, <2>2, WrittenIs
  <2> HIDE DEF c
  <2>4. \A j \in 1..Len(c) : j \in 1..out.length - e.from
    BY <1>2, <1>5, <1>6, <2>2
  <2>5. QED
    BY <2>1, <2>2, <2>3, <2>4 DEF StartsWith
<1>8. QED
  BY <1>2, <1>3, <1>4, <1>5, <1>7 DEF e

LEMMA SeqDef ==
  ASSUME NEW S, NEW s \in Seq(S)
  PROVE  \E n \in Nat : s \in [1..n -> S]
OBVIOUS

LEMMA AppendToSeq ==
  ASSUME NEW S, NEW s \in Seq(S), NEW e \in S
  PROVE  /\ Len(Append(s, e)) = Len(s) + 1
         /\ Append(s, e) = [i \in 1..Len(s) + 1 |-> Append(s, e)[i]]
         /\ \A i \in 1..Len(s) : Append(s, e)[i] = s[i]
         /\ Append(s, e)[Len(s) + 1] = e
<1>1. Append(s, e) \in Seq(S) /\ Len(Append(s, e)) = Len(s) + 1
  OBVIOUS
<1>2. \A i \in 1..Len(s) : Append(s, e)[i] = s[i]
  OBVIOUS
<1>3. Append(s, e)[Len(s) + 1] = e
  OBVIOUS
<1> DEFINE t == Append(s, e)
<1> HIDE DEF t
<1>4. t = [i \in 1..Len(t) |-> t[i]]
  <2>1. t \in Seq(S)
    BY <1>1 DEF t
  <2>2. PICK n \in Nat : t \in [1..n -> S]
    BY <2>1, SeqDef
  <2>3. t = [i \in 1..n |-> t[i]] /\ Len(t) = n
    BY <2>2
  <2>4. QED
    BY <2>3
<1>5. QED
  BY <1>1, <1>2, <1>3, <1>4 DEF t

LEMMA AppendIs ==
  ASSUME NEW s, Len(s) \in Nat, s = [i \in 1..Len(s) |-> s[i]], NEW e
  PROVE  /\ Len(Append(s, e)) = Len(s) + 1
         /\ Append(s, e) = [i \in 1..Len(s) + 1 |-> Append(s, e)[i]]
         /\ \A i \in 1..Len(s) : Append(s, e)[i] = s[i]
         /\ Append(s, e)[Len(s) + 1] = e
<1> DEFINE n == Len(s)
           S == {s[i] : i \in 1..n} \cup {e}
<1>1. s \in [1..n -> S]
  OBVIOUS
<1>2. s \in Seq(S) /\ e \in S
  BY <1>1
<1> HIDE DEF S
<1>3. QED
  BY <1>2, AppendToSeq

LEMMA EncodingsInitInv ==
  EncodingsInit => EncodingsInv
<1> SUFFICES ASSUME EncodingsInit PROVE EncodingsInv
  OBVIOUS
<1>1. PICK n \in Capacities : out = [bytes |-> [i \in 1..n |-> Junk], length |-> 0]
  BY DEF EncodingsInit
<1>2. entries = <<>> /\ phase = "writing" /\ pos = 0 /\ read = 0 /\ got = Nothing
  BY DEF EncodingsInit
<1>3. n \in Nat
  BY EncodingsAssumption
<1>4. OutputInv
  <2>1. [i \in 1..n |-> Junk] \in [1..n -> {Junk} \cup Bytes]
    OBVIOUS
  <2>2. out.bytes \in Seq({Junk} \cup Bytes) /\ Len(out.bytes) = n
    BY <1>1, <1>3, <2>1
  <2>3. QED
    BY <1>1, <1>3, <2>2 DEF OutputInv
<1>5. EntriesInv
  BY <1>1, <1>2 DEF EntriesInv, EndOf
<1>6. ReadInv
  BY <1>2 DEF ReadInv, EndOf, Nothing
<1>7. ReadsGiveBack
  BY <1>2 DEF ReadsGiveBack, Nothing
<1>8. QED
  BY <1>4, <1>5, <1>6, <1>7 DEF EncodingsInv

(* One entry more, and maybe more bytes, while writing. *)
LEMMA EntryAppended ==
  ASSUME EncodingsInv, phase = "writing", phase' \in {"writing", "stopped"},
         UNCHANGED <<pos, read, got>>,
         NEW e, entries' = Append(entries, e),
         e.kind \in Kinds, e.x \in Inputs[e.kind], e.kind = "VInt64" => ~Negative(e.x, 64),
         e.from = out.length, e.to = out'.length,
         Endless(e) <=> phase' = "stopped",
         Endless(e) => UNCHANGED out,
         ~Endless(e) => Appended(out, out', CodeOf(e))
  PROVE  EncodingsInv'
<1>1. OutputInv /\ EntriesInv /\ ReadInv /\ ReadsGiveBack
  BY DEF EncodingsInv
<1>2. PICK n \in Nat : n = Len(entries) /\ entries = [i \in 1..n |-> entries[i]]
  BY <1>1 DEF EntriesInv
<1> DEFINE m == n + 1
<1>3. /\ Len(entries') = n + 1
      /\ entries' = [i \in 1..n + 1 |-> entries'[i]]
      /\ \A i \in 1..n : entries'[i] = entries[i]
      /\ entries'[n + 1] = e
  BY <1>2, AppendIs
<1>a. m \in Nat /\ m - 1 = n /\ 1..m = 1..n \cup {m}
  BY <1>2
<1>b. /\ Len(entries') = m /\ entries' = [i \in 1..m |-> entries'[i]] /\ entries'[m] = e
      /\ \A i \in 1..n : entries'[i] = entries[i]
  BY <1>3
<1>c. \A i \in 1..n : entries'[i] = entries[i]
  BY <1>3
<1> HIDE DEF m
<1>4. IsOutput(out)
  BY <1>1 DEF OutputInv, IsOutput, Cells
<1>5. CodeOf(e) \in Seq(Bytes)
  BY EncodingsAssumption, CodeOfType
<1>6. /\ IsOutput(out') /\ out.length \in Nat /\ out'.length \in Nat /\ out.length <= out'.length
      /\ \A i \in 1..out.length : out'.bytes[i] = out.bytes[i]
  <2>1. CASE Endless(e)
    BY <1>4, <2>1 DEF IsOutput
  <2>2. CASE ~Endless(e)
    <3>1. Appended(out, out', CodeOf(e))
      BY <2>2
    <3>2. /\ IsOutput(out') /\ out'.length = out.length + Len(CodeOf(e))
          /\ \A i \in 1..out.length : out'.bytes[i] = out.bytes[i]
      BY <3>1 DEF Appended
    <3>3. out.length \in Nat /\ Len(CodeOf(e)) \in Nat
      BY <1>4, <1>5 DEF IsOutput
    <3>4. QED
      BY <3>2, <3>3
  <2>3. QED
    BY <2>1, <2>2
<1>7. OutputInv'
  BY <1>6 DEF OutputInv, IsOutput, Cells
<1>8. \A i \in 0..n : EndOf(i)' = EndOf(i)
  <2> TAKE i \in 0..n
  <2>1. CASE i = 0
    BY <2>1 DEF EndOf
  <2>2. CASE i \in 1..n
    <3>1. entries'[i] = entries[i]
      BY <1>c, <2>2
    <3>2. i # 0
      BY <2>2
    <3>3. QED
      BY <3>1, <3>2 DEF EndOf
  <2>3. QED
    BY <2>1, <2>2
<1>9. EndOf(n) = out.length
  BY <1>1, <1>2 DEF EntriesInv
<1>10. DOMAIN entries = 1..n /\ DOMAIN entries' = 1..m
  BY <1>2, <1>b
<1>11. ASSUME NEW i \in 1..n PROVE Placed(i)'
  <2> DEFINE d == entries[i]
  <2>1. Placed(i) /\ i - 1 \in 0..n /\ entries'[i] = d
    BY <1>1, <1>2, <1>b, <1>10 DEF EntriesInv
  <2>2. /\ d.kind \in Kinds /\ d.x \in Inputs[d.kind] /\ d.from \in Nat /\ d.to \in Nat
        /\ d.kind = "VInt64" => ~Negative(d.x, 64)
        /\ d.from = EndOf(i - 1) /\ d.from <= d.to /\ d.to <= out.length
        /\ ~Endless(d)
        /\ d.to = d.from + Len(CodeOf(d))
        /\ \A j \in DOMAIN CodeOf(d) : out.bytes[d.from + j] = CodeOf(d)[j]
    BY <2>1 DEF Placed
  <2> HIDE DEF d
  <2>3. CodeOf(d) \in Seq(Bytes)
    BY <2>2, EncodingsAssumption, CodeOfType
  <2>4. \A j \in DOMAIN CodeOf(d) : d.from + j \in 1..out.length
    BY <1>6, <2>2, <2>3
  <2>5. \A j \in DOMAIN CodeOf(d) : out'.bytes[d.from + j] = CodeOf(d)[j]
    BY <1>6, <2>2, <2>4
  <2>6. d.from = EndOf(i - 1)' /\ d.to <= out'.length
    BY <1>6, <1>8, <2>1, <2>2
  <2>7. QED
    BY <2>1, <2>2, <2>5, <2>6 DEF Placed
<1>12. Placed(m)'
  <2>1. m - 1 = n /\ e.from = EndOf(m - 1)'
    <3>1. n \in 0..n /\ EndOf(n)' = EndOf(n)
      BY <1>2, <1>8
    <3>2. QED
      BY <1>a, <1>9, <3>1
  <2>2. CASE Endless(e)
    BY <1>b, <1>6, <2>1, <2>2 DEF Placed
  <2>3. CASE ~Endless(e)
    <3>1. out'.length = out.length + Len(CodeOf(e))
      BY <2>3 DEF Appended
    <3>2. \A j \in 1..Len(CodeOf(e)) : out'.bytes[out.length + j] = CodeOf(e)[j]
      BY <2>3 DEF Appended
    <3>3. \A j \in DOMAIN CodeOf(e) : out'.bytes[e.from + j] = CodeOf(e)[j]
      BY <1>5, <3>2
    <3>4. /\ e.from \in Nat /\ e.to \in Nat /\ e.from <= e.to /\ e.to <= out'.length
          /\ e.to = e.from + Len(CodeOf(e))
      BY <1>6, <3>1
    <3>5. entries'[m] = e
      BY <1>b
    <3>6. QED
      BY <2>1, <2>3, <3>3, <3>4, <3>5 DEF Placed
  <2>4. QED
    BY <2>2, <2>3
<1>13. EndOf(m)' = out'.length
  BY <1>2, <1>a, <1>b DEF EndOf
<1>14. EntriesInv'
  <2>1. \A i \in DOMAIN entries' : Placed(i)'
    BY <1>a, <1>10, <1>11, <1>12
  <2>2. Len(entries') \in Nat
    BY <1>a, <1>b
  <2>3. QED
    BY <1>b, <1>13, <2>1, <2>2 DEF EntriesInv
<1>15. read = 0 /\ pos = 0 /\ got = Nothing
  BY <1>1 DEF ReadInv
<1>16. ReadInv'
  BY <1>2, <1>a, <1>b, <1>15 DEF ReadInv, EndOf, Nothing
<1>17. ReadsGiveBack'
  <2>1. got'.entry = 0
    BY <1>15 DEF Nothing
  <2>2. phase' = "stopped" => ~Kept(entries'[m]) /\ m \in DOMAIN entries'
    <3>1. e.x \in Domain(e.kind)
      BY EncodingsAssumption
    <3>2. phase' = "stopped" => ~Kept(e)
      BY <3>1, EndlessNotKept
    <3>3. QED
      BY <1>2, <1>a, <1>b, <1>10, <3>2
  <2>3. QED
    BY <2>1, <2>2 DEF ReadsGiveBack
<1>18. QED
  BY <1>7, <1>14, <1>16, <1>17 DEF EncodingsInv

LEMMA WriteEntryInv ==
  ASSUME EncodingsInv, NEW k \in Kinds, NEW x \in Inputs[k], WriteEntry(k, x)
  PROVE  EncodingsInv'
<1>0. PICK e : e = [kind |-> k, x |-> x, from |-> out.length, to |-> out'.length]
  OBVIOUS
<1>1. /\ phase = "writing" /\ phase' = phase /\ UNCHANGED <<pos, read, got>>
      /\ entries' = Append(entries, e)
      /\ out' = Write(out, k, x)
      /\ k = "VInt64" => ~Negative(x, 64)
      /\ k = "ZInt64" => ~Negative(ZigZagged64(x), 64)
  BY <1>0 DEF WriteEntry
<1>2. e.kind = k /\ e.x = x /\ e.from = out.length /\ e.to = out'.length
  BY <1>0
<1>3. x \in Domain(k) /\ IsOutput(out)
  BY EncodingsAssumption DEF EncodingsInv, OutputInv, IsOutput, Cells
<1>4. Appended(out, out', CodeOf(e))
  BY <1>1, <1>2, <1>3, WriteAppends
<1>5. ~Endless(e)
  BY <1>1, <1>2 DEF Endless
<1>6. QED
  BY <1>1, <1>2, <1>4, <1>5, EntryAppended

LEMMA WriteForeverInv ==
  ASSUME EncodingsInv, NEW x \in Inputs["ZInt64"], WriteForever(x)
  PROVE  EncodingsInv'
<1>0. PICK e : e = [kind |-> "ZInt64", x |-> x, from |-> out.length, to |-> out.length]
  OBVIOUS
<1>1. /\ phase = "writing" /\ phase' = "stopped" /\ UNCHANGED <<out, pos, read, got>>
      /\ entries' = Append(entries, e)
      /\ Negative(ZigZagged64(x), 64)
  BY <1>0 DEF WriteForever
<1>2. e.kind = "ZInt64" /\ e.x = x /\ e.from = out.length /\ e.to = out'.length
  BY <1>0, <1>1
<1>3. "ZInt64" \in Kinds
  BY DEF Kinds, Widths
<1>4. Endless(e)
  BY <1>1, <1>2 DEF Endless
<1>5. QED
  BY <1>1, <1>2, <1>3, <1>4, EntryAppended

LEMMA EntriesStay ==
  ASSUME OutputInv, EntriesInv, UNCHANGED <<out, entries>>,
         phase = "stopped" => phase' = "stopped"
  PROVE  OutputInv' /\ EntriesInv'
<1>1. OutputInv'
  BY DEF OutputInv
<1>2. \A i : EndOf(i)' = EndOf(i)
  BY DEF EndOf
<1>3. ASSUME NEW i \in DOMAIN entries PROVE Placed(i)'
  <2>1. Placed(i)
    BY DEF EntriesInv
  <2>2. EndOf(i - 1)' = EndOf(i - 1)
    BY <1>2
  <2>3. QED
    BY <2>1, <2>2 DEF Placed
<1>4. EndOf(Len(entries))' = EndOf(Len(entries))
  BY DEF EndOf
<1>5. EntriesInv'
  BY <1>3, <1>4 DEF EntriesInv
<1>6. QED
  BY <1>1, <1>5

LEMMA OpenInv ==
  ASSUME EncodingsInv, Open
  PROVE  EncodingsInv'
<1>1. OutputInv /\ EntriesInv /\ ReadInv /\ ReadsGiveBack
  BY DEF EncodingsInv
<1>2. phase = "writing" /\ phase' = "reading" /\ UNCHANGED <<out, entries, pos, read, got>>
  BY DEF Open
<1>3. OutputInv' /\ EntriesInv'
  BY <1>1, <1>2, EntriesStay
<1>4. ReadInv'
  BY <1>1, <1>2 DEF ReadInv, EndOf
<1>5. got.entry = 0
  BY <1>1, <1>2 DEF ReadInv, Nothing
<1>6. ReadsGiveBack'
  BY <1>2, <1>5 DEF ReadsGiveBack
<1>7. QED
  BY <1>3, <1>4, <1>6 DEF EncodingsInv

LEMMA ReadNextInv ==
  ASSUME EncodingsInv, ReadNext
  PROVE  EncodingsInv'
<1>1. OutputInv /\ EntriesInv /\ ReadInv /\ ReadsGiveBack
  BY DEF EncodingsInv
<1>2. phase = "reading" /\ read < Len(entries) /\ UNCHANGED <<out, entries>>
  BY DEF ReadNext
<1>3. PICK n : n = read + 1
  OBVIOUS
<1>4. read \in Nat /\ n \in DOMAIN entries /\ DOMAIN entries = 1..Len(entries)
      /\ Len(entries) \in Nat
  BY <1>1, <1>2, <1>3 DEF ReadInv, EntriesInv
<1>5. PICK e : e = entries[n]
  OBVIOUS
<1> DEFINE r == Read(Written(pos), e.kind)
           AllKept(m) == \A i \in 1..m : Kept(entries[i])
<1>6. IF r.fails
      THEN phase' = "stopped" /\ UNCHANGED <<pos, read, got>>
      ELSE /\ pos' = pos + r.size /\ read' = n /\ UNCHANGED phase
           /\ got' = [entry |-> n, value |-> r.value, ordered |-> TRUE]
  BY <1>3, <1>5 DEF ReadNext
<1>7. /\ e.kind \in Kinds /\ e.x \in Domain(e.kind) /\ CodeOf(e) \in Seq(Bytes)
      /\ e.kind = "VInt64" => ~Negative(e.x, 64)
      /\ e.from = EndOf(n - 1)
      /\ e.to = e.from + Len(CodeOf(e))
      /\ StartsWith(Written(e.from), CodeOf(e))
  BY <1>1, <1>2, <1>4, <1>5, PlacedIs
<1>8. n - 1 = read /\ n # 0
  BY <1>3, <1>4
<1>9. AllKept(read) => pos = e.from
  BY <1>1, <1>7, <1>8 DEF ReadInv
<1>10. ASSUME AllKept(n)
       PROVE  r.fails = FALSE /\ Alike(e.kind, r.value, e.x) /\ pos + r.size = e.to
  <2>1. \A i \in 1..read : i \in 1..n
    BY <1>3, <1>4
  <2>2. AllKept(read) /\ Kept(e)
    BY <1>4, <1>5, <1>10, <2>1
  <2>3. pos = e.from
    BY <1>9, <2>2
  <2>4. r = Result(Sent(e.kind, e.x), Len(CodeOf(e)))
    BY <1>7, <2>2, <2>3, ReadEntry
  <2>5. e.kind \in Floating => e.x \subseteq 0..Widths[e.kind] - 1
    BY <1>7 DEF Domain, Floating
  <2>6. Alike(e.kind, Sent(e.kind, e.x), e.x)
    BY <2>5, SentIs
  <2>7. QED
    BY <1>7, <2>3, <2>4, <2>6 DEF Result
<1> HIDE DEF r
<1>11. OutputInv' /\ EntriesInv'
  BY <1>1, <1>2, EntriesStay
<1>12. CASE r.fails
  <2>1. phase' = "stopped" /\ UNCHANGED <<pos, read, got>>
    BY <1>6, <1>12
  <2>2. ~AllKept(n)
    BY <1>10, <1>12
  <2>3. \E i \in DOMAIN entries : ~Kept(entries[i])
    BY <1>4, <2>2
  <2>4. ReadInv'
    BY <1>1, <1>2, <2>1 DEF ReadInv, EndOf
  <2>5. ReadsGiveBack'
    BY <1>1, <1>2, <2>1, <2>3 DEF ReadsGiveBack
  <2>6. QED
    BY <1>11, <2>4, <2>5 DEF EncodingsInv
<1>13. CASE ~r.fails
  <2>1. /\ pos' = pos + r.size /\ read' = n /\ phase' = "reading"
        /\ got'.entry = n /\ got'.value = r.value /\ got'.ordered = TRUE
    BY <1>2, <1>6, <1>13
  <2>2. AllKept(n) => pos' = e.to /\ Alike(e.kind, got'.value, e.x)
    BY <1>10, <2>1
  <2>3. ReadInv'
    <3>1. read' \in 0..Len(entries') /\ got'.entry \in 0..Len(entries')
      BY <1>2, <1>4, <2>1
    <3>2. AllKept(n)' => AllKept(n)
      BY <1>2
    <3>3. EndOf(read)' = e.to
      BY <1>2, <1>5, <1>8, <2>1 DEF EndOf
    <3>4. (\A i \in 1..read' : Kept(entries'[i])) => pos' = EndOf(read)'
      BY <1>2, <2>1, <2>2, <3>3
    <3>5. QED
      BY <2>1, <3>1, <3>4 DEF ReadInv
  <2>4. ReadsGiveBack'
    BY <1>2, <1>5, <2>1, <2>2 DEF ReadsGiveBack
  <2>5. QED
    BY <1>11, <2>3, <2>4 DEF EncodingsInv
<1>14. QED
  BY <1>12, <1>13

LEMMA ReadAtInv ==
  ASSUME EncodingsInv, NEW i \in DOMAIN entries, ReadAt(i)
  PROVE  EncodingsInv'
<1>1. OutputInv /\ EntriesInv /\ ReadInv /\ ReadsGiveBack
  BY DEF EncodingsInv
<1>2. PICK e : e = entries[i]
  OBVIOUS
<1> DEFINE value == ReadPositional(Written(e.from), e.kind)
<1>3. /\ phase = "reading" /\ e.kind \in Fixed
      /\ UNCHANGED <<out, entries, phase, pos, read>>
      /\ got' = [entry |-> i, ordered |-> FALSE, value |-> value]
  BY <1>2 DEF ReadAt
<1>4. e.kind # "String"
  BY <1>3 DEF Fixed
<1>5. /\ e.x \in Domain(e.kind)
      /\ StartsWith(Written(e.from), CodeOf(e))
  BY <1>1, <1>2, <1>3, PlacedIs
<1>6. e.x \subseteq 0..Widths[e.kind] - 1 /\ CodeOf(e) = Code(e.kind, e.x)
  BY <1>4, <1>5 DEF Domain, CodeOf
<1>7. \/ value = e.x
      \/ /\ e.kind # "Int16"
         /\ BigEndian(value, Widths[e.kind]) = Reverse(BigEndian(e.x, Widths[e.kind]))
  BY <1>3, <1>5, <1>6, ReadPositionalIs
<1> HIDE DEF value
<1>8. OutputInv' /\ EntriesInv'
  BY <1>1, <1>3, EntriesStay
<1>9. i \in 0..Len(entries)
  BY <1>1 DEF EntriesInv
<1>10. got'.entry = i /\ got'.ordered = FALSE /\ got'.value = value
  BY <1>3
<1>11. ReadInv'
  BY <1>1, <1>3, <1>9, <1>10 DEF ReadInv, EndOf
<1>12. ReadsGiveBack'
  BY <1>2, <1>3, <1>7, <1>10 DEF ReadsGiveBack
<1>13. QED
  BY <1>8, <1>11, <1>12 DEF EncodingsInv

(* In every state the array holds no junk below its length, the bytes of every
   entry lie right behind those of the one before and are the encoding of its
   number or string, the input stands at the start of the next entry as long as
   all that it passed could be kept, and what it gave back is right. *)
THEOREM EncodingsInvariant == EncodingsSpec => []EncodingsInv
<1>1. EncodingsInit => EncodingsInv
  BY EncodingsInitInv
<1>2. ASSUME EncodingsInv, [EncodingsNext]_encodings_vars
      PROVE  EncodingsInv'
  <2>1. ASSUME NEW k \in Kinds, NEW x \in Inputs[k], WriteEntry(k, x)
        PROVE  EncodingsInv'
    BY <1>2, <2>1, WriteEntryInv
  <2>2. ASSUME NEW x \in Inputs["ZInt64"], WriteForever(x)
        PROVE  EncodingsInv'
    BY <1>2, <2>2, WriteForeverInv
  <2>3. CASE Open
    BY <1>2, <2>3, OpenInv
  <2>4. CASE ReadNext
    BY <1>2, <2>4, ReadNextInv
  <2>5. ASSUME NEW i \in DOMAIN entries, ReadAt(i)
        PROVE  EncodingsInv'
    BY <1>2, <2>5, ReadAtInv
  <2>6. CASE UNCHANGED encodings_vars
    <3>1. OutputInv' /\ EntriesInv'
      BY <1>2, <2>6, EntriesStay DEF EncodingsInv, encodings_vars
    <3>2. ReadInv'
      BY <1>2, <2>6 DEF EncodingsInv, encodings_vars, ReadInv, EndOf
    <3>3. ReadsGiveBack'
      BY <1>2, <2>6 DEF EncodingsInv, encodings_vars, ReadsGiveBack
    <3>4. QED
      BY <3>1, <3>2, <3>3 DEF EncodingsInv
  <2>7. QED
    BY <1>2, <2>1, <2>2, <2>3, <2>4, <2>5, <2>6 DEF EncodingsNext
<1>3. QED
  BY <1>1, <1>2, PTL DEF EncodingsSpec

(* What ByteArrayReferenceDataInput reads in order is what the output's Write
   functions were given, however often the array grew in between, for every
   number that its kind can keep and every string; no write and no read fails
   then; and a read at a position gives the bytes or their reverse. *)
THEOREM ReadsGiveBackAlways == EncodingsSpec => []ReadsGiveBack
<1>1. EncodingsInv => ReadsGiveBack
  BY DEF EncodingsInv
<1>2. QED
  BY <1>1, EncodingsInvariant, PTL

--------------------------------------------------------------------------------
(* The order of bytes and of numbers.  The top place is the last one at which two
   numbers differ. *)
IsTop(top, x, y, n) ==
  /\ top \in 0..n
  /\ top \in x <=> top \notin y
  /\ \A b \in 0..n : b > top => (b \in x <=> b \in y)

LEMMA TopIs ==
  ASSUME NEW n \in Nat, NEW x, x \subseteq 0..n, NEW y, y \subseteq 0..n, x # y
  PROVE  IsTop(Max(Xor(x, y)), x, y, n)
<1> DEFINE d == Xor(x, y)
<1>1. d \subseteq 0..n /\ d # {} /\ \A b : b \in d <=> ~(b \in x <=> b \in y)
  BY DEF Xor
<1> HIDE DEF d
<1>2. Max(d) \in d /\ \A b \in d : b <= Max(d)
  BY <1>1, MaxIs
<1>3. Max(d) \in 0..n
  BY <1>1, <1>2
<1> DEFINE top == Max(d)
<1> HIDE DEF top
<1>4. top \in x <=> top \notin y
  BY <1>1, <1>2 DEF top
<1>5. ASSUME NEW b \in 0..n, b > top PROVE b \in x <=> b \in y
  <2>1. ~(b <= top)
    BY <1>3, <1>5 DEF top
  <2>2. b \notin d
    BY <1>2, <2>1 DEF top
  <2>3. QED
    BY <1>1, <2>2
<1>6. QED
  BY <1>3, <1>4, <1>5 DEF IsTop, top, d

LEMMA TopUnique ==
  ASSUME NEW n \in Nat, NEW x, NEW y, NEW s, IsTop(s, x, y, n), NEW t, IsTop(t, x, y, n)
  PROVE  s = t
<1>1. s \in 0..n /\ t \in 0..n
  BY DEF IsTop
<1>2. ~(s > t) /\ ~(t > s)
  BY <1>1 DEF IsTop
<1>3. QED
  BY <1>1, <1>2

LEMMA BelowIs ==
  ASSUME NEW n \in Nat, NEW x, x \subseteq 0..n, NEW y, y \subseteq 0..n,
         NEW top, IsTop(top, x, y, n)
  PROVE  Below(x, y) <=> top \in y
<1>1. x # y
  BY DEF IsTop
<1>2. Max(Xor(x, y)) = top
  BY <1>1, TopIs, TopUnique
<1>3. QED
  BY <1>1, <1>2 DEF Below

LEMMA PowerOfTwo ==
  ASSUME NEW b \in 0..7
  PROVE  2^b \in Nat
<1>0. CASE b = 0  BY <1>0, SMT
<1>1. CASE b = 1  BY <1>1, SMT
<1>2. CASE b = 2  BY <1>2, SMT
<1>3. CASE b = 3  BY <1>3, SMT
<1>4. CASE b = 4  BY <1>4, SMT
<1>5. CASE b = 5  BY <1>5, SMT
<1>6. CASE b = 6  BY <1>6, SMT
<1>7. CASE b = 7  BY <1>7, SMT
<1>8. QED
  BY <1>0, <1>1, <1>2, <1>3, <1>4, <1>5, <1>6, <1>7

LEMMA SumBelow ==
  ASSUME NEW top \in 0..7, NEW p \in [0..7 -> Int], NEW q \in [0..7 -> Int],
         \A b \in 0..7 : p[b] \in 0..2^b /\ q[b] \in 0..2^b,
         \A b \in 0..7 : top < b => p[b] = q[b],
         p[top] = 0, q[top] = 2^top
  PROVE  p[0] + p[1] + p[2] + p[3] + p[4] + p[5] + p[6] + p[7]
         < q[0] + q[1] + q[2] + q[3] + q[4] + q[5] + q[6] + q[7]
<1>1. p[0] \in 0..1 /\ p[1] \in 0..2 /\ p[2] \in 0..4 /\ p[3] \in 0..8
      /\ p[4] \in 0..16 /\ p[5] \in 0..32 /\ p[6] \in 0..64 /\ p[7] \in 0..128
  BY SMT
<1>2. q[0] \in 0..1 /\ q[1] \in 0..2 /\ q[2] \in 0..4 /\ q[3] \in 0..8
      /\ q[4] \in 0..16 /\ q[5] \in 0..32 /\ q[6] \in 0..64 /\ q[7] \in 0..128
  BY SMT
<1>3. CASE top = 0
  <2>1. p[0] = 0 /\ q[0] = 1
    BY <1>3, SMT
  <2>2. p[1] = q[1] /\ p[2] = q[2] /\ p[3] = q[3] /\ p[4] = q[4] /\ p[5] = q[5] /\ p[6] = q[6] /\ p[7] = q[7]
    BY <1>3, SMT
  <2>3. QED
    BY <1>1, <1>2, <2>1, <2>2, SMT
<1>4. CASE top = 1
  <2>1. p[1] = 0 /\ q[1] = 2
    BY <1>4, SMT
  <2>2. p[2] = q[2] /\ p[3] = q[3] /\ p[4] = q[4] /\ p[5] = q[5] /\ p[6] = q[6] /\ p[7] = q[7]
    BY <1>4, SMT
  <2>3. QED
    BY <1>1, <1>2, <2>1, <2>2, SMT
<1>5. CASE top = 2
  <2>1. p[2] = 0 /\ q[2] = 4
    BY <1>5, SMT
  <2>2. p[3] = q[3] /\ p[4] = q[4] /\ p[5] = q[5] /\ p[6] = q[6] /\ p[7] = q[7]
    BY <1>5, SMT
  <2>3. QED
    BY <1>1, <1>2, <2>1, <2>2, SMT
<1>6. CASE top = 3
  <2>1. p[3] = 0 /\ q[3] = 8
    BY <1>6, SMT
  <2>2. p[4] = q[4] /\ p[5] = q[5] /\ p[6] = q[6] /\ p[7] = q[7]
    BY <1>6, SMT
  <2>3. QED
    BY <1>1, <1>2, <2>1, <2>2, SMT
<1>7. CASE top = 4
  <2>1. p[4] = 0 /\ q[4] = 16
    BY <1>7, SMT
  <2>2. p[5] = q[5] /\ p[6] = q[6] /\ p[7] = q[7]
    BY <1>7, SMT
  <2>3. QED
    BY <1>1, <1>2, <2>1, <2>2, SMT
<1>8. CASE top = 5
  <2>1. p[5] = 0 /\ q[5] = 32
    BY <1>8, SMT
  <2>2. p[6] = q[6] /\ p[7] = q[7]
    BY <1>8, SMT
  <2>3. QED
    BY <1>1, <1>2, <2>1, <2>2, SMT
<1>9. CASE top = 6
  <2>1. p[6] = 0 /\ q[6] = 64
    BY <1>9, SMT
  <2>2. p[7] = q[7]
    BY <1>9, SMT
  <2>3. QED
    BY <1>1, <1>2, <2>1, <2>2, SMT
<1>10. CASE top = 7
  <2>1. p[7] = 0 /\ q[7] = 128
    BY <1>10, SMT
  <2>3. QED
    BY <1>1, <1>2, <2>1, SMT
<1>11. QED
  BY <1>3, <1>4, <1>5, <1>6, <1>7, <1>8, <1>9, <1>10

LEMMA ByteBelow ==
  ASSUME NEW x, NEW y, NEW top \in 0..7, top \in y, top \notin x,
         \A b \in 0..7 : b > top => (b \in x <=> b \in y)
  PROVE  ByteNumber(x) < ByteNumber(y)
<1> DEFINE Sum(f) == f[0] + f[1] + f[2] + f[3] + f[4] + f[5] + f[6] + f[7]
<1>1. ASSUME NEW z PROVE ByteNumber(z) = Sum([b \in 0..7 |-> IF b \in z THEN 2^b ELSE 0])
  BY DEF ByteNumber
<1> DEFINE p == [b \in 0..7 |-> IF b \in x THEN 2^b ELSE 0]
           q == [b \in 0..7 |-> IF b \in y THEN 2^b ELSE 0]
<1>2. p \in [0..7 -> Int] /\ q \in [0..7 -> Int]
  OBVIOUS
<1>3. \A b \in 0..7 : p[b] \in 0..2^b /\ q[b] \in 0..2^b
  <2> TAKE b \in 0..7
  <2>1. 2^b \in Nat
    BY PowerOfTwo
  <2>2. p[b] \in {0, 2^b} /\ q[b] \in {0, 2^b}
    OBVIOUS
  <2> HIDE DEF p, q
  <2>3. QED
    BY <2>1, <2>2
<1>4. \A b \in 0..7 : top < b => p[b] = q[b]
  OBVIOUS
<1>5. p[top] = 0 /\ q[top] = 2^top
  OBVIOUS
<1>6. ByteNumber(x) = Sum(p) /\ ByteNumber(y) = Sum(q)
  BY <1>1
<1> HIDE DEF p, q
<1>7. Sum(p) < Sum(q)
  BY <1>2, <1>3, <1>4, <1>5, SumBelow, ZenonT(60)
<1>8. QED
  BY <1>6, <1>7

LEMMA ByteNumberType ==
  ASSUME NEW x
  PROVE  ByteNumber(x) \in Int
<1> DEFINE Bit(b) == IF b \in x THEN 2^b ELSE 0
<1>1. /\ Bit(0) \in Int /\ Bit(1) \in Int /\ Bit(2) \in Int /\ Bit(3) \in Int
      /\ Bit(4) \in Int /\ Bit(5) \in Int /\ Bit(6) \in Int /\ Bit(7) \in Int
  BY SMT
<1>2. QED
  BY <1>1 DEF ByteNumber

(* The first unlike byte of two big-endian numbers has their top place. *)
LEMMA BytesBelow ==
  ASSUME NEW m \in Nat \ {0},
         NEW x, x \subseteq 0..8 * m - 1, NEW y, y \subseteq 0..8 * m - 1, x # y
  PROVE  LET a == BigEndian(x, 8 * m)
             b == BigEndian(y, 8 * m)
         IN  /\ Unlike(a, b) # {}
             /\ Apart(a, b) \in Int
             /\ Apart(a, b) < 0 <=> Below(x, y)
<1> DEFINE a == BigEndian(x, 8 * m)
           b == BigEndian(y, 8 * m)
           n == 8 * m - 1
<1>1. PICK top : IsTop(top, x, y, n)
  <2>1. n \in Nat
    OBVIOUS
  <2>2. QED
    BY <2>1, TopIs
<1>2. top \in 0..n /\ n \in Nat /\ n = 8 * m - 1
  BY <1>1 DEF IsTop
<1>3. PICK i : i = m - (top \div 8)
  OBVIOUS
<1>4. PICK t : t = top - 8 * (m - i)
  OBVIOUS
<1>5. i \in 1..m /\ t \in 0..7 /\ top = t + 8 * (m - i)
  BY <1>2, <1>3, <1>4
<1>6. a \in Seq(Bytes) /\ Len(a) = m /\ b \in Seq(Bytes) /\ Len(b) = m
  BY BigEndianType
<1>7. \A j \in 1..m : \A c \in 0..7 : c \in a[j] <=> c + 8 * (m - j) \in x
  BY BigEndianType
<1>8. \A j \in 1..m : \A c \in 0..7 : c \in b[j] <=> c + 8 * (m - j) \in y
  BY BigEndianType
<1>9. \A j \in 1..m : a[j] \subseteq 0..7 /\ b[j] \subseteq 0..7
  BY BigEndianType
<1> HIDE DEF a, b, n
<1>10. t \in a[i] <=> t \notin b[i]
  BY <1>1, <1>5, <1>7, <1>8 DEF IsTop
<1>11. t \in b[i] <=> top \in y
  BY <1>5, <1>8
<1>12. ASSUME NEW j \in 1..m, NEW c \in 0..7, c + 8 * (m - j) > top PROVE c \in a[j] <=> c \in b[j]
  <2>1. c + 8 * (m - j) \in 0..n
    BY <1>2
  <2>2. c + 8 * (m - j) \in x <=> c + 8 * (m - j) \in y
    BY <1>1, <1>12, <2>1 DEF IsTop
  <2>3. QED
    BY <1>7, <1>8, <2>2
<1>13. ASSUME NEW j \in 1..m, j < i PROVE a[j] = b[j]
  <2>1. \A c \in 0..7 : c + 8 * (m - j) > top
    BY <1>5, <1>13
  <2>2. \A c \in 0..7 : c \in a[j] <=> c \in b[j]
    BY <1>12, <2>1
  <2>3. QED
    BY <1>9, <2>2
<1>14. \A c \in 0..7 : c > t => (c \in a[i] <=> c \in b[i])
  <2> TAKE c \in 0..7
  <2>1. c > t => c + 8 * (m - i) > top
    BY <1>5
  <2>2. QED
    BY <1>5, <1>12, <2>1
<1>15. Unlike(a, b) = {j \in 1..m : a[j] # b[j]}
  <2>1. DOMAIN a = 1..m /\ DOMAIN b = 1..m
    BY <1>6
  <2>2. QED
    BY <2>1 DEF Unlike
<1>16. i \in Unlike(a, b) /\ \A j \in Unlike(a, b) : j \in 1..m /\ ~(j < i)
  BY <1>5, <1>10, <1>13, <1>15
<1>17. Min(Unlike(a, b)) = i
  <2> DEFINE S == Unlike(a, b)
  <2>1. S \subseteq Nat /\ S # {}
    BY <1>16
  <2>2. Min(S) \in S /\ \A j \in S : Min(S) <= j
    BY <2>1, MinIs
  <2> HIDE DEF S
  <2>3. Min(S) <= i /\ ~(Min(S) < i) /\ Min(S) \in 1..m
    BY <1>16, <2>2 DEF S
  <2>4. Min(S) = i
    BY <1>5, <2>3
  <2>5. QED
    BY <2>4 DEF S
<1>18. Apart(a, b) = ByteNumber(a[i]) - ByteNumber(b[i])
  BY <1>17 DEF Apart
<1>19. ByteNumber(a[i]) \in Int /\ ByteNumber(b[i]) \in Int
  BY ByteNumberType
<1>20. ASSUME t \in b[i] PROVE Apart(a, b) < 0
  <2>1. t \notin a[i]
    BY <1>10, <1>20
  <2>2. ByteNumber(a[i]) < ByteNumber(b[i])
    BY <1>5, <1>14, <1>20, <2>1, ByteBelow
  <2>3. QED
    BY <1>18, <1>19, <2>2
<1>21. ASSUME t \notin b[i] PROVE ~(Apart(a, b) < 0)
  <2>1. t \in a[i]
    BY <1>10, <1>21
  <2>2. \A c \in 0..7 : c > t => (c \in b[i] <=> c \in a[i])
    BY <1>14
  <2>3. ByteNumber(b[i]) < ByteNumber(a[i])
    BY <1>5, <1>21, <2>1, <2>2, ByteBelow
  <2>4. QED
    BY <1>18, <1>19, <2>3
<1>22. Apart(a, b) < 0 <=> t \in b[i]
  BY <1>20, <1>21
<1>23. Below(x, y) <=> top \in y
  BY <1>1, <1>2, BelowIs DEF n
<1>24. Apart(a, b) \in Int
  BY <1>18, <1>19
<1>25. QED
  BY <1>11, <1>16, <1>22, <1>23, <1>24 DEF a, b

(* With the sign bit flipped, negative numbers come first. *)
LEMMA FlippedOrder ==
  ASSUME NEW w \in Nat \ {0}, NEW x, x \subseteq 0..w - 1, NEW y, y \subseteq 0..w - 1, x # y
  PROVE  /\ Flipped(x, w) # Flipped(y, w)
         /\ (w - 1 \in x <=> w - 1 \in y) =>
              (Below(Flipped(x, w), Flipped(y, w)) <=> Below(x, y))
         /\ (w - 1 \in x <=> w - 1 \notin y) =>
              (Below(Flipped(x, w), Flipped(y, w)) <=> w - 1 \in x)
<1> DEFINE fx == Flipped(x, w)
           fy == Flipped(y, w)
<1>1. PICK n \in Nat : n = w - 1
  OBVIOUS
<1>2. PICK top : IsTop(top, x, y, n)
  BY <1>1, TopIs
<1>3. \A b : b \in fx <=> (b \in x <=> b # n)
  BY <1>1 DEF Flipped, Xor
<1>4. \A b : b \in fy <=> (b \in y <=> b # n)
  BY <1>1 DEF Flipped, Xor
<1>5. fx \subseteq 0..n /\ fy \subseteq 0..n
  BY <1>1, FlippedInverse
<1> HIDE DEF fx, fy
<1>6. IsTop(top, fx, fy, n)
  BY <1>2, <1>3, <1>4 DEF IsTop
<1>7. Below(x, y) <=> top \in y
  BY <1>1, <1>2, BelowIs
<1>8. Below(fx, fy) <=> top \in fy
  BY <1>5, <1>6, BelowIs
<1>9. fx # fy
  BY <1>6 DEF IsTop
<1>10. ASSUME n \in x <=> n \in y PROVE Below(fx, fy) <=> Below(x, y)
  <2>1. top # n
    BY <1>2, <1>10 DEF IsTop
  <2>2. QED
    BY <1>4, <1>7, <1>8, <2>1
<1>11. ASSUME n \in x <=> n \notin y PROVE Below(fx, fy) <=> n \in x
  <2>1. top = n
    <3>1. top \in 0..n /\ n \in 0..n
      BY <1>2 DEF IsTop
    <3>2. ~(n > top)
      BY <1>2, <1>11, <3>1 DEF IsTop
    <3>3. QED
      BY <3>1, <3>2
  <2>2. QED
    BY <1>4, <1>8, <1>11, <2>1
<1>12. QED
  BY <1>1, <1>9, <1>10, <1>11 DEF fx, fy

LEMMA SortableBitsOrder ==
  ASSUME NEW w \in Nat \ {0}, NEW x, x \subseteq 0..w - 1, NEW y, y \subseteq 0..w - 1, x # y
  PROVE  LET s == SortableBits(x, w)
             t == SortableBits(y, w)
         IN  /\ s # t
             /\ w - 1 \in s <=> w - 1 \in x
             /\ w - 1 \in t <=> w - 1 \in y
             /\ w - 1 \notin x /\ w - 1 \notin y => (Below(s, t) <=> Below(x, y))
             /\ w - 1 \in x /\ w - 1 \in y => (Below(s, t) <=> Below(y, x))
<1> DEFINE s == SortableBits(x, w)
           t == SortableBits(y, w)
<1>1. PICK n \in Nat : n = w - 1
  OBVIOUS
<1>2. PICK top : IsTop(top, x, y, n)
  BY <1>1, TopIs
<1>3. SortableBits(s, w) = x /\ SortableBits(t, w) = y
  BY SortableBitsInverse
<1>4. s \subseteq 0..n /\ t \subseteq 0..n
  BY <1>1, SortableBitsInverse
<1>5. s # t
  BY <1>3
<1>6. (n \in s <=> n \in x) /\ (n \in t <=> n \in y)
  BY <1>1 DEF SortableBits, Negative, Not
<1>7. n \notin x => s = x
  BY <1>1 DEF SortableBits, Negative
<1>8. n \notin y => t = y
  BY <1>1 DEF SortableBits, Negative
<1>9. n \in x => \A b : b \in s <=> (b \in 0..n /\ (b \notin x \/ b = n))
  BY <1>1 DEF SortableBits, Negative, Not
<1>10. n \in y => \A b : b \in t <=> (b \in 0..n /\ (b \notin y \/ b = n))
  BY <1>1 DEF SortableBits, Negative, Not
<1> HIDE DEF s, t
<1>11. ASSUME n \in x, n \in y PROVE Below(s, t) <=> Below(y, x)
  <2>1. top # n /\ top \in 0..n
    BY <1>2, <1>11 DEF IsTop
  <2>2. IsTop(top, s, t, n)
    BY <1>2, <1>9, <1>10, <1>11, <2>1 DEF IsTop
  <2>3. IsTop(top, y, x, n)
    BY <1>2 DEF IsTop
  <2>4. Below(s, t) <=> top \in t
    BY <1>4, <2>2, BelowIs
  <2>5. Below(y, x) <=> top \in x
    BY <1>1, <2>3, BelowIs
  <2>6. top \in t <=> top \notin y
    BY <1>10, <1>11, <2>1
  <2>7. top \in x <=> top \notin y
    BY <1>2 DEF IsTop
  <2>8. QED
    BY <2>4, <2>5, <2>6, <2>7
<1>12. QED
  BY <1>1, <1>5, <1>6, <1>7, <1>8, <1>11 DEF s, t

(* The order of numbers that are no NaN, by their bits. *)
LessBits(k, x, y) ==
  LET w == Widths[k] IN
  IF Negative(x, w) # Negative(y, w) THEN Negative(x, w)
  ELSE IF k \notin Floating \/ ~Negative(x, w) THEN Below(x, y)
  ELSE Below(y, x)

LEMMA BitsOrder ==
  ASSUME NEW k \in Sortable, NEW x, x \subseteq 0..Widths[k] - 1,
         NEW y, y \subseteq 0..Widths[k] - 1, x # y
  PROVE  /\ Sorted(k, x) # Sorted(k, y)
         /\ Below(Sorted(k, x), Sorted(k, y)) <=> LessBits(k, x, y)
<1>1. PICK w \in Nat \ {0} : w = Widths[k]
  BY WidthsAre
<1>2. LessBits(k, x, y) <=>
        IF (w - 1 \in x) # (w - 1 \in y) THEN w - 1 \in x
        ELSE IF k \notin Floating \/ w - 1 \notin x THEN Below(x, y)
        ELSE Below(y, x)
  BY <1>1 DEF LessBits, Negative
<1>3. CASE k \in {"SortableInt", "SortableLong"}
  <2>1. Sorted(k, x) = Flipped(x, w) /\ Sorted(k, y) = Flipped(y, w)
    BY <1>1, <1>3 DEF Sorted, Fixed, Floating
  <2>2. /\ Flipped(x, w) # Flipped(y, w)
        /\ (w - 1 \in x <=> w - 1 \in y) =>
             (Below(Flipped(x, w), Flipped(y, w)) <=> Below(x, y))
        /\ (w - 1 \in x <=> w - 1 \notin y) =>
             (Below(Flipped(x, w), Flipped(y, w)) <=> w - 1 \in x)
    BY <1>1, FlippedOrder
  <2>3. QED
    BY <1>2, <1>3, <2>1, <2>2 DEF Floating
<1>4. CASE k \in Floating
  <2> DEFINE s == SortableBits(x, w)
             t == SortableBits(y, w)
  <2>1. Sorted(k, x) = Flipped(s, w) /\ Sorted(k, y) = Flipped(t, w)
    BY <1>1, <1>4 DEF Sorted, Fixed, Floating
  <2>2. /\ s # t
        /\ w - 1 \in s <=> w - 1 \in x
        /\ w - 1 \in t <=> w - 1 \in y
        /\ w - 1 \notin x /\ w - 1 \notin y => (Below(s, t) <=> Below(x, y))
        /\ w - 1 \in x /\ w - 1 \in y => (Below(s, t) <=> Below(y, x))
    BY <1>1, SortableBitsOrder
  <2>3. s \subseteq 0..w - 1 /\ t \subseteq 0..w - 1
    BY <1>1, SortableBitsInverse
  <2> HIDE DEF s, t
  <2>4. /\ Flipped(s, w) # Flipped(t, w)
        /\ (w - 1 \in s <=> w - 1 \in t) =>
             (Below(Flipped(s, w), Flipped(t, w)) <=> Below(s, t))
        /\ (w - 1 \in s <=> w - 1 \notin t) =>
             (Below(Flipped(s, w), Flipped(t, w)) <=> w - 1 \in s)
    BY <2>2, <2>3, FlippedOrder
  <2>5. QED
    BY <1>2, <1>4, <2>1, <2>2, <2>4
<1>5. QED
  BY <1>3, <1>4 DEF Sortable

(* The one NaN is above the bits of every number that is none. *)
LEMMA NaNIsAbove ==
  ASSUME NEW w \in {32, 64}, NEW x \in SUBSET (0..w - 1), IsNaN(x, w),
         NEW y \in SUBSET (0..w - 1), ~IsNaN(y, w), ~Negative(y, w)
  PROVE  /\ ToBits(x, w) # y /\ ~Negative(ToBits(x, w), w)
         /\ Below(y, ToBits(x, w)) /\ ~Below(ToBits(x, w), y)
<1>1. PICK m \in Nat : m = Mantissa(w) /\ m > 0 /\ m < w - 1
  BY DEF Mantissa
<1>2. PICK n \in Nat : n = w - 1
  OBVIOUS
<1>3. PICK nan : nan = m - 1..n - 1
  OBVIOUS
<1>4. ToBits(x, w) = nan /\ nan \subseteq 0..n /\ n \notin nan
  BY <1>1, <1>2, <1>3 DEF ToBits
<1>5. ~(m..n - 1 \subseteq y) \/ y \cap 0..m - 1 = {}
  BY <1>1, <1>2 DEF IsNaN
<1>6. n \notin y /\ y \subseteq 0..n
  BY <1>2 DEF Negative
<1>7. PICK b \in m - 1..n - 1 : b \notin y
  BY <1>1, <1>2, <1>5
<1>8. b \in nan
  BY <1>3, <1>7
<1>9. PICK top : IsTop(top, nan, y, n)
  BY <1>4, <1>6, <1>7, <1>8, TopIs
<1>10. top \in nan
  <2>1. top \in 0..n /\ b \in 0..n /\ ~(b > top)
    BY <1>1, <1>2, <1>7, <1>8, <1>9 DEF IsTop
  <2>2. top # n
    BY <1>4, <1>6, <1>9 DEF IsTop
  <2>3. QED
    BY <1>1, <1>2, <1>3, <2>1, <2>2
<1>11. IsTop(top, y, nan, n)
  BY <1>9 DEF IsTop
<1>12. top \notin y
  BY <1>9, <1>10 DEF IsTop
<1>13. Below(y, nan) /\ ~Below(nan, y)
  BY <1>4, <1>6, <1>9, <1>10, <1>11, <1>12, BelowIs
<1>14. QED
  BY <1>2, <1>4, <1>7, <1>8, <1>13 DEF Negative

LEMMA SortedOrder ==
  ASSUME NEW k \in Sortable, NEW x, x \subseteq 0..Widths[k] - 1,
         NEW y, y \subseteq 0..Widths[k] - 1, ~Alike(k, x, y)
  PROVE  /\ Sorted(k, Sent(k, x)) # Sorted(k, Sent(k, y))
         /\ Below(Sorted(k, Sent(k, x)), Sorted(k, Sent(k, y))) <=> Less(k, x, y)
<1>1. PICK p, q : p = Sent(k, x) /\ q = Sent(k, y)
  OBVIOUS
<1>2. p \subseteq 0..Widths[k] - 1 /\ q \subseteq 0..Widths[k] - 1
  BY <1>1, SentIs
<1>3. p # q /\ (LessBits(k, p, q) <=> Less(k, x, y))
  <2>1. CASE k \notin Floating
    BY <1>1, <2>1 DEF Sent, Alike, Less, LessBits
  <2>2. CASE k \in Floating
    <3>1. PICK w \in {32, 64} : w = Widths[k]
      BY <2>2 DEF Floating, Widths
    <3>2. /\ p = ToBits(x, w) /\ q = ToBits(y, w) /\ w \in {32, 64}
          /\ x \in SUBSET (0..w - 1) /\ y \in SUBSET (0..w - 1)
      BY <1>1, <2>2, <3>1 DEF Sent
    <3>3. ~(IsNaN(x, w) /\ IsNaN(y, w)) /\ x # y
      BY <2>2, <3>1 DEF Alike
    <3>4. CASE ~IsNaN(x, w) /\ ~IsNaN(y, w)
      <4>1. p = x /\ q = y
        BY <3>2, <3>4 DEF ToBits
      <4>2. QED
        BY <2>2, <3>1, <3>3, <3>4, <4>1 DEF Less, LessBits
    <3>5. CASE IsNaN(x, w) /\ ~IsNaN(y, w)
      <4>1. q = y /\ ~Less(k, x, y)
        BY <2>2, <3>1, <3>2, <3>5 DEF ToBits, Less
      <4>2. CASE Negative(y, w)
        <5>1. ~Negative(p, w)
          BY <3>1, <3>2, <3>5 DEF ToBits, Negative
        <5>2. QED
          BY <3>1, <4>1, <4>2, <5>1 DEF LessBits
      <4>3. CASE ~Negative(y, w)
        <5>1. p # y /\ ~Negative(p, w) /\ ~Below(p, y)
          <6>1. ToBits(x, w) # y /\ ~Negative(ToBits(x, w), w) /\ ~Below(ToBits(x, w), y)
            BY <3>2, <3>5, <4>3, NaNIsAbove
          <6>2. QED
            BY <3>2, <6>1
        <5>2. QED
          BY <3>1, <4>1, <4>3, <5>1 DEF LessBits
      <4>4. QED
        BY <4>2, <4>3
    <3>6. CASE ~IsNaN(x, w) /\ IsNaN(y, w)
      <4>1. p = x /\ Less(k, x, y)
        BY <2>2, <3>1, <3>2, <3>6 DEF ToBits, Less
      <4>2. CASE Negative(x, w)
        <5>1. ~Negative(q, w)
          BY <3>1, <3>2, <3>6 DEF ToBits, Negative
        <5>2. QED
          BY <3>1, <4>1, <4>2, <5>1 DEF LessBits
      <4>3. CASE ~Negative(x, w)
        <5>1. q # x /\ ~Negative(q, w) /\ Below(x, q)
          <6>1. ToBits(y, w) # x /\ ~Negative(ToBits(y, w), w) /\ Below(x, ToBits(y, w))
            BY <3>2, <3>6, <4>3, NaNIsAbove
          <6>2. QED
            BY <3>2, <6>1
        <5>2. LessBits(k, x, q)
          BY <3>1, <4>3, <5>1 DEF LessBits, Negative
        <5>3. QED
          BY <4>1, <5>1, <5>2
      <4>4. QED
        BY <4>2, <4>3
    <3>7. QED
      BY <3>3, <3>4, <3>5, <3>6
  <2>3. QED
    BY <2>1, <2>2
<1>4. QED
  BY <1>1, <1>2, <1>3, BitsOrder

LEMMA CharIs ==
  ASSUME NEW n \in -127..127
  PROVE  Char(n) = n
<1>1. CASE n >= 0
  BY <1>1 DEF Char
<1>2. CASE n < 0
  <2>1. (n % 256) = n + 256
    BY <1>2
  <2>2. QED
    BY <1>2, <2>1 DEF Char
<1>3. QED
  BY <1>1, <1>2

(* The bytes of two numbers compare as the numbers do. *)
LEMMA CodesCompare ==
  ASSUME NEW k \in Sortable, NEW x, x \subseteq 0..Widths[k] - 1,
         NEW y, y \subseteq 0..Widths[k] - 1
  PROVE  /\ Alike(k, x, y) => CompareTo(Code(k, x), Code(k, y)) = 0
         /\ ~Alike(k, x, y) => (Apart(Code(k, x), Code(k, y)) \in -127..127 =>
                        (CompareTo(Code(k, x), Code(k, y)) < 0 <=> Less(k, x, y)))
<1>1. PICK m \in Nat \ {0} : Widths[k] = 8 * m
  BY WidthsAre
<1> DEFINE u == Sorted(k, Sent(k, x))
           v == Sorted(k, Sent(k, y))
           a == Code(k, x)
           b == Code(k, y)
<1>2. u \subseteq 0..8 * m - 1 /\ a = BigEndian(u, 8 * m)
  BY <1>1, SortedIs
<1>3. v \subseteq 0..8 * m - 1 /\ b = BigEndian(v, 8 * m)
  BY <1>1, SortedIs
<1>4. ASSUME Alike(k, x, y) PROVE CompareTo(a, b) = 0
  <2>0. Sent(k, x) = Sent(k, y)
    BY <1>4 DEF Alike, Sent, ToBits
  <2>1. Len(a) \in Int
    BY <1>2, BigEndianType
  <2>2. a = b
    BY <1>2, <1>3, <2>0
  <2> HIDE DEF a, b
  <2>4. Unlike(a, b) = {} /\ Len(a) = Len(b)
    BY <2>2 DEF Unlike
  <2>3. QED
    BY <2>1, <2>4 DEF CompareTo
<1>5. ASSUME ~Alike(k, x, y), Apart(a, b) \in -127..127 PROVE CompareTo(a, b) < 0 <=> Less(k, x, y)
  <2>1. u # v /\ (Below(u, v) <=> Less(k, x, y))
    BY <1>5, SortedOrder
  <2> HIDE DEF u, v, a, b
  <2>2. Unlike(a, b) # {} /\ (Apart(a, b) < 0 <=> Below(u, v))
    BY <1>2, <1>3, <2>1, BytesBelow
  <2>3. CompareTo(a, b) = Apart(a, b)
    BY <1>5, <2>2, CharIs DEF CompareTo
  <2>4. QED
    BY <2>1, <2>2, <2>3
<1>6. QED
  BY <1>4, <1>5

(* The bytes from where an entry begins to where it ends are those of its number. *)
LEMMA EntryBytes ==
  ASSUME EncodingsInv, NEW i \in DOMAIN entries, entries[i].kind \in Sortable
  PROVE  LET e == entries[i] IN
         /\ e.x \subseteq 0..Widths[e.kind] - 1
         /\ SubSeq(out.bytes, e.from + 1, e.to) = Code(e.kind, e.x)
<1> DEFINE e == entries[i]
<1>1. OutputInv /\ EntriesInv
  BY DEF EncodingsInv
<1>2. /\ e.kind \in Kinds /\ e.x \in Domain(e.kind) /\ CodeOf(e) \in Seq(Bytes)
      /\ e.from \in Nat /\ e.to \in Nat /\ e.from <= e.to /\ e.to <= out.length
      /\ ~Endless(e) => /\ e.to = e.from + Len(CodeOf(e))
                        /\ \A j \in 1..Len(CodeOf(e)) : out.bytes[e.from + j] = CodeOf(e)[j]
  BY <1>1, PlacedIs
<1>3. e.kind \in Sortable
  OBVIOUS
<1> HIDE DEF e
<1>4. e.kind # "String" /\ e.kind # "ZInt64"
  BY <1>3 DEF Sortable, Floating
<1>5. e.x \subseteq 0..Widths[e.kind] - 1 /\ CodeOf(e) = Code(e.kind, e.x) /\ ~Endless(e)
  BY <1>2, <1>4 DEF Domain, CodeOf, Endless
<1> DEFINE c == Code(e.kind, e.x)
<1>6. /\ e.to = e.from + Len(c) /\ c \in Seq(Bytes)
      /\ \A j \in 1..Len(c) : out.bytes[e.from + j] = c[j]
  BY <1>2, <1>5
<1> HIDE DEF c
<1>7. /\ out.bytes \in Seq({Junk} \cup Bytes) /\ out.length \in Nat
      /\ out.length <= Len(out.bytes)
  BY <1>1 DEF OutputInv
<1>8. Len(out.bytes) \in Nat
  BY <1>7
<1>9. e.to <= Len(out.bytes)
  BY <1>2, <1>7, <1>8
<1> DEFINE s == SubSeq(out.bytes, e.from + 1, e.to)
<1>10. /\ s \in Seq({Junk} \cup Bytes) /\ Len(s) = e.to - e.from
       /\ \A j \in 1..e.to - e.from : s[j] = out.bytes[e.from + j]
  <2>1. PICK T : T = {Junk} \cup Bytes
    OBVIOUS
  <2>2. PICK bytes \in Seq(T) : bytes = out.bytes
    BY <1>7, <2>1
  <2>3. PICK from \in Nat, to \in Nat : from = e.from /\ to = e.to
    BY <1>2
  <2>4. from <= to /\ to <= Len(bytes)
    BY <1>2, <1>9, <2>2, <2>3
  <2>5. /\ SubSeq(bytes, from + 1, to) \in Seq(T)
        /\ Len(SubSeq(bytes, from + 1, to)) = to - from
        /\ \A j \in 1..to - from : SubSeq(bytes, from + 1, to)[j] = bytes[from + j]
    BY <2>4, SubSeqIs
  <2>6. QED
    BY <2>1, <2>2, <2>3, <2>5
<1> HIDE DEF s
<1>11. Len(c) \in Nat /\ e.to - e.from = Len(c)
  BY <1>2, <1>6
<1>12. c \in Seq({Junk} \cup Bytes)
  BY <1>6
<1>13. s = c
  BY <1>6, <1>10, <1>11, <1>12, SeqsEqual
<1>14. QED
  BY <1>5, <1>13 DEF e, c, s

(* The bytes that Numeric.h's sortable encodings leave in the array compare as
   the numbers do, for every two ints, longs, floats and doubles, NaNs alike and
   above the rest, as long as the first two bytes that differ are less than 128
   apart. *)
THEOREM OrderIsKeptAlways == EncodingsSpec => []OrderIsKept
<1>1. EncodingsInv => OrderIsKept
  <2> SUFFICES ASSUME EncodingsInv, NEW i \in DOMAIN entries, NEW j \in DOMAIN entries,
                      entries[i].kind = entries[j].kind, entries[i].kind \in Sortable
               PROVE  LET e == entries[i]
                          d == entries[j]
                          a == SubSeq(out.bytes, e.from + 1, e.to)
                          b == SubSeq(out.bytes, d.from + 1, d.to)
                      IN  IF Alike(e.kind, e.x, d.x) THEN CompareTo(a, b) = 0
                          ELSE Apart(a, b) \in -127..127 =>
                                 (CompareTo(a, b) < 0 <=> Less(e.kind, e.x, d.x))
    BY DEF OrderIsKept
  <2> DEFINE e == entries[i]
             d == entries[j]
  <2>1. /\ e.x \subseteq 0..Widths[e.kind] - 1
        /\ SubSeq(out.bytes, e.from + 1, e.to) = Code(e.kind, e.x)
    BY EntryBytes
  <2>2. /\ d.x \subseteq 0..Widths[e.kind] - 1
        /\ SubSeq(out.bytes, d.from + 1, d.to) = Code(e.kind, d.x)
    BY EntryBytes
  <2>3. e.kind \in Sortable
    OBVIOUS
  <2> HIDE DEF e, d
  <2>4. /\ Alike(e.kind, e.x, d.x) => CompareTo(Code(e.kind, e.x), Code(e.kind, d.x)) = 0
        /\ ~Alike(e.kind, e.x, d.x) => (Apart(Code(e.kind, e.x), Code(e.kind, d.x)) \in -127..127 =>
             (CompareTo(Code(e.kind, e.x), Code(e.kind, d.x)) < 0 <=> Less(e.kind, e.x, d.x)))
    BY <2>1, <2>2, <2>3, CodesCompare
  <2>5. QED
    BY <2>1, <2>2, <2>4 DEF e, d
<1>2. QED
  BY <1>1, EncodingsInvariant, PTL

================================================================================

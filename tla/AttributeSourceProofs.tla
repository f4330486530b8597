--------------------------- MODULE AttributeSourceProofs ---------------------------
(***************************************************************************)
(* What AttributeSource shares between the streams of a chain, for every   *)
(* number of streams, types and instances.                                 *)
(***************************************************************************)
EXTENDS AttributeSource, TLAPS

(* A stream points to a cell at or below it, and one that does not exist yet
   has a fresh one. *)
CellsBelow ==
  \A s \in Streams :
    /\ holder[s] <= s
    /\ s > built => holder[s] = s /\ state[s] = NoState

(* A stream has a cell of its own or that of the stream below; the topmost one,
   if it joined the one below, has exactly its attributes. *)
ChainShared ==
  \A s \in 2 .. built :
    /\ holder[s] \in {s, holder[s - 1]}
    /\ s = built /\ holder[s] = holder[s - 1] => impls[s] = impls[s - 1]

(* A list names attributes of streams that use it. *)
ListsOfUsers ==
  \A s \in 1 .. built : \A x \in state[holder[s]] :
    \E q \in 1 .. built : holder[q] = holder[s] /\ x \in Instances(q)

(* The tokenizer's list is complete. *)
FirstComplete == built > 0 => state[1] = NoState \/ Instances(1) \subseteq state[1]

SharingInv ==
  /\ TypeOK
  /\ CellsBelow
  /\ TokenizerIsShared
  /\ orderly => ChainShared /\ ListsOfUsers /\ FirstComplete

--------------------------------------------------------------------------------

LEMMA InitSharing == Init => SharingInv
<1> SUFFICES ASSUME Init PROVE SharingInv
  OBVIOUS
<1>1. TypeOK
  BY SourceAssumption DEF Init, TypeOK, Streams, None, NoState
<1>2. CellsBelow
  BY <1>1 DEF Init, CellsBelow, TypeOK, Streams, NoState
<1>3. 1 .. built = {} /\ 2 .. built = {} /\ ~(built > 0)
  BY DEF Init
<1>4. TokenizerIsShared /\ ChainShared /\ ListsOfUsers /\ FirstComplete
  BY <1>3 DEF TokenizerIsShared, ChainShared, ListsOfUsers, FirstComplete
<1>5. QED
  BY <1>1, <1>2, <1>4 DEF SharingInv

(* A new filter: what it clones gets the next numbers. *)
LEMMA NewFilterFacts ==
  ASSUME TypeOK, NewFilter
  PROVE  /\ built \in 1 .. Depth - 1
         /\ built' = built + 1
         /\ nimpls' \in nimpls .. MaxImpls
         /\ impls' \in [Streams -> [Types -> 0 .. nimpls']]
         /\ \A s \in Streams : s # built + 1 => impls'[s] = impls[s]
         /\ UNCHANGED <<holder, state, orderly>>
<1>1. PICK clone \in [Types -> 0 .. MaxImpls] :
         /\ \A a \in Types :
              IF impls[built][a] # None THEN clone[a] > nimpls ELSE clone[a] = None
         /\ nimpls' \in nimpls .. MaxImpls
         /\ {clone[a] : a \in {b \in Types : impls[built][b] # None}}
              = nimpls + 1 .. nimpls'
         /\ impls' = [impls EXCEPT ![built + 1] = clone]
  BY DEF NewFilter
<1>2. /\ built \in 1 .. Depth - 1
      /\ built' = built + 1
      /\ UNCHANGED <<holder, state, orderly>>
  BY DEF NewFilter
<1>3. built \in Nat /\ Depth \in Nat /\ nimpls \in Nat /\ MaxImpls \in Nat
  BY SourceAssumption DEF TypeOK
<1>4. nimpls' \in Nat /\ nimpls <= nimpls'
  BY <1>1, <1>3
<1>5. \A a \in Types : clone[a] \in 0 .. nimpls'
  <2>1. ASSUME NEW a \in Types PROVE clone[a] \in 0 .. nimpls'
    <3>1. CASE impls[built][a] # None
      <4>1. clone[a] \in nimpls + 1 .. nimpls'
        BY <1>1, <3>1
      <4>2. QED
        BY <4>1, <1>3, <1>4
    <3>2. CASE impls[built][a] = None
      BY <1>1, <3>2, <1>4 DEF None
    <3>3. QED
      BY <3>1, <3>2
  <2>2. QED
    BY <2>1
<1>6. clone \in [Types -> 0 .. nimpls']
  BY <1>5
<1>7. impls \in [Streams -> [Types -> 0 .. nimpls]]
  BY DEF TypeOK
<1>8. [Types -> 0 .. nimpls] \subseteq [Types -> 0 .. nimpls']
  BY <1>3, <1>4
<1>9. impls' \in [Streams -> [Types -> 0 .. nimpls']]
  BY <1>1, <1>6, <1>7, <1>8
<1>10. \A s \in Streams : s # built + 1 => impls'[s] = impls[s]
  BY <1>1, <1>7
<1>11. QED
  BY <1>1, <1>2, <1>9, <1>10

(* What adding an attribute to s does to the maps of s and to its list. *)
LEMMA ProvideFacts ==
  ASSUME TypeOK, NEW s \in Streams, NEW a \in Types, Provide(s, a)
  PROVE  /\ nimpls' \in nimpls .. MaxImpls
         /\ Provided(s, a) \in [Types -> 0 .. nimpls']
         /\ \A b \in Types : impls[s][b] # None => Provided(s, a)[b] = impls[s][b]
         /\ state' \in [Streams -> SUBSET (1 .. nimpls')]
         /\ \A c \in Streams : c # holder[s] => state'[c] = state[c]
         /\ \/ state'[holder[s]] = NoState
            \/ state' = state /\ Provided(s, a) = impls[s]
<1>1. /\ impls[s] \in [Types -> 0 .. nimpls]
      /\ holder[s] \in Streams
      /\ state \in [Streams -> SUBSET (1 .. nimpls)]
      /\ nimpls \in Nat /\ MaxImpls \in Nat /\ nimpls <= MaxImpls
  BY SourceAssumption DEF TypeOK
<1>2. CASE impls[s][a] = None /\ nimpls < MaxImpls /\ nimpls' = nimpls + 1
           /\ state' = [state EXCEPT ![holder[s]] = NoState]
  <2>1. nimpls' \in nimpls .. MaxImpls
    BY <1>1, <1>2
  <2>2. Provided(s, a) \in [Types -> 0 .. nimpls']
    BY <1>1, <1>2 DEF Provided
  <2>3. \A b \in Types : impls[s][b] # None => Provided(s, a)[b] = impls[s][b]
    BY <1>1, <1>2 DEF Provided
  <2>4. \A c \in Streams : state'[c] \in SUBSET (1 .. nimpls')
    <3>1. 1 .. nimpls \subseteq 1 .. nimpls'
      BY <1>1, <1>2
    <3>2. QED
      BY <1>1, <1>2, <3>1 DEF NoState
  <2>5. state' \in [Streams -> SUBSET (1 .. nimpls')]
    BY <1>1, <1>2, <2>4
  <2>6. QED
    BY <1>1, <1>2, <2>1, <2>2, <2>3, <2>5
<1>3. CASE impls[s][a] # None /\ UNCHANGED <<nimpls, state>>
  <2>1. Provided(s, a) = impls[s]
    BY <1>1, <1>3 DEF Provided
  <2>2. QED
    BY <1>1, <1>3, <2>1
<1>4. QED
  BY <1>2, <1>3 DEF Provide

(* TokenFilter::AddAttribute, as facts about single streams: r is the input. *)
LEMMA FilterAddFacts ==
  ASSUME TypeOK, NEW s \in Streams, NEW a \in Types, FilterAddAttribute(s, a),
         NEW r, r = s - 1
  PROVE  /\ r \in Streams /\ s \in 2 .. built /\ r \in 1 .. built
         /\ nimpls' \in nimpls .. MaxImpls
         /\ impls' \in [Streams -> [Types -> 0 .. nimpls']]
         /\ impls'[s] = impls'[r]
         /\ \A b \in Types : impls[r][b] # None => impls'[r][b] = impls[r][b]
         /\ \A q \in Streams : q \notin {r, s} => impls'[q] = impls[q]
         /\ state' \in [Streams -> SUBSET (1 .. nimpls')]
         /\ \A c \in Streams : c # holder[r] => state'[c] = state[c]
         /\ state'[holder[r]] = NoState \/ (state' = state /\ impls'[r] = impls[r])
         /\ holder' \in [Streams -> Streams]
         /\ holder'[s] = holder[r]
         /\ \A q \in Streams : q # s => holder'[q] = holder[q]
         /\ built' = built
         /\ orderly' = (orderly /\ s = built)
<1>1. /\ s \in 2 .. built
      /\ Provide(r, a)
      /\ impls' = [impls EXCEPT ![r] = Provided(r, a), ![s] = Provided(r, a)]
      /\ holder' = [holder EXCEPT ![s] = holder[r]]
      /\ orderly' = (orderly /\ s = built)
      /\ built' = built
  BY DEF FilterAddAttribute
<1>2. built \in Nat /\ built <= Depth /\ Depth \in Nat /\ nimpls \in Nat
  BY SourceAssumption DEF TypeOK
<1>3. r \in Streams /\ r \in 1 .. built /\ r # s
  BY <1>1, <1>2 DEF Streams
<1>4. /\ nimpls' \in nimpls .. MaxImpls
      /\ Provided(r, a) \in [Types -> 0 .. nimpls']
      /\ \A b \in Types : impls[r][b] # None => Provided(r, a)[b] = impls[r][b]
      /\ state' \in [Streams -> SUBSET (1 .. nimpls')]
      /\ \A c \in Streams : c # holder[r] => state'[c] = state[c]
      /\ \/ state'[holder[r]] = NoState
         \/ state' = state /\ Provided(r, a) = impls[r]
  BY <1>1, <1>3, ProvideFacts
<1>5. impls \in [Streams -> [Types -> 0 .. nimpls]] /\ holder \in [Streams -> Streams]
  BY DEF TypeOK
<1>6. /\ impls'[r] = Provided(r, a)
      /\ impls'[s] = Provided(r, a)
      /\ \A q \in Streams : q \notin {r, s} => impls'[q] = impls[q]
  BY <1>1, <1>3, <1>5
<1>7. [Types -> 0 .. nimpls] \subseteq [Types -> 0 .. nimpls']
  BY <1>2, <1>4
<1>8. impls' \in [Streams -> [Types -> 0 .. nimpls']]
  BY <1>1, <1>4, <1>5, <1>7
<1>9. /\ holder' \in [Streams -> Streams]
      /\ holder'[s] = holder[r]
      /\ \A q \in Streams : q # s => holder'[q] = holder[q]
  BY <1>1, <1>3, <1>5
<1>10. QED
  BY <1>1, <1>3, <1>4, <1>6, <1>8, <1>9

(* AttributeSource::AddAttribute likewise. *)
LEMMA AddFacts ==
  ASSUME TypeOK, NEW s \in Streams, NEW a \in Types, AddAttribute(s, a)
  PROVE  /\ s \in 1 .. built
         /\ nimpls' \in nimpls .. MaxImpls
         /\ impls' \in [Streams -> [Types -> 0 .. nimpls']]
         /\ \A q \in Streams : q # s => impls'[q] = impls[q]
         /\ state' \in [Streams -> SUBSET (1 .. nimpls')]
         /\ \A c \in Streams : c # holder[s] => state'[c] = state[c]
         /\ state'[holder[s]] = NoState \/ (state' = state /\ impls' = impls)
         /\ orderly' => orderly /\ (built = 1 \/ (state' = state /\ impls' = impls))
         /\ orderly' \in BOOLEAN
         /\ UNCHANGED <<built, holder>>
<1>1. /\ s \in 1 .. built
      /\ Provide(s, a)
      /\ impls' = [impls EXCEPT ![s] = Provided(s, a)]
      /\ orderly' = (orderly /\ (impls[s][a] # None \/ built = 1))
      /\ UNCHANGED <<built, holder>>
  BY DEF AddAttribute
<1>2. /\ nimpls' \in nimpls .. MaxImpls
      /\ Provided(s, a) \in [Types -> 0 .. nimpls']
      /\ state' \in [Streams -> SUBSET (1 .. nimpls')]
      /\ \A c \in Streams : c # holder[s] => state'[c] = state[c]
      /\ \/ state'[holder[s]] = NoState
         \/ state' = state /\ Provided(s, a) = impls[s]
  BY <1>1, ProvideFacts
<1>3. impls \in [Streams -> [Types -> 0 .. nimpls]] /\ nimpls \in Nat /\ MaxImpls \in Nat
  BY SourceAssumption DEF TypeOK
<1>4. [Types -> 0 .. nimpls] \subseteq [Types -> 0 .. nimpls']
  BY <1>2, <1>3
<1>5. impls' \in [Streams -> [Types -> 0 .. nimpls']]
  BY <1>1, <1>2, <1>3, <1>4
<1>6. \A q \in Streams : q # s => impls'[q] = impls[q]
  BY <1>1, <1>3
<1>7. impls[s][a] # None => state' = state /\ impls' = impls
  <2>1. ASSUME impls[s][a] # None PROVE state' = state /\ impls' = impls
    <3>1. state' = state
      BY <1>1, <2>1 DEF Provide
    <3>2. Provided(s, a) = impls[s]
      BY <1>3, <2>1 DEF Provided
    <3>3. QED
      BY <1>1, <1>3, <3>1, <3>2
  <2>2. QED
    BY <2>1
<1>8. Provided(s, a) = impls[s] => impls' = impls
  BY <1>1, <1>3
<1>9. QED
  BY <1>1, <1>2, <1>5, <1>6, <1>7, <1>8

LEMMA StepTypeOK == TypeOK /\ CellsBelow /\ [Next]_vars => TypeOK' /\ CellsBelow'
<1> SUFFICES ASSUME TypeOK, CellsBelow, [Next]_vars PROVE TypeOK' /\ CellsBelow'
  OBVIOUS
<1>a. /\ built \in Nat /\ Depth \in Nat /\ nimpls \in Nat /\ MaxImpls \in Nat
      /\ built \in 0 .. Depth /\ nimpls \in 0 .. MaxImpls
      /\ impls \in [Streams -> [Types -> 0 .. nimpls]]
      /\ holder \in [Streams -> Streams]
      /\ state \in [Streams -> SUBSET (1 .. nimpls)]
      /\ orderly \in BOOLEAN
      /\ \A s \in Streams : s > built => impls[s] = [b \in Types |-> None]
  BY SourceAssumption DEF TypeOK
<1>b. \A s \in Streams : holder[s] <= s /\ (s > built => holder[s] = s /\ state[s] = NoState)
  BY DEF CellsBelow
<1>c. \A q \in Streams : q \in Nat /\ holder[q] \in Nat
  BY <1>a DEF Streams
<1>1. CASE NewTokenizer
  BY <1>1, <1>a, <1>b DEF NewTokenizer, TypeOK, CellsBelow, Streams
<1>2. CASE NewFilter
  <2>1. /\ built \in 1 .. Depth - 1
        /\ built' = built + 1
        /\ nimpls' \in nimpls .. MaxImpls
        /\ impls' \in [Streams -> [Types -> 0 .. nimpls']]
        /\ \A s \in Streams : s # built + 1 => impls'[s] = impls[s]
        /\ UNCHANGED <<holder, state, orderly>>
    BY <1>2, NewFilterFacts
  <2>2. state' \in [Streams -> SUBSET (1 .. nimpls')]
    <3>1. 1 .. nimpls \subseteq 1 .. nimpls'
      BY <1>a, <2>1
    <3>2. QED
      BY <1>a, <2>1, <3>1
  <2>3. \A s \in Streams : s > built' => impls'[s] = [b \in Types |-> None]
    BY <1>a, <2>1 DEF Streams
  <2>4. TypeOK'
    BY <1>a, <2>1, <2>2, <2>3 DEF TypeOK
  <2>5. CellsBelow'
    BY <1>a, <1>b, <2>1 DEF CellsBelow, Streams
  <2>6. QED
    BY <2>4, <2>5
<1>3. ASSUME NEW s \in Streams, NEW a \in Types, AddAttribute(s, a)
      PROVE  TypeOK' /\ CellsBelow'
  <2>1. /\ s \in 1 .. built
        /\ nimpls' \in nimpls .. MaxImpls
        /\ impls' \in [Streams -> [Types -> 0 .. nimpls']]
        /\ \A q \in Streams : q # s => impls'[q] = impls[q]
        /\ state' \in [Streams -> SUBSET (1 .. nimpls')]
        /\ \A c \in Streams : c # holder[s] => state'[c] = state[c]
        /\ orderly' \in BOOLEAN
        /\ UNCHANGED <<built, holder>>
    BY <1>3, AddFacts
  <2>2. \A q \in Streams : q > built' => impls'[q] = [b \in Types |-> None]
    BY <1>a, <2>1
  <2>3. nimpls' \in 0 .. MaxImpls
    BY <1>a, <2>1
  <2>4. TypeOK'
    BY <1>a, <2>1, <2>2, <2>3 DEF TypeOK
  <2>5. holder[s] <= built
    BY <1>a, <1>b, <1>c, <2>1
  <2>6. \A q \in Streams : q > built => q # holder[s]
    BY <1>a, <1>c, <2>5
  <2>7. \A q \in Streams : q > built => state'[q] = NoState
    BY <1>b, <2>1, <2>6
  <2>8. CellsBelow'
    BY <1>b, <2>1, <2>7 DEF CellsBelow
  <2>9. QED
    BY <2>4, <2>8
<1>4. ASSUME NEW s \in Streams, NEW a \in Types, FilterAddAttribute(s, a)
      PROVE  TypeOK' /\ CellsBelow'
  <2> DEFINE r == s - 1
  <2>0. r = s - 1
    OBVIOUS
  <2> HIDE DEF r
  <2>1. /\ r \in Streams /\ s \in 2 .. built /\ r \in 1 .. built
        /\ nimpls' \in nimpls .. MaxImpls
        /\ impls' \in [Streams -> [Types -> 0 .. nimpls']]
        /\ \A q \in Streams : q \notin {r, s} => impls'[q] = impls[q]
        /\ state' \in [Streams -> SUBSET (1 .. nimpls')]
        /\ \A c \in Streams : c # holder[r] => state'[c] = state[c]
        /\ holder' \in [Streams -> Streams]
        /\ holder'[s] = holder[r]
        /\ \A q \in Streams : q # s => holder'[q] = holder[q]
        /\ built' = built
        /\ orderly' = (orderly /\ s = built)
    BY <1>4, <2>0, FilterAddFacts
  <2>2. s <= built /\ r <= built
    BY <1>a, <2>1
  <2>3. \A q \in Streams : q > built' => impls'[q] = [b \in Types |-> None]
    <3>1. \A q \in Streams : q > built => q \notin {r, s}
      BY <1>a, <2>1
    <3>2. QED
      BY <1>a, <2>1, <3>1
  <2>4. nimpls' \in 0 .. MaxImpls
    BY <1>a, <2>1
  <2>5. TypeOK'
    BY <1>a, <2>1, <2>3, <2>4 DEF TypeOK
  <2>6. holder[r] <= r /\ holder[r] <= s
    <3>1. r \in Nat /\ s \in Nat /\ holder[r] \in Nat
      BY <1>c, <2>1
    <3>2. r < s
      BY <3>1 DEF r
    <3>3. holder[r] <= r
      BY <1>b, <2>1
    <3>4. QED
      BY <3>1, <3>2, <3>3
  <2>7. \A q \in Streams : q > built => q # holder[r] /\ q # s
    <3>1. holder[r] \in Nat /\ s \in Nat
      BY <1>c, <2>1
    <3>2. QED
      BY <1>a, <1>c, <2>2, <2>6, <3>1
  <2>8. \A q \in Streams : holder'[q] <= q
    BY <1>b, <2>1, <2>6
  <2>9. \A q \in Streams : q > built => holder'[q] = q /\ state'[q] = NoState
    BY <1>b, <2>1, <2>7
  <2>10. CellsBelow'
    BY <2>1, <2>8, <2>9 DEF CellsBelow
  <2>11. QED
    BY <2>5, <2>10
<1>5. ASSUME NEW s \in Streams, GetCurrentState(s) PROVE TypeOK' /\ CellsBelow'
  <2>1. /\ s \in 1 .. built
        /\ state' = [state EXCEPT ![holder[s]] = Instances(s)]
        /\ UNCHANGED <<built, impls, holder, nimpls, orderly>>
    BY <1>5 DEF GetCurrentState
  <2>2. Instances(s) \subseteq 1 .. nimpls
    BY <1>a DEF Instances, None
  <2>3. TypeOK'
    BY <1>a, <2>1, <2>2 DEF TypeOK
  <2>4. \A q \in Streams : q > built => q # holder[s]
    BY <1>a, <1>b, <1>c, <2>1
  <2>5. \A q \in Streams : q > built => state'[q] = NoState
    BY <1>a, <1>b, <2>1, <2>4
  <2>6. CellsBelow'
    BY <1>b, <2>1, <2>5 DEF CellsBelow
  <2>7. QED
    BY <2>3, <2>6
<1>6. ASSUME NEW s \in Streams, RemoveAllAttributes(s) PROVE TypeOK' /\ CellsBelow'
  <2>1. /\ impls' = [impls EXCEPT ![s] = [b \in Types |-> None]]
        /\ orderly' = FALSE
        /\ UNCHANGED <<built, holder, state, nimpls>>
    BY <1>6 DEF RemoveAllAttributes
  <2>2. impls' \in [Streams -> [Types -> 0 .. nimpls]]
    BY <1>a, <2>1 DEF None
  <2>3. \A q \in Streams : q > built => impls'[q] = [b \in Types |-> None]
    BY <1>a, <2>1
  <2>4. TypeOK'
    BY <1>a, <2>1, <2>2, <2>3 DEF TypeOK
  <2>5. CellsBelow'
    BY <1>b, <2>1 DEF CellsBelow
  <2>6. QED
    BY <2>4, <2>5
<1>7. CASE UNCHANGED vars
  BY <1>7 DEF vars, TypeOK, CellsBelow
<1>8. QED
  BY <1>1, <1>2, <1>3, <1>4, <1>5, <1>6, <1>7 DEF Next

--------------------------------------------------------------------------------

(* The parts of the invariant that hold while attributes come in order. *)
Sharing == TokenizerIsShared /\ ChainShared /\ ListsOfUsers /\ FirstComplete

LEMMA NumbersFacts ==
  ASSUME TypeOK, CellsBelow
  PROVE  /\ built \in Nat
         /\ \A s \in 1 .. built : s \in Streams
         /\ \A s \in Streams : s \in Nat /\ s >= 1 /\ holder[s] \in Nat
         /\ \A s \in Streams : holder[s] \in Streams /\ holder[s] <= s
         /\ 1 \in Streams => holder[1] = 1
<1>1. built \in 0 .. Depth /\ Depth \in Nat /\ holder \in [Streams -> Streams]
  BY SourceAssumption DEF TypeOK
<1>2. built \in Nat /\ \A s \in 1 .. built : s \in Streams
  BY <1>1 DEF Streams
<1>3. \A s \in Streams : s \in Nat /\ s >= 1 /\ holder[s] \in Streams
  BY <1>1 DEF Streams
<1>4. \A s \in Streams : holder[s] <= s
  BY DEF CellsBelow
<1>5. ASSUME 1 \in Streams PROVE holder[1] = 1
  <2>1. holder[1] \in Nat /\ holder[1] >= 1 /\ holder[1] <= 1
    BY <1>3, <1>4, <1>5
  <2>2. QED
    BY <2>1
<1>6. QED
  BY <1>2, <1>3, <1>4, <1>5

(* Instances depend on the map of the stream alone. *)
LEMMA SameInstances ==
  ASSUME NEW q, NEW r, impls'[q] = impls[r]
  PROVE  Instances(q)' = Instances(r)
BY DEF Instances

LEMMA MoreInstances ==
  ASSUME NEW q, \A b \in Types : impls[q][b] # None => impls'[q][b] = impls[q][b]
  PROVE  Instances(q) \subseteq Instances(q)'
<1>1. ASSUME NEW x \in Instances(q) PROVE x \in Instances(q)'
  <2>1. PICK b \in Types : x = impls[q][b] /\ x # None
    BY <1>1 DEF Instances
  <2>2. impls'[q][b] = x
    BY <2>1
  <2>3. QED
    BY <2>1, <2>2 DEF Instances
<1>2. QED
  BY <1>1

LEMMA FilterAddSharing ==
  ASSUME TypeOK, CellsBelow, Sharing, orderly,
         NEW s \in Streams, NEW a \in Types, FilterAddAttribute(s, a), orderly'
  PROVE  Sharing'
<1> DEFINE r == s - 1
<1>0. r = s - 1
  OBVIOUS
<1> HIDE DEF r
<1>1. /\ r \in Streams /\ s \in 2 .. built /\ r \in 1 .. built
      /\ impls'[s] = impls'[r]
      /\ \A b \in Types : impls[r][b] # None => impls'[r][b] = impls[r][b]
      /\ \A q \in Streams : q \notin {r, s} => impls'[q] = impls[q]
      /\ \A c \in Streams : c # holder[r] => state'[c] = state[c]
      /\ state'[holder[r]] = NoState \/ (state' = state /\ impls'[r] = impls[r])
      /\ holder'[s] = holder[r]
      /\ \A q \in Streams : q # s => holder'[q] = holder[q]
      /\ built' = built
      /\ s = built
  BY <1>0, FilterAddFacts
<1>2. /\ built \in Nat
      /\ \A q \in 1 .. built : q \in Streams
      /\ \A q \in Streams : q \in Nat /\ q >= 1 /\ holder[q] \in Nat
      /\ \A q \in Streams : holder[q] \in Streams /\ holder[q] <= q
      /\ 1 \in Streams => holder[1] = 1
  BY NumbersFacts
<1>3. /\ 1 \in Streams /\ 1 \in 1 .. built /\ s # 1 /\ r # s /\ r < s
      /\ \A q \in 1 .. built : q # s => q < s
  BY <1>0, <1>1, <1>2
<1>4. holder'[1] = holder[1]
  BY <1>1, <1>3
(* The input still agrees with the tokenizer, and so does the filter now. *)
<1>5. ASSUME NEW b \in Types, holder[r] = holder[1], impls'[1][b] # None
      PROVE  impls'[r][b] = impls'[1][b]
  <2>1. CASE r = 1
    BY <2>1
  <2>2. CASE r # 1
    <3>1. impls'[1] = impls[1]
      BY <1>1, <1>3, <2>2
    <3>2. impls[r][b] = impls[1][b]
      BY <1>1, <1>5, <3>1 DEF Sharing, TokenizerIsShared, Joined
    <3>3. QED
      BY <1>1, <1>5, <3>1, <3>2
  <2>3. QED
    BY <2>1, <2>2
<1>6. TokenizerIsShared'
  <2>1. ASSUME NEW q \in 1 .. built, NEW b \in Types,
               holder'[q] = holder'[1], impls'[1][b] # None
        PROVE  impls'[q][b] = impls'[1][b]
    <3>1. CASE q \in {r, s}
      BY <1>1, <1>3, <1>4, <1>5, <2>1, <3>1
    <3>2. CASE q \notin {r, s} /\ r # 1
      <4>1. impls'[1] = impls[1] /\ impls'[q] = impls[q] /\ holder'[q] = holder[q]
        BY <1>1, <1>2, <1>3, <3>2
      <4>2. QED
        BY <1>4, <2>1, <4>1 DEF Sharing, TokenizerIsShared, Joined
    <3>3. CASE q \notin {r, s} /\ r = 1
      BY <1>1, <1>2, <3>3 DEF r
    <3>4. QED
      BY <3>1, <3>2, <3>3
  <2>2. QED
    BY <1>1, <2>1 DEF TokenizerIsShared, Joined
<1>7. ChainShared'
  <2>1. ASSUME NEW q \in 2 .. built
        PROVE  /\ holder'[q] \in {q, holder'[q - 1]}
               /\ q = built /\ holder'[q] = holder'[q - 1] => impls'[q] = impls'[q - 1]
    <3>1. CASE q = s
      BY <1>1, <1>3, <3>1 DEF r
    <3>2. CASE q # s
      <4>1. q \in Streams /\ q - 1 \in Streams /\ q - 1 # s
        BY <1>1, <1>2
      <4>2. holder'[q] = holder[q] /\ holder'[q - 1] = holder[q - 1]
        BY <1>1, <3>2, <4>1
      <4>3. QED
        BY <1>1, <3>2, <4>2 DEF Sharing, ChainShared
    <3>3. QED
      BY <3>1, <3>2
  <2>2. QED
    BY <1>1, <2>1 DEF ChainShared
(* What the filter had, if another stream uses its list, the input has. *)
<1>8. ListsOfUsers'
  <2>1. ASSUME NEW q \in 1 .. built, NEW x \in state'[holder'[q]]
        PROVE  \E u \in 1 .. built : holder'[u] = holder'[q] /\ x \in Instances(u)'
    <3>1. PICK p \in 1 .. built : p # s /\ holder[p] = holder'[q]
      BY <1>1, <1>2, <1>3, <2>1
    <3>2. x \in state[holder[p]]
      <4>1. CASE holder[p] = holder[r]
        BY <1>1, <2>1, <3>1, <4>1 DEF NoState
      <4>2. CASE holder[p] # holder[r]
        BY <1>1, <1>2, <2>1, <3>1, <4>2
      <4>3. QED
        BY <4>1, <4>2
    <3>3. PICK u \in 1 .. built : holder[u] = holder[p] /\ x \in Instances(u)
      BY <3>1, <3>2 DEF Sharing, ListsOfUsers
    <3>4. CASE u # s
      <4>1. x \in Instances(u)'
        <5>1. CASE u = r
          BY <1>1, <3>3, <5>1, MoreInstances
        <5>2. CASE u # r
          <6>1. impls'[u] = impls[u]
            BY <1>1, <1>2, <3>4, <5>2
          <6>2. QED
            BY <3>3, <6>1, SameInstances
        <5>3. QED
          BY <5>1, <5>2
      <4>2. holder'[u] = holder[u]
        BY <1>1, <1>2, <3>4
      <4>3. QED
        BY <3>1, <3>3, <4>1, <4>2
    <3>5. CASE u = s
      <4>1. holder[s] # s
        <5>1. holder[p] <= p /\ p < s /\ p \in Nat /\ holder[p] \in Nat /\ s \in Nat
          BY <1>2, <1>3, <3>1
        <5>2. holder[p] < s
          BY <5>1
        <5>3. QED
          BY <3>3, <3>5, <5>1, <5>2
      <4>2. holder[s] = holder[r] /\ impls[s] = impls[r]
        BY <1>1, <4>1 DEF Sharing, ChainShared, r
      <4>3. x \in Instances(r)
        BY <3>3, <3>5, <4>2 DEF Instances
      <4>4. x \in Instances(r)'
        BY <1>1, <4>3, MoreInstances
      <4>5. holder'[r] = holder'[q]
        BY <1>1, <1>3, <3>1, <3>3, <3>5, <4>2
      <4>6. QED
        BY <1>1, <4>4, <4>5
    <3>6. QED
      BY <3>4, <3>5
  <2>2. QED
    BY <1>1, <2>1 DEF ListsOfUsers
<1>9. FirstComplete'
  <2>1. state[1] = NoState \/ Instances(1) \subseteq state[1]
    BY <1>2, <1>3 DEF Sharing, FirstComplete
  <2>2. CASE holder[r] = 1 /\ state'[1] = NoState
    BY <2>2 DEF FirstComplete
  <2>3. CASE holder[r] = 1 /\ state' = state /\ impls'[r] = impls[r]
    <3>1. impls'[1] = impls[1]
      BY <1>1, <1>3, <2>3
    <3>2. Instances(1)' = Instances(1)
      BY <3>1, SameInstances
    <3>3. QED
      BY <2>1, <2>3, <3>2 DEF FirstComplete
  <2>4. CASE holder[r] # 1
    <3>1. r # 1
      BY <1>2, <1>3, <2>4
    <3>2. impls'[1] = impls[1] /\ state'[1] = state[1]
      BY <1>1, <1>3, <2>4, <3>1
    <3>3. Instances(1)' = Instances(1)
      BY <3>2, SameInstances
    <3>4. QED
      BY <2>1, <3>2, <3>3 DEF FirstComplete
  <2>5. QED
    BY <1>1, <2>2, <2>3, <2>4
<1>10. QED
  BY <1>6, <1>7, <1>8, <1>9 DEF Sharing

LEMMA NewFilterSharing ==
  ASSUME TypeOK, CellsBelow, Sharing, orderly, NewFilter
  PROVE  Sharing'
<1> DEFINE n == built + 1
<1>1. /\ built \in 1 .. Depth - 1
      /\ built' = n
      /\ \A q \in Streams : q # n => impls'[q] = impls[q]
      /\ UNCHANGED <<holder, state, orderly>>
  BY NewFilterFacts
<1>2. /\ built \in Nat
      /\ \A q \in 1 .. built : q \in Streams
      /\ \A q \in Streams : q \in Nat /\ q >= 1 /\ holder[q] \in Nat
      /\ \A q \in Streams : holder[q] \in Streams /\ holder[q] <= q
      /\ 1 \in Streams => holder[1] = 1
  BY NumbersFacts
<1>3. /\ n \in Streams /\ 1 \in Streams /\ 1 # n /\ 1 \in 1 .. built
      /\ n \in Nat /\ \A q \in 1 .. n : q = n \/ q \in 1 .. built
      /\ \A q \in 1 .. built : q # n /\ q < n
      /\ \A q \in 1 .. built : q \in 1 .. n
  BY <1>1, <1>2, SourceAssumption DEF Streams
<1>4. holder[n] = n /\ state[n] = NoState
  BY <1>2, <1>3 DEF CellsBelow
<1> HIDE DEF n
<1>5. \A q \in 1 .. built : impls'[q] = impls[q] /\ Instances(q)' = Instances(q)
  BY <1>1, <1>2, <1>3, SameInstances
<1>6. TokenizerIsShared'
  BY <1>1, <1>2, <1>3, <1>4, <1>5 DEF Sharing, TokenizerIsShared, Joined
<1>7. ChainShared'
  <2>1. ASSUME NEW q \in 2 .. n
        PROVE  /\ holder[q] \in {q, holder[q - 1]}
               /\ q = n /\ holder[q] = holder[q - 1] => impls'[q] = impls'[q - 1]
    <3>1. CASE q = n
      <4>1. q - 1 = built /\ built \in Streams
        BY <1>1, <1>2, <3>1 DEF n
      <4>2. holder[q - 1] <= built /\ holder[q - 1] \in Nat
        BY <1>2, <4>1
      <4>3. holder[q - 1] # n
        BY <1>2, <4>2 DEF n
      <4>4. QED
        BY <1>4, <3>1, <4>3
    <3>2. CASE q # n
      <4>1. q \in 2 .. built
        BY <1>2, <3>2 DEF n
      <4>2. QED
        BY <3>2, <4>1 DEF Sharing, ChainShared
    <3>3. QED
      BY <3>1, <3>2
  <2>2. QED
    BY <1>1, <2>1 DEF ChainShared
<1>8. ListsOfUsers'
  <2>1. ASSUME NEW q \in 1 .. n, NEW x \in state[holder[q]]
        PROVE  \E u \in 1 .. n : holder[u] = holder[q] /\ x \in Instances(u)'
    <3>1. q \in 1 .. built
      BY <1>3, <1>4, <2>1 DEF NoState
    <3>2. PICK u \in 1 .. built : holder[u] = holder[q] /\ x \in Instances(u)
      BY <2>1, <3>1 DEF Sharing, ListsOfUsers
    <3>3. QED
      BY <1>3, <1>5, <3>2
  <2>2. QED
    BY <1>1, <2>1 DEF ListsOfUsers
<1>9. FirstComplete'
  BY <1>1, <1>2, <1>3, <1>5 DEF Sharing, FirstComplete
<1>10. QED
  BY <1>6, <1>7, <1>8, <1>9 DEF Sharing

(* Only a tokenizer without filters adds to itself in order. *)
LEMMA AddSharing ==
  ASSUME TypeOK, CellsBelow, Sharing, orderly,
         NEW s \in Streams, NEW a \in Types, AddAttribute(s, a), orderly'
  PROVE  Sharing'
<1>1. /\ s \in 1 .. built
      /\ state'[holder[s]] = NoState \/ (state' = state /\ impls' = impls)
      /\ built = 1 \/ (state' = state /\ impls' = impls)
      /\ UNCHANGED <<built, holder>>
  BY AddFacts
<1>2. 1 \in Streams => holder[1] = 1
  BY NumbersFacts
<1>3. CASE state' = state /\ impls' = impls
  BY <1>1, <1>3 DEF Sharing, TokenizerIsShared, ChainShared, ListsOfUsers, FirstComplete,
                    Joined, Instances
<1>4. CASE built = 1 /\ state'[holder[s]] = NoState
  <2>1. s = 1 /\ holder[1] = 1 /\ state'[1] = NoState
    BY <1>1, <1>2, <1>4
  <2>2. 1 .. built' = {1} /\ 2 .. built' = {}
    BY <1>1, <1>4
  <2>3. TokenizerIsShared' /\ ChainShared'
    BY <2>2 DEF TokenizerIsShared, ChainShared
  <2>4. ListsOfUsers' /\ FirstComplete'
    BY <1>1, <2>1, <2>2 DEF ListsOfUsers, FirstComplete, NoState
  <2>5. QED
    BY <2>3, <2>4 DEF Sharing
<1>5. QED
  BY <1>1, <1>3, <1>4

(* Whoever computes the list behind the tokenizer's cell has all it has. *)
LEMMA GetSharing ==
  ASSUME TypeOK, CellsBelow, Sharing, orderly, NEW s \in Streams, GetCurrentState(s)
  PROVE  Sharing'
<1>1. /\ s \in 1 .. built
      /\ state' = [state EXCEPT ![holder[s]] = Instances(s)]
      /\ UNCHANGED <<built, impls, holder, nimpls, orderly>>
  BY DEF GetCurrentState
<1>2. /\ built \in Nat
      /\ \A q \in 1 .. built : q \in Streams
      /\ \A q \in Streams : q \in Nat /\ q >= 1 /\ holder[q] \in Streams
      /\ 1 \in Streams => holder[1] = 1
  BY NumbersFacts
<1>3. /\ state'[holder[s]] = Instances(s)
      /\ \A c \in Streams : c # holder[s] => state'[c] = state[c]
  BY <1>1, <1>2 DEF TypeOK
<1>4. \A q : Instances(q)' = Instances(q)
  BY <1>1 DEF Instances
<1>5. TokenizerIsShared' /\ ChainShared'
  BY <1>1 DEF Sharing, TokenizerIsShared, ChainShared, Joined
<1>6. ListsOfUsers'
  <2>1. ASSUME NEW q \in 1 .. built, NEW x \in state'[holder[q]]
        PROVE  \E u \in 1 .. built : holder[u] = holder[q] /\ x \in Instances(u)'
    <3>1. CASE holder[q] = holder[s]
      BY <1>1, <1>3, <1>4, <2>1, <3>1
    <3>2. CASE holder[q] # holder[s]
      <4>1. x \in state[holder[q]]
        BY <1>2, <1>3, <2>1, <3>2
      <4>2. QED
        BY <1>4, <4>1 DEF Sharing, ListsOfUsers
    <3>3. QED
      BY <3>1, <3>2
  <2>2. QED
    BY <1>1, <2>1 DEF ListsOfUsers
<1>7. FirstComplete'
  <2>1. 1 \in Streams /\ holder[1] = 1 /\ 1 \in 1 .. built
    BY <1>1, <1>2
  <2>2. CASE holder[s] = 1
    <3>1. ASSUME NEW x \in Instances(1) PROVE x \in Instances(s)
      <4>1. PICK b \in Types : x = impls[1][b] /\ x # None
        BY <3>1 DEF Instances
      <4>2. impls[s][b] = x
        BY <1>1, <2>1, <2>2, <4>1 DEF Sharing, TokenizerIsShared, Joined
      <4>3. QED
        BY <4>1, <4>2 DEF Instances
    <3>2. Instances(1)' \subseteq state'[1]
      BY <1>3, <1>4, <2>2, <3>1
    <3>3. QED
      BY <3>2 DEF FirstComplete
  <2>3. CASE holder[s] # 1
    BY <1>1, <1>3, <1>4, <2>1, <2>3 DEF Sharing, FirstComplete
  <2>4. QED
    BY <2>2, <2>3
<1>8. QED
  BY <1>5, <1>6, <1>7 DEF Sharing

LEMMA StepSharing == SharingInv /\ [Next]_vars => SharingInv'
<1> SUFFICES ASSUME SharingInv, [Next]_vars PROVE SharingInv'
  OBVIOUS
<1>1. TypeOK /\ CellsBelow /\ (orderly => Sharing)
  BY DEF SharingInv, Sharing
<1>2. TypeOK' /\ CellsBelow'
  BY <1>1, StepTypeOK
<1>3. ASSUME orderly' PROVE Sharing'
  <2>1. CASE NewTokenizer
    <3>1. /\ built = 0 /\ built' = 1
          /\ UNCHANGED <<impls, holder, state, orderly>>
      BY <2>1 DEF NewTokenizer
    <3>2. 1 .. built' = {1} /\ 2 .. built' = {} /\ 1 \in Streams
      BY <2>1, <3>1, SourceAssumption DEF NewTokenizer, Streams
    <3>3. holder[1] = 1 /\ state[1] = NoState
      BY <1>1, <3>1, <3>2 DEF CellsBelow
    <3>4. TokenizerIsShared' /\ ChainShared'
      BY <3>2 DEF TokenizerIsShared, ChainShared
    <3>5. ListsOfUsers' /\ FirstComplete'
      BY <3>1, <3>2, <3>3 DEF ListsOfUsers, FirstComplete, NoState
    <3>6. QED
      BY <3>4, <3>5 DEF Sharing
  <2>2. CASE NewFilter
    <3>1. orderly
      BY <1>3, <2>2 DEF NewFilter
    <3>2. QED
      BY <1>1, <2>2, <3>1, NewFilterSharing
  <2>3. ASSUME NEW s \in Streams, NEW a \in Types, AddAttribute(s, a) PROVE Sharing'
    <3>1. orderly
      BY <1>3, <2>3 DEF AddAttribute
    <3>2. QED
      BY <1>1, <1>3, <2>3, <3>1, AddSharing
  <2>4. ASSUME NEW s \in Streams, NEW a \in Types, FilterAddAttribute(s, a)
        PROVE  Sharing'
    <3>1. orderly
      BY <1>3, <2>4 DEF FilterAddAttribute
    <3>2. QED
      BY <1>1, <1>3, <2>4, <3>1, FilterAddSharing
  <2>5. ASSUME NEW s \in Streams, GetCurrentState(s) PROVE Sharing'
    <3>1. orderly
      BY <1>3, <2>5 DEF GetCurrentState
    <3>2. QED
      BY <1>1, <2>5, <3>1, GetSharing
  <2>6. ASSUME NEW s \in Streams, RemoveAllAttributes(s) PROVE Sharing'
    BY <1>3, <2>6 DEF RemoveAllAttributes
  <2>7. CASE UNCHANGED vars
    BY <1>1, <1>3, <2>7 DEF vars, Sharing, TokenizerIsShared, ChainShared, ListsOfUsers,
                            FirstComplete, Joined, Instances
  <2>8. QED
    BY <2>1, <2>2, <2>3, <2>4, <2>5, <2>6, <2>7 DEF Next
<1>4. TokenizerIsShared'
  BY <1>3 DEF Sharing, TokenizerIsShared
<1>5. QED
  BY <1>2, <1>3, <1>4 DEF SharingInv, Sharing

LEMMA AlwaysSharing == Spec => []SharingInv
<1>1. QED
  BY InitSharing, StepSharing, PTL DEF Spec

--------------------------------------------------------------------------------

(* Types: instances are numbered as they are made, and a stream that was not
   constructed has none. *)
THEOREM TypeCorrect == Spec => []TypeOK
<1>1. SharingInv => TypeOK
  BY DEF SharingInv
<1>2. QED
  BY <1>1, AlwaysSharing, PTL

(* While attributes come from constructors only, bottom up, every filter that
   shares the tokenizer's list reads what the tokenizer writes. *)
THEOREM FiltersReadTheTokenizer == Spec => []TokenizerIsShared
<1>1. SharingInv => TokenizerIsShared
  BY DEF SharingInv
<1>2. QED
  BY <1>1, AlwaysSharing, PTL

(* Under the same condition no stream's list points to a destroyed attribute,
   although streams whose maps differ share lists. *)
THEOREM NoListDangles == Spec => []ListsAreLiving
<1>1. SharingInv => ListsAreLiving
  <2> SUFFICES ASSUME SharingInv, orderly, NEW s \in 1 .. built, NEW x \in Current(s)
               PROVE  x \in Living
    BY DEF ListsAreLiving
  <2>1. CASE state[holder[s]] = NoState
    BY <2>1 DEF Current, Living
  <2>2. CASE state[holder[s]] # NoState
    <3>1. x \in state[holder[s]]
      BY <2>2 DEF Current
    <3>2. PICK q \in 1 .. built : x \in Instances(q)
      BY <3>1 DEF SharingInv, ListsOfUsers
    <3>3. QED
      BY <3>2 DEF Living
  <2>3. QED
    BY <2>1, <2>2
<1>2. QED
  BY <1>1, AlwaysSharing, PTL

(* And the tokenizer's ClearAttributes reaches all of its attributes, whichever
   stream computed the list it walks. *)
THEOREM ClearReachesAll == Spec => []TokenizerClearsAll
<1>1. SharingInv => TokenizerClearsAll
  <2> SUFFICES ASSUME SharingInv, orderly, built > 0
               PROVE  Instances(1) \subseteq Current(1)
    BY DEF TokenizerClearsAll
  <2>1. TypeOK /\ CellsBelow /\ (state[1] = NoState \/ Instances(1) \subseteq state[1])
    BY DEF SharingInv, FirstComplete
  <2>2. built \in Nat /\ (\A s \in 1 .. built : s \in Streams) /\ (1 \in Streams => holder[1] = 1)
    BY <2>1, NumbersFacts
  <2>3. holder[1] = 1
    BY <2>2
  <2>4. QED
    BY <2>1, <2>3 DEF Current
<1>2. QED
  BY <1>1, AlwaysSharing, PTL

===============================================================================

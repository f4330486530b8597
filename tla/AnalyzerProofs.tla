---------------------------- MODULE AnalyzerProofs ----------------------------
(***************************************************************************)
(* Proofs about Analyzer, for any threads, users, fields, texts and stop   *)
(* words.                                                                  *)
(***************************************************************************)
EXTENDS Analyzer, TLAPS

(* What the operators of StringReader do to a reader of the right type. *)
LEMMA EmptyType == Empty \in ReaderStates /\ Empty.pos <= Len(Empty.str)
BY DEF Empty, NewReader, Rewound, ReaderStates

LEMMA NewReaderType ==
  ASSUME NEW s \in Seq(Words)
  PROVE  LET r == NewReader(s)
         IN  r \in ReaderStates /\ r.str = s /\ r.pos = 0 /\ Good(r) /\ r.pos <= Len(r.str)
BY DEF NewReader, Rewound, ReaderStates, Good

LEMMA SetValueType ==
  ASSUME NEW s \in Seq(Words), NEW o \in ReaderStates
  PROVE  LET r == SetValue(o, s)
         IN  r \in ReaderStates /\ r.str = s /\ r.pos = 0 /\ Good(r) /\ r.pos <= Len(r.str)
BY DEF SetValue, Rewound, ReaderStates, Good

LEMMA NoUseType == NoUse \in Uses
BY DEF NoUse, Uses

LEMMA HarmedType ==
  ASSUME NEW u \in Uses
  PROVE  Harmed(u) \in Uses /\ Harmed(u).harmed /\ Harmed(u).phase = u.phase
BY DEF Harmed, Uses

LEMMA ReaderNames ==
  /\ \A p \in Users : Own(p) \in Readers
  /\ \A k \in Fields : Reusable(k) \in Readers
  /\ \A p \in Users, k \in Fields : Own(p) # Reusable(k)
  /\ \A p, q \in Users : Own(p) = Own(q) => p = q
  /\ \A k, l \in Fields : Reusable(k) = Reusable(l) => k = l
BY DEF Own, Reusable, Readers

(* The words accepted up to the next that is. *)
LEMMA AcceptedNext ==
  ASSUME NEW s \in Seq(Words), NEW p \in Nat, NEW j \in 1..Len(s), p < j,
         \A i \in p + 1..j - 1 : s[i] \in StopWords, s[j] \notin StopWords
  PROVE  Accepted(s, j) = Accepted(s, p) \cup {<<j, s[j]>>}
<1>1. {i \in 1..j : s[i] \notin StopWords} = {i \in 1..p : s[i] \notin StopWords} \cup {j}
  OBVIOUS
<1>2. QED
  BY <1>1 DEF Accepted

LEMMA AcceptedRest ==
  ASSUME NEW s \in Seq(Words), NEW p \in Nat, p <= Len(s),
         \A i \in p + 1..Len(s) : s[i] \in StopWords
  PROVE  Accepted(s, Len(s)) = Accepted(s, p)
<1>1. {i \in 1..Len(s) : s[i] \notin StopWords} = {i \in 1..p : s[i] \notin StopWords}
  OBVIOUS
<1>2. QED
  BY <1>1 DEF Accepted

LEMMA AcceptedNone == \A s : Accepted(s, 0) = {}
BY DEF Accepted

LEMMA InitInv == Init => AnalyzerInv
<1> SUFFICES ASSUME Init PROVE AnalyzerInv
  OBVIOUS
<1>1. NewComponents \in Components /\ NewComponents.input = Illegal /\ NewComponents.pending = Illegal
  BY DEF NewComponents, Components
<1>2. NoUse \in Uses /\ NoUse.phase = "idle" /\ ~NoUse.harmed /\ NoUse.at = 0 /\ NoUse.taken = {}
  BY NoUseType DEF NoUse
<1>3. TypeOK
  BY <1>1, <1>2, EmptyType, AnalyzerAssumption DEF Init, TypeOK, AnalyzerAssumption
<1>4. ASSUME NEW t \in Threads PROVE ThreadInv(t)
  <2>1. \A r \in Readers : reader[t][r] = Empty
    BY DEF Init
  <2>2. \A k \in Fields : comp[t][k] = NewComponents
    BY DEF Init
  <2>3. \A p \in Users : use[t][p] = NoUse
    BY DEF Init
  <2>4. QED
    BY <1>1, <1>2, <2>1, <2>2, <2>3, EmptyType DEF ThreadInv, PointsTo, InUse, Idle
<1>5. QED
  BY <1>3, <1>4 DEF AnalyzerInv

(* A thread whose part of the state is untouched. *)
LEMMA OtherThread ==
  ASSUME AnalyzerInv, NEW t \in Threads, key' = key, comp'[t] = comp[t],
         reader'[t] = reader[t], use'[t] = use[t]
  PROVE  ThreadInv(t)'
<1>1. ThreadInv(t)
  BY DEF AnalyzerInv
<1>2. \A k \in Fields : PointsTo(comp[t][k], k)' <=> PointsTo(comp[t][k], k)
  BY DEF PointsTo
<1>3. \A p \in Users : /\ InUse(t, p)' <=> InUse(t, p)
                       /\ Idle(t, p)' <=> Idle(t, p)
                       /\ InStep(t, p)' <=> InStep(t, p)
  BY DEF InUse, Idle, InStep, Given
<1>4. QED
  BY <1>1, <1>2, <1>3 DEF ThreadInv

(* A call that somebody makes on components, and what it has to leave for the
   invariant to hold: the components c, the readers rd and their own use u. *)
Called(t, p, c, rd, u) ==
  /\ UNCHANGED <<key, closed, ended, running>>
  /\ stored' \in [Threads -> SUBSET Fields]
  /\ comp' = [comp EXCEPT ![t][key[p]] = c]
  /\ reader' = [reader EXCEPT ![t] = rd]
  /\ use' = Others(t, p, u)

ReadersAre(rd) ==
  /\ rd \in [Readers -> ReaderStates]
  /\ \A r \in Readers : rd[r].pos <= Len(rd[r].str)

OthersKept(t, p, rd) ==
  \A q \in Users : key[q] # key[p] =>
    rd[Own(q)] = reader[t][Own(q)] /\ rd[Reusable(key[q])] = reader[t][Reusable(key[q])]

LEMMA CallInv ==
  ASSUME AnalyzerInv, NEW t \in Threads, NEW p \in Users, NEW c \in Components,
         NEW rd, NEW u \in Uses, Called(t, p, c, rd, u), ReadersAre(rd),
         OthersKept(t, p, rd), PointsTo(c, key[p]),
         u.phase \in {"idle", "looking"} => ~u.harmed /\ u.at = 0 /\ u.taken = {},
         u.phase \in {"idle", "looking"}
           /\ (\A q \in Users \ {p} : key[q] = key[p] => ~InUse(t, q)) => c.input = Illegal,
         u.phase \notin {"idle", "looking"} /\ ~u.harmed => InStep(t, p)',
         u.harmed => use[t][p].harmed
  PROVE  AnalyzerInv'
<1> USE DEF AnalyzerInv, TypeOK, Called, ReadersAre, OthersKept
<1>0. ThreadInv(t)
  OBVIOUS
<1>1. \A q \in Users : use'[t][q] = IF q = p THEN u
                       ELSE IF InUse(t, q) /\ key[q] = key[p] THEN Harmed(use[t][q])
                            ELSE use[t][q]
  <2>1. use' = [use EXCEPT ![t] = [q \in Users |->
                  IF q = p THEN u
                  ELSE IF InUse(t, q) /\ key[q] = key[p] THEN Harmed(use[t][q]) ELSE use[t][q]]]
    BY DEF Others
  <2> HIDE DEF InUse, Harmed
  <2>2. QED
    BY <2>1
<1>2. \A q \in Users : use'[t][q] \in Uses
  <2>1. \A q \in Users : use[t][q] \in Uses /\ Harmed(use[t][q]) \in Uses
    BY HarmedType
  <2>2. QED
    BY <1>1, <2>1
<1>3. TypeOK'
  <2>1. use' \in [Threads -> [Users -> Uses]]
    <3>1. [q \in Users |-> IF q = p THEN u
             ELSE IF InUse(t, q) /\ key[q] = key[p] THEN Harmed(use[t][q]) ELSE use[t][q]]
           \in [Users -> Uses]
      <4>1. \A q \in Users : use[t][q] \in Uses /\ Harmed(use[t][q]) \in Uses
        BY HarmedType
      <4>2. QED
        BY <4>1
    <3>2. QED
      BY <3>1 DEF Others
  <2>2. key[p] \in Fields
    OBVIOUS
  <2>3. comp' \in [Threads -> [Fields -> Components]]
    BY <2>2
  <2>4. reader' \in [Threads -> [Readers -> ReaderStates]]
    OBVIOUS
  <2>5. QED
    BY <2>1, <2>3, <2>4
<1>4. ASSUME NEW v \in Threads, v # t PROVE ThreadInv(v)'
  <2>1. comp'[v] = comp[v] /\ reader'[v] = reader[v] /\ use'[v] = use[v]
    BY <1>4 DEF Others
  <2>2. QED
    BY <2>1, OtherThread
<1>5. ThreadInv(t)'
  <2>1. reader'[t] = rd
    OBVIOUS
  <2>2. \A k \in Fields : comp'[t][k] = IF k = key[p] THEN c ELSE comp[t][k]
    OBVIOUS
  <2>3. /\ InUse(t, p)' <=> u.phase \notin {"idle", "looking"}
        /\ \A q \in Users \ {p} : InUse(t, q)' <=> InUse(t, q)
    <3>1. /\ use'[t][p] = u
          /\ \A q \in Users \ {p} : use'[t][q].phase = use[t][q].phase
      BY <1>1, HarmedType
    <3>2. u.phase \in {"idle", "looking", "got", "running", "exhausted", "ended"}
      BY DEF Uses
    <3>3. QED
      BY <3>1, <3>2 DEF InUse
  <2>4. \A q \in Users \ {p} : (InUse(t, q) /\ key[q] = key[p]) => use'[t][q].harmed
    BY <1>1, HarmedType
  <2>5. \A q \in Users \ {p} : ~(InUse(t, q) /\ key[q] = key[p]) => use'[t][q] = use[t][q]
    BY <1>1
  <2>6. ASSUME NEW k \in Fields
        PROVE  /\ PointsTo(comp[t][k], k)'
               /\ (\A q \in Users : key[q] = k => ~InUse(t, q))' => comp'[t][k].input = Illegal
    <3>1. CASE k = key[p]
      <4>1. PointsTo(c, k)'
        BY <3>1 DEF PointsTo
      <4>2. QED
        BY <2>2, <2>3, <3>1, <4>1 DEF PointsTo
    <3>2. CASE k # key[p]
      <4>1. comp'[t][k] = comp[t][k] /\ PointsTo(comp[t][k], k)
        BY <1>0, <2>2, <3>2 DEF ThreadInv
      <4>2. PointsTo(comp[t][k], k)'
        BY <4>1 DEF PointsTo
      <4>3. ASSUME \A q \in Users : key[q] = k => ~InUse(t, q)' PROVE comp[t][k].input = Illegal
        <5>1. \A q \in Users : key[q] = k => ~InUse(t, q)
          BY <2>3, <3>2, <4>3
        <5>2. QED
          BY <1>0, <5>1 DEF ThreadInv
      <4>4. QED
        BY <4>1, <4>2, <4>3
    <3>3. QED
      BY <3>1, <3>2
  <2>7. ASSUME NEW q \in Users
        PROVE  /\ Idle(t, q)' => ~use'[t][q].harmed /\ use'[t][q].at = 0 /\ use'[t][q].taken = {}
               /\ use'[t][q].harmed => \E o \in Users \ {q} : key[o] = key[q]
    <3>1. CASE q = p
      <4>1. use'[t][q] = u
        BY <1>1, <3>1
      <4>2. u.harmed => \E o \in Users \ {q} : key[o] = key[q]
        BY <1>0, <3>1 DEF ThreadInv
      <4>3. QED
        BY <4>1, <4>2 DEF Idle
    <3>2. CASE q # p /\ InUse(t, q) /\ key[q] = key[p]
      <4>1. ~Idle(t, q)'
        BY <2>3, <3>2, <1>2 DEF InUse, Idle, Uses
      <4>2. p \in Users \ {q} /\ key[p] = key[q]
        BY <3>2
      <4>3. QED
        BY <4>1, <4>2
    <3>3. CASE q # p /\ ~(InUse(t, q) /\ key[q] = key[p])
      <4>1. use'[t][q] = use[t][q]
        BY <2>5, <3>3
      <4>2. QED
        BY <1>0, <4>1 DEF ThreadInv, Idle
    <3>4. QED
      BY <3>1, <3>2, <3>3
  <2>8. ASSUME NEW q \in Users, InUse(t, q)', ~use'[t][q].harmed PROVE InStep(t, q)'
    <3>1. CASE q = p
      BY <1>1, <2>3, <2>8, <3>1
    <3>2. CASE q # p
      <4>1. use'[t][q] = use[t][q] /\ InUse(t, q) /\ key[q] # key[p]
        BY <2>3, <2>4, <2>5, <2>8, <3>2
      <4>2. InStep(t, q)
        BY <1>0, <2>8, <4>1 DEF ThreadInv
      <4>3. comp'[t][key[q]] = comp[t][key[q]]
        BY <2>2, <4>1
      <4>4. Given(t, q)' = Given(t, q)
        BY <4>1 DEF Given
      <4>5. reader'[t][Given(t, q)] = reader[t][Given(t, q)]
        BY <2>1, <4>1 DEF Given
      <4>6. QED
        BY <4>1, <4>2, <4>3, <4>4, <4>5 DEF InStep
    <3>3. QED
      BY <3>1, <3>2
  <2>9. ASSUME NEW q \in Users, NEW o \in Users, InUse(t, q)', InUse(t, o)', key[q] = key[o],
               ~use'[t][q].harmed, ~use'[t][o].harmed
        PROVE  q = o
    <3>1. CASE q = p \/ o = p
      BY <2>3, <2>4, <2>9, <3>1
    <3>2. CASE q # p /\ o # p
      <4>1. use'[t][q] = use[t][q] /\ use'[t][o] = use[t][o] /\ InUse(t, q) /\ InUse(t, o)
        BY <2>3, <2>4, <2>5, <2>9, <3>2
      <4>2. QED
        BY <1>0, <2>9, <4>1 DEF ThreadInv
    <3>3. QED
      BY <3>1, <3>2
  <2>10. QED
    BY <2>1, <2>6, <2>7, <2>8, <2>9 DEF ThreadInv
<1>6. QED
  BY <1>3, <1>4, <1>5

(* A call that ends before it touches the components: only the caller's own
   reader and their use, who is not and does not get in, change. *)
LEMMA AsideInv ==
  ASSUME AnalyzerInv, NEW t \in Threads, NEW p \in Users, NEW u \in Uses,
         NEW rd \in [Readers -> ReaderStates],
         UNCHANGED <<key, closed, ended, running, comp>>, stored' \in [Threads -> SUBSET Fields],
         reader' = [reader EXCEPT ![t] = rd],
         use' = [use EXCEPT ![t][p] = u],
         Idle(t, p), u.phase \in {"idle", "looking"}, ~u.harmed, u.at = 0, u.taken = {},
         \A r \in Readers : rd[r].pos <= Len(rd[r].str),
         \A r \in Readers \ {Own(p)} : rd[r] = reader[t][r]
  PROVE  AnalyzerInv'
<1> USE DEF AnalyzerInv, TypeOK
<1>0. ThreadInv(t)
  OBVIOUS
<1>1. /\ use'[t][p] = u
      /\ \A q \in Users \ {p} : use'[t][q] = use[t][q]
      /\ reader'[t] = rd
  OBVIOUS
<1>2. TypeOK'
  OBVIOUS
<1>3. ASSUME NEW v \in Threads, v # t PROVE ThreadInv(v)'
  <2>1. comp'[v] = comp[v] /\ reader'[v] = reader[v] /\ use'[v] = use[v]
    BY <1>3
  <2>2. QED
    BY <2>1, OtherThread
<1>4. \A q \in Users : /\ InUse(t, q)' <=> InUse(t, q)
                       /\ Idle(t, q)' <=> Idle(t, q)
                       /\ InUse(t, q) => q # p
  BY <1>1 DEF InUse, Idle
<1>5. \A k \in Fields :
        /\ PointsTo(comp[t][k], k)'
        /\ (\A q \in Users : key[q] = k => ~InUse(t, q))' => comp'[t][k].input = Illegal
  BY <1>0, <1>4 DEF ThreadInv, PointsTo
<1>6. ASSUME NEW q \in Users
      PROVE  /\ Idle(t, q)' => ~use'[t][q].harmed /\ use'[t][q].at = 0 /\ use'[t][q].taken = {}
             /\ use'[t][q].harmed => \E o \in Users \ {q} : key[o] = key[q]
             /\ \A o \in Users :
                  InUse(t, q)' /\ InUse(t, o)' /\ key[q] = key[o]
                  /\ ~use'[t][q].harmed /\ ~use'[t][o].harmed => q = o
  BY <1>0, <1>1, <1>4 DEF ThreadInv
<1>7. ASSUME NEW q \in Users, InUse(t, q)', ~use'[t][q].harmed PROVE InStep(t, q)'
  <2>1. q # p /\ InUse(t, q) /\ use'[t][q] = use[t][q]
    BY <1>1, <1>4, <1>7
  <2>2. InStep(t, q)
    BY <1>0, <1>7, <2>1 DEF ThreadInv
  <2>3. Given(t, q)' = Given(t, q) /\ Given(t, q) \in Readers \ {Own(p)}
    BY <2>1, ReaderNames DEF Given
  <2>4. reader'[t][Given(t, q)] = reader[t][Given(t, q)]
    BY <1>1, <2>3
  <2>5. QED
    BY <2>1, <2>2, <2>3, <2>4 DEF InStep
<1>8. ThreadInv(t)'
  BY <1>1, <1>5, <1>6, <1>7 DEF ThreadInv
<1>9. QED
  BY <1>2, <1>3, <1>8

LEMMA LookInv ==
  ASSUME AnalyzerInv, NEW t \in Threads, NEW p \in Users, NEW s \in Texts,
         NEW own \in BOOLEAN, Look(t, p, s, own)
  PROVE  AnalyzerInv'
<1> DEFINE u == [NoUse EXCEPT !.phase = "looking", !.text = s, !.own = own]
<1>1. u \in Uses /\ u.phase = "looking" /\ ~u.harmed /\ u.at = 0 /\ u.taken = {}
  BY AnalyzerAssumption DEF NoUse, Uses, AnalyzerAssumption
<1>2. use' = [use EXCEPT ![t][p] = u]
  BY DEF Look
<1> HIDE DEF u
<1>3. /\ UNCHANGED <<key, closed, ended, running, comp>>
      /\ reader' = reader /\ stored' = stored /\ Idle(t, p)
  BY DEF Look, Idle
<1>4. /\ reader[t] \in [Readers -> ReaderStates] /\ reader' = [reader EXCEPT ![t] = reader[t]]
      /\ stored' \in [Threads -> SUBSET Fields]
  BY <1>3 DEF AnalyzerInv, TypeOK
<1>5. \A r \in Readers : reader[t][r].pos <= Len(reader[t][r].str)
  BY DEF AnalyzerInv, ThreadInv
<1>6. QED
  BY <1>1, <1>2, <1>3, <1>4, <1>5, AsideInv

LEMMA StoreThrowsInv ==
  ASSUME AnalyzerInv, NEW t \in Threads, NEW p \in Users, StoreThrows(t, p)
  PROVE  AnalyzerInv'
<1>1. NoUse \in Uses /\ NoUse.phase = "idle" /\ ~NoUse.harmed /\ NoUse.at = 0 /\ NoUse.taken = {}
  BY NoUseType DEF NoUse
<1>2. /\ UNCHANGED <<key, closed, ended, running, comp>>
      /\ use' = [use EXCEPT ![t][p] = NoUse]
      /\ reader' = reader /\ stored' = stored /\ Idle(t, p)
  BY DEF StoreThrows, Idle
<1>3. /\ reader[t] \in [Readers -> ReaderStates] /\ reader' = [reader EXCEPT ![t] = reader[t]]
      /\ stored' \in [Threads -> SUBSET Fields]
  BY <1>2 DEF AnalyzerInv, TypeOK
<1>4. \A r \in Readers : reader[t][r].pos <= Len(reader[t][r].str)
  BY DEF AnalyzerInv, ThreadInv
<1>5. QED
  BY <1>1, <1>2, <1>3, <1>4, AsideInv

(* A reader of components, and no other, may change in a call on them. *)
Mine(x, k) == x = Reusable(k) \/ \E q \in Users : key[q] = k /\ x = Own(q)

LEMMA MineOnly ==
  ASSUME key \in [Users -> Fields], NEW k \in Fields, NEW x, Mine(x, k)
  PROVE  x \in Readers /\ \A q \in Users : key[q] # k => Own(q) # x /\ Reusable(key[q]) # x
BY ReaderNames DEF Mine

LEMMA InputIsMine ==
  ASSUME AnalyzerInv, NEW t \in Threads, NEW p \in Users, Input(t, p) \in Readers
  PROVE  Mine(Input(t, p), key[p])
<1>1. key[p] \in Fields /\ PointsTo(comp[t][key[p]], key[p])
  BY DEF AnalyzerInv, TypeOK, ThreadInv
<1>2. QED
  BY <1>1, AnalyzerAssumption DEF PointsTo, Mine, Input, AnalyzerAssumption

LEMMA GivenIsMine ==
  ASSUME NEW t \in Threads, NEW p \in Users
  PROVE  Mine(Given(t, p), key[p])
BY DEF Given, Mine

(* What holds in every state, as the calls use it. *)
LEMMA Facts ==
  ASSUME AnalyzerInv, NEW t \in Threads, NEW p \in Users
  PROVE  /\ key \in [Users -> Fields] /\ key[p] \in Fields
         /\ stored \in [Threads -> SUBSET Fields]
         /\ comp[t][key[p]] \in Components
         /\ PointsTo(comp[t][key[p]], key[p])
         /\ reader[t] \in [Readers -> ReaderStates]
         /\ \A r \in Readers : reader[t][r].pos <= Len(reader[t][r].str)
         /\ use[t][p] \in Uses
         /\ comp = [comp EXCEPT ![t][key[p]] = comp[t][key[p]]]
         /\ reader = [reader EXCEPT ![t] = reader[t]]
         /\ InUse(t, p) /\ ~use[t][p].harmed => InStep(t, p)
<1>1. TypeOK /\ ThreadInv(t) /\ key[p] \in Fields
  BY DEF AnalyzerInv, TypeOK
<1>2. QED
  BY <1>1 DEF TypeOK, ThreadInv

LEMMA ProvideInv ==
  ASSUME AnalyzerInv, NEW t \in Threads, NEW p \in Users, Provide(t, p)
  PROVE  AnalyzerInv'
<1> DEFINE k == key[p]
           u == use[t][p]
           c == comp[t][k]
           new == IF ~u.own THEN SetValue(reader[t][Given(t, p)], u.text)
                  ELSE IF c.input # Illegal THEN Empty ELSE NewReader(u.text)
           rd == [reader[t] EXCEPT ![Given(t, p)] = new]
<1>0. /\ u.phase = "looking" /\ Idle(t, p)
      /\ stored' = [stored EXCEPT ![t] = @ \cup {k}]
      /\ reader' = [reader EXCEPT ![t][Given(t, p)] = new]
      /\ UNCHANGED <<key, closed, ended, running>>
  BY DEF Provide, Idle
<1>1. /\ k \in Fields /\ key \in [Users -> Fields] /\ c \in Components /\ u \in Uses
      /\ reader[t] \in [Readers -> ReaderStates] /\ PointsTo(c, k)
      /\ \A r \in Readers : reader[t][r].pos <= Len(reader[t][r].str)
  BY Facts
<1>2. ~u.harmed /\ u.at = 0 /\ u.taken = {}
  BY <1>0 DEF AnalyzerInv, ThreadInv
<1>3. Given(t, p) \in Readers /\ Mine(Given(t, p), k)
  BY <1>1, GivenIsMine, MineOnly
<1>4. new \in ReaderStates /\ new.pos <= Len(new.str)
  <2>1. u.text \in Seq(Words) /\ reader[t][Given(t, p)] \in ReaderStates
    BY <1>1, <1>3 DEF Uses
  <2>2. QED
    BY <2>1, EmptyType, NewReaderType, SetValueType
<1>5. /\ rd \in [Readers -> ReaderStates]
      /\ \A r \in Readers : rd[r].pos <= Len(rd[r].str)
      /\ reader' = [reader EXCEPT ![t] = rd]
  <2> HIDE DEF new
  <2>1. reader \in [Threads -> [Readers -> ReaderStates]]
    BY DEF AnalyzerInv, TypeOK
  <2>2. QED
    BY <1>0, <1>1, <1>3, <1>4, <2>1
<1>6. stored' \in [Threads -> SUBSET Fields]
  BY <1>0, <1>1 DEF AnalyzerInv, TypeOK
<1>7. \A q \in Users : key[q] # k =>
        rd[Own(q)] = reader[t][Own(q)] /\ rd[Reusable(key[q])] = reader[t][Reusable(key[q])]
  BY <1>1, <1>3, MineOnly, ReaderNames
<1>8. NoUse \in Uses /\ NoUse.phase = "idle" /\ ~NoUse.harmed /\ NoUse.at = 0 /\ NoUse.taken = {}
  BY NoUseType DEF NoUse
<1>9. CASE c.input # Illegal /\ u.own
  <2>1. use' = [use EXCEPT ![t][p] = NoUse] /\ comp' = comp
    BY <1>9 DEF Provide
  <2>2. \A r \in Readers \ {Own(p)} : rd[r] = reader[t][r]
    BY <1>1, <1>9 DEF Given
  <2> HIDE DEF rd
  <2>3. QED
    BY <1>0, <1>5, <1>6, <1>8, <2>1, <2>2, AsideInv
<1>10. CASE c.input # Illegal /\ ~u.own
  <2>1. use' = Others(t, p, NoUse) /\ comp' = comp
    BY <1>10 DEF Provide
  <2>2. comp' = [comp EXCEPT ![t][k] = c]
    BY <2>1, Facts
  <2>3. ~\A q \in Users \ {p} : key[q] = k => ~InUse(t, q)
    <3>1. ~InUse(t, p)
      BY <1>0 DEF InUse
    <3>2. ~\A q \in Users : key[q] = k => ~InUse(t, q)
      BY <1>1, <1>10 DEF AnalyzerInv, ThreadInv
    <3>3. QED
      BY <3>1, <3>2
  <2>4. Called(t, p, c, rd, NoUse) /\ ReadersAre(rd) /\ OthersKept(t, p, rd)
    BY <1>0, <1>5, <1>6, <1>7, <2>1, <2>2 DEF Called, ReadersAre, OthersKept
  <2> HIDE DEF rd, c
  <2>5. QED
    BY <1>1, <1>8, <2>3, <2>4, CallInv
<1>11. CASE c.input = Illegal
  <2> DEFINE d == [c EXCEPT !.pending = Given(t, p)]
             v == [u EXCEPT !.phase = "got"]
  <2>1. use' = Others(t, p, v) /\ comp' = [comp EXCEPT ![t][k].pending = Given(t, p)]
    BY <1>11 DEF Provide
  <2>2. comp' = [comp EXCEPT ![t][k] = d]
    BY <2>1
  <2>3. d \in Components /\ d.input = Illegal /\ d.pending = Given(t, p)
    BY <1>1, <1>3, <1>11 DEF Components
  <2>4. PointsTo(d, k)
    BY <2>3, <1>3 DEF PointsTo, Mine
  <2>5. v \in Uses /\ v.phase = "got" /\ v.text = u.text /\ v.at = 0 /\ v.taken = {} /\ ~v.harmed /\ v.own = u.own
    BY <1>1, <1>2 DEF Uses
  <2>6. InStep(t, p)'
    <3>1. use'[t][p] = v
      BY <2>1 DEF Others, AnalyzerInv, TypeOK
    <3>2. comp'[t][key'[p]] = d
      BY <1>0, <1>1, <2>2 DEF AnalyzerInv, TypeOK
    <3>3. Given(t, p)' = Given(t, p)
      BY <1>0, <2>5, <3>1 DEF Given
    <3>4. reader'[t][Given(t, p)] = new
      BY <1>0, <1>3 DEF AnalyzerInv, TypeOK
    <3>5. new.str = u.text /\ new.pos = 0 /\ Good(new)
      <4>1. u.text \in Seq(Words) /\ reader[t][Given(t, p)] \in ReaderStates
        BY <1>1, <1>3 DEF Uses
      <4>2. QED
        BY <1>11, <4>1, NewReaderType, SetValueType
    <3> HIDE DEF new, d, v
    <3>6. v.taken = Accepted(v.text, v.at)
      BY <2>5, AcceptedNone
    <3>7. QED
      BY <2>3, <2>5, <3>1, <3>2, <3>3, <3>4, <3>5, <3>6 DEF InStep, Good
  <2>7. UNCHANGED <<key, closed, ended, running>> /\ key[p] \in Fields
    BY <1>0, <1>1
  <2>8. v.phase \notin {"idle", "looking"}
    BY <2>5
  <2>9. use' = Others(t, p, v)
    BY <2>1
  <2>10. Called(t, p, d, rd, v) /\ ReadersAre(rd) /\ OthersKept(t, p, rd)
    BY <1>5, <1>6, <1>7, <2>2, <2>7, <2>9 DEF Called, ReadersAre, OthersKept
  <2> HIDE DEF rd, d, v, new, u
  <2>11. QED
    BY <2>3, <2>4, <2>5, <2>6, <2>7, <2>8, <2>10, CallInv
<1>12. QED
  BY <1>9, <1>10, <1>11

(* The state after a call, as InStep looks at it. *)
LEMMA AfterCall ==
  ASSUME AnalyzerInv, NEW t \in Threads, NEW p \in Users, NEW c, NEW rd, NEW u,
         Called(t, p, c, rd, u), u.own = use[t][p].own
  PROVE  /\ use'[t][p] = u /\ comp'[t][key'[p]] = c
         /\ reader'[t][Given(t, p)'] = rd[Given(t, p)]
<1>1. use'[t][p] = u
  BY DEF Called, Others, AnalyzerInv, TypeOK
<1>2. comp'[t][key'[p]] = c /\ reader'[t] = rd
  BY DEF Called, AnalyzerInv, TypeOK
<1>3. Given(t, p)' = Given(t, p)
  BY <1>1 DEF Given, Called
<1>4. QED
  BY <1>1, <1>2, <1>3

LEMMA ResetStreamInv ==
  ASSUME AnalyzerInv, NEW t \in Threads, NEW p \in Users, ResetStream(t, p)
  PROVE  AnalyzerInv'
<1> DEFINE c == [comp[t][key[p]] EXCEPT !.input = comp[t][key[p]].pending, !.skipped = 0]
           u == [use[t][p] EXCEPT !.phase = "running"]
<1>0. /\ use[t][p].phase = "got" /\ InUse(t, p)
      /\ UNCHANGED <<key, closed, ended, running, stored, reader>>
      /\ comp' = [comp EXCEPT ![t][key[p]].input = comp[t][key[p]].pending,
                              ![t][key[p]].skipped = 0]
      /\ use' = Others(t, p, u)
  BY DEF ResetStream, InUse
<1>1. /\ key[p] \in Fields /\ comp[t][key[p]] \in Components /\ PointsTo(comp[t][key[p]], key[p])
      /\ use[t][p] \in Uses /\ reader[t] \in [Readers -> ReaderStates]
      /\ reader = [reader EXCEPT ![t] = reader[t]]
      /\ stored \in [Threads -> SUBSET Fields]
      /\ \A r \in Readers : reader[t][r].pos <= Len(reader[t][r].str)
  BY Facts
<1>2. comp' = [comp EXCEPT ![t][key[p]] = c]
  BY <1>0, <1>1 DEF AnalyzerInv, TypeOK
<1>3. /\ c \in Components /\ c.input = comp[t][key[p]].pending
      /\ c.pending = comp[t][key[p]].pending
  BY <1>1 DEF Components
<1>4. PointsTo(c, key[p])
  BY <1>1, <1>3 DEF PointsTo
<1>5. /\ u \in Uses /\ u.phase = "running" /\ u.text = use[t][p].text /\ u.at = use[t][p].at
      /\ u.taken = use[t][p].taken /\ u.harmed = use[t][p].harmed /\ u.own = use[t][p].own
  BY <1>1 DEF Uses
<1>6. Called(t, p, c, reader[t], u)
  BY <1>0, <1>1, <1>2 DEF Called
<1>7. ReadersAre(reader[t]) /\ OthersKept(t, p, reader[t])
  BY <1>1 DEF ReadersAre, OthersKept
<1> HIDE DEF c, u
<1>8. ASSUME ~u.harmed PROVE InStep(t, p)'
  <2>1. InStep(t, p)
    BY <1>0, <1>5, <1>8, Facts
  <2>3. /\ use'[t][p] = u /\ comp'[t][key'[p]] = c
        /\ reader'[t][Given(t, p)'] = reader[t][Given(t, p)]
    BY <1>5, <1>6, AfterCall
  <2>4. Given(t, p)' = Given(t, p)
    BY <1>0, <1>5, <2>3 DEF Given
  <2>5. use[t][p].text \in Seq(Words)
    BY <1>1 DEF Uses
  <2>6. QED
    BY <1>0, <1>3, <1>5, <2>1, <2>3, <2>4, <2>5 DEF InStep
<1>9. QED
  BY <1>3, <1>4, <1>5, <1>8, <1>6, <1>7, CallInv

(* A step along the text: the words of the reader, and what has been taken of
   them.  What p is given are its own words if nobody interferes. *)
LEMMA IncrementTokenInv ==
  ASSUME AnalyzerInv, NEW t \in Threads, NEW p \in Users, IncrementToken(t, p)
  PROVE  AnalyzerInv'
<1> DEFINE x == Input(t, p)
           r == reader[t][x]
<1>0. PICK j \in 1..Len(r.str) :
        /\ NextAt(r, j)
        /\ reader' = [reader EXCEPT ![t][x].pos = j]
        /\ comp' = [comp EXCEPT ![t][key[p]].skipped = 0 + (j - (r.pos + 1))]
        /\ use' = Others(t, p, Take(use[t][p], r.str[j], 1 + (0 + (j - (r.pos + 1)))))
  BY DEF IncrementToken, StartSkipped
<1> DEFINE c == [comp[t][key[p]] EXCEPT !.skipped = 0 + (j - (r.pos + 1))]
           u == Take(use[t][p], r.str[j], 1 + (0 + (j - (r.pos + 1))))
           next == [r EXCEPT !.pos = j]
           rd == [reader[t] EXCEPT ![x] = next]
<1>1. /\ use[t][p].phase = "running" /\ InUse(t, p) /\ x \in Readers /\ Good(r)
      /\ UNCHANGED <<key, closed, ended, running, stored>>
  BY DEF IncrementToken, InUse
<1>2. /\ key[p] \in Fields /\ comp[t][key[p]] \in Components /\ PointsTo(comp[t][key[p]], key[p])
      /\ use[t][p] \in Uses /\ reader[t] \in [Readers -> ReaderStates]
      /\ stored \in [Threads -> SUBSET Fields] /\ key \in [Users -> Fields]
      /\ \A y \in Readers : reader[t][y].pos <= Len(reader[t][y].str)
  BY Facts
<1>3. /\ r \in ReaderStates /\ r.pos \in Nat /\ r.str \in Seq(Words)
  BY <1>1, <1>2 DEF ReaderStates
<1>4. /\ r.pos < j /\ j <= Len(r.str) /\ j \in Nat /\ r.str[j] \in Words
      /\ \A i \in r.pos + 1..j - 1 : r.str[i] \in StopWords
      /\ r.str[j] \notin StopWords
  BY <1>0, <1>3 DEF NextAt
<1>5. 0 + (j - (r.pos + 1)) \in Nat /\ r.pos + (1 + (0 + (j - (r.pos + 1)))) = j
  <2>1. r.pos \in Nat /\ j \in Nat /\ r.pos < j
    BY <1>3, <1>4
  <2> HIDE DEF r
  <2>2. QED
    BY <2>1
<1>6. /\ c \in Components /\ c.input = comp[t][key[p]].input
      /\ c.pending = comp[t][key[p]].pending
  BY <1>2, <1>5 DEF Components
<1>7. PointsTo(c, key[p])
  BY <1>2, <1>6 DEF PointsTo
<1>8. comp' = [comp EXCEPT ![t][key[p]] = c]
  BY <1>0
<1>9. next \in ReaderStates /\ next.pos = j /\ next.str = r.str /\ Good(next)
  BY <1>1, <1>3, <1>4 DEF ReaderStates, Good
<1>10. reader' = [reader EXCEPT ![t] = rd]
  BY <1>0
<1> HIDE DEF c, next
<1>11. /\ rd \in [Readers -> ReaderStates]
       /\ \A y \in Readers : rd[y].pos <= Len(rd[y].str)
  BY <1>1, <1>2, <1>4, <1>9
<1>12. \A q \in Users : key[q] # key[p] =>
        rd[Own(q)] = reader[t][Own(q)] /\ rd[Reusable(key[q])] = reader[t][Reusable(key[q])]
  BY <1>1, <1>2, InputIsMine, MineOnly, ReaderNames
<1>13. /\ u \in Uses /\ u.phase = "running" /\ u.text = use[t][p].text
       /\ u.harmed = use[t][p].harmed /\ u.own = use[t][p].own
       /\ ~u.harmed => /\ u.at = use[t][p].at + (1 + (0 + (j - (r.pos + 1))))
                       /\ u.taken = use[t][p].taken \cup
                            {<<use[t][p].at + (1 + (0 + (j - (r.pos + 1)))), r.str[j]>>}
  <2> DEFINE n == 0 + (j - (r.pos + 1))
  <2> HIDE DEF n
  <2>0. n \in Nat
    BY <1>5 DEF n
  <2>1. use[t][p].at \in Nat /\ use[t][p].at + (1 + n) \in Nat /\ r.str[j] \in Words
    BY <1>2, <1>4, <2>0 DEF Uses
  <2>5. u = Take(use[t][p], r.str[j], 1 + n)
    BY DEF n
  <2> HIDE DEF r, u
  <2>2. CASE use[t][p].harmed
    BY <1>1, <1>2, <2>2, <2>5 DEF Take, Uses
  <2>3. CASE ~use[t][p].harmed
    <3> DEFINE at == use[t][p].at + (1 + n)
               taken == use[t][p].taken \cup {<<at, r.str[j]>>}
    <3>1. u = [use[t][p] EXCEPT !.at = at, !.taken = taken]
      BY <2>3, <2>5 DEF Take
    <3>2. at \in Nat /\ taken \in SUBSET (Nat \X Words)
      <4>1. use[t][p].taken \in SUBSET (Nat \X Words)
        BY <1>2 DEF Uses
      <4>2. at \in Nat
        BY <2>1
      <4> HIDE DEF at
      <4>3. QED
        BY <2>1, <4>1, <4>2
    <3> HIDE DEF at, taken
    <3>3. /\ u \in Uses /\ u.phase = use[t][p].phase /\ u.text = use[t][p].text
          /\ u.harmed = use[t][p].harmed /\ u.own = use[t][p].own
          /\ u.at = at /\ u.taken = taken
      BY <1>2, <3>1, <3>2 DEF Uses
    <3>4. QED
      BY <1>1, <3>3 DEF n, at, taken
  <2>4. QED
    BY <2>2, <2>3
<1>14. use' = Others(t, p, u)
  BY <1>0
<1> HIDE DEF u
<1>15. Called(t, p, c, rd, u) /\ ReadersAre(rd) /\ OthersKept(t, p, rd)
  BY <1>1, <1>2, <1>8, <1>10, <1>11, <1>12, <1>14 DEF Called, ReadersAre, OthersKept
<1>16. rd[x] = next
  BY <1>1, <1>2
<1> HIDE DEF rd
<1>17. ASSUME ~u.harmed PROVE InStep(t, p)'
  <2>1. InStep(t, p)
    BY <1>1, <1>13, <1>17, Facts
  <2>2. x = Given(t, p) /\ r.str = u.text /\ r.pos = use[t][p].at /\ use[t][p].taken = Accepted(u.text, r.pos)
    BY <1>1, <1>13, <2>1 DEF InStep, Input
  <2>3. u.at = j
    BY <1>13, <1>17, <1>5, <2>2
  <2>4. u.taken = Accepted(u.text, u.at)
    <3>1. Accepted(r.str, j) = Accepted(r.str, r.pos) \cup {<<j, r.str[j]>>}
      BY <1>3, <1>4, AcceptedNext
    <3>2. use[t][p].at + (1 + (0 + (j - (r.pos + 1)))) = j
      BY <1>5, <2>2
    <3>3. QED
      BY <1>13, <1>17, <2>2, <2>3, <3>1, <3>2
  <2>5. /\ use'[t][p] = u /\ comp'[t][key'[p]] = c
        /\ reader'[t][Given(t, p)'] = rd[Given(t, p)]
    BY <1>13, <1>15, AfterCall
  <2>6. rd[Given(t, p)] = next
    BY <1>16, <2>2
  <2>7. Given(t, p)' = Given(t, p)
    BY <1>1, <1>13, <2>5 DEF Given
  <2>8. c.input = Given(t, p)
    BY <1>6, <2>2 DEF Input
  <2>9. QED
    BY <1>4, <1>9, <1>13, <2>2, <2>3, <2>4, <2>5, <2>6, <2>7, <2>8 DEF InStep
<1> HIDE DEF r, x
<1>18. QED
  BY <1>6, <1>7, <1>13, <1>17, <1>15, CallInv

LEMMA NoTokenInv ==
  ASSUME AnalyzerInv, NEW t \in Threads, NEW p \in Users, NoToken(t, p)
  PROVE  AnalyzerInv'
<1> DEFINE x == Input(t, p)
           r == reader[t][x]
           n == 0 + Rest(r)
           c == [comp[t][key[p]] EXCEPT !.skipped = n]
           u == [use[t][p] EXCEPT !.phase = "exhausted"]
           next == IF Good(r) THEN Get([r EXCEPT !.pos = Len(r.str)]) ELSE Get(r)
           rd == [reader[t] EXCEPT ![x] = next]
<1>1. /\ use[t][p].phase = "running" /\ InUse(t, p) /\ x \in Readers
      /\ Good(r) => NextAt(r, Len(r.str) + 1)
      /\ UNCHANGED <<key, closed, ended, running, stored>>
      /\ reader' = [reader EXCEPT ![t][x] = next]
      /\ comp' = [comp EXCEPT ![t][key[p]].skipped = n]
      /\ use' = Others(t, p, u)
  BY DEF NoToken, InUse, StartSkipped
<1>2. /\ key[p] \in Fields /\ comp[t][key[p]] \in Components /\ PointsTo(comp[t][key[p]], key[p])
      /\ use[t][p] \in Uses /\ reader[t] \in [Readers -> ReaderStates]
      /\ stored \in [Threads -> SUBSET Fields] /\ key \in [Users -> Fields]
      /\ \A y \in Readers : reader[t][y].pos <= Len(reader[t][y].str)
  BY Facts
<1>3. /\ r \in ReaderStates /\ r.pos \in Nat /\ r.str \in Seq(Words) /\ r.pos <= Len(r.str)
      /\ Len(r.str) \in Nat
  BY <1>1, <1>2 DEF ReaderStates
<1>4. next \in ReaderStates /\ next.pos <= Len(next.str)
  <2> HIDE DEF r
  <2>1. CASE Good(r)
    <3>1. [r EXCEPT !.pos = Len(r.str)] = [str |-> r.str, pos |-> Len(r.str), eof |-> r.eof,
                                           fail |-> r.fail, mark |-> r.mark]
      BY <1>3 DEF ReaderStates
    <3>2. next = [[r EXCEPT !.pos = Len(r.str)] EXCEPT !.eof = TRUE, !.fail = TRUE]
      BY <1>3, <2>1, <3>1 DEF Get, AtEnd, Good, ReaderStates
    <3>3. next = [str |-> r.str, pos |-> Len(r.str), eof |-> TRUE, fail |-> TRUE, mark |-> r.mark]
      BY <3>1, <3>2
    <3>4. r.mark \in Nat
      BY <1>3 DEF ReaderStates
    <3> HIDE DEF next
    <3>5. QED
      BY <1>3, <3>3, <3>4 DEF ReaderStates
  <2>2. CASE ~Good(r)
    BY <1>3, <2>2 DEF Get, ReaderStates
  <2>3. QED
    BY <2>1, <2>2
<1>5. n \in Nat /\ (Good(r) => n = Len(r.str) - r.pos)
  <2> HIDE DEF r
  <2>1. QED
    BY <1>3 DEF Rest
<1>6. reader' = [reader EXCEPT ![t] = rd] /\ comp' = [comp EXCEPT ![t][key[p]] = c]
  BY <1>1
<1> HIDE DEF next, n
<1>7. ReadersAre(rd)
  BY <1>1, <1>2, <1>4 DEF ReadersAre
<1>8. OthersKept(t, p, rd)
  BY <1>1, <1>2, InputIsMine, MineOnly, ReaderNames DEF OthersKept
<1>9. /\ c \in Components /\ c.input = comp[t][key[p]].input
      /\ c.pending = comp[t][key[p]].pending /\ c.skipped = n
  BY <1>2, <1>5 DEF Components
<1>10. PointsTo(c, key[p])
  BY <1>2, <1>9 DEF PointsTo
<1>11. /\ u \in Uses /\ u.phase = "exhausted" /\ u.text = use[t][p].text /\ u.at = use[t][p].at
       /\ u.taken = use[t][p].taken /\ u.harmed = use[t][p].harmed /\ u.own = use[t][p].own
  BY <1>2 DEF Uses
<1>12. Called(t, p, c, rd, u)
  BY <1>1, <1>2, <1>6 DEF Called
<1> HIDE DEF c, u, rd
<1>13. ASSUME ~u.harmed PROVE InStep(t, p)'
  <2>1. InStep(t, p)
    BY <1>1, <1>11, <1>13, Facts
  <2>2. /\ x = Given(t, p) /\ r.str = u.text /\ r.pos = u.at /\ Good(r)
        /\ u.taken = Accepted(u.text, u.at)
    BY <1>1, <1>11, <2>1 DEF InStep, Input
  <2>3. /\ use'[t][p] = u /\ comp'[t][key'[p]] = c
    BY <1>11, <1>12, AfterCall
  <2>4. Given(t, p)' = Given(t, p)
    BY <1>1, <1>11, <2>3 DEF Given
  <2>5. c.input = Given(t, p)
    BY <1>9, <2>2 DEF Input
  <2>6. u.at + c.skipped = Len(u.text) /\ u.at <= Len(u.text)
    <3> HIDE DEF r
    <3>1. QED
      BY <1>3, <1>5, <1>9, <2>2
  <2>7. \A i \in u.at + 1..Len(u.text) : u.text[i] \in StopWords
    <3> HIDE DEF r
    <3>1. \A i \in r.pos + 1..(Len(r.str) + 1) - 1 : r.str[i] \in StopWords
      BY <1>1, <2>2 DEF NextAt
    <3>2. QED
      BY <1>3, <2>2, <3>1
  <2>8. QED
    BY <1>11, <2>2, <2>3, <2>4, <2>5, <2>6, <2>7 DEF InStep
<1>14. QED
  BY <1>9, <1>10, <1>7, <1>8, <1>11, <1>12, <1>13, CallInv

LEMMA IncrementThrowsInv ==
  ASSUME AnalyzerInv, NEW t \in Threads, NEW p \in Users, IncrementThrows(t, p)
  PROVE  AnalyzerInv'
<1> DEFINE c == [comp[t][key[p]] EXCEPT !.skipped = 0]
<1>1. /\ use[t][p].phase = "running" /\ InUse(t, p) /\ comp[t][key[p]].input = Illegal
      /\ UNCHANGED <<key, closed, ended, running, stored, reader>>
      /\ comp' = [comp EXCEPT ![t][key[p]].skipped = 0]
      /\ use' = Others(t, p, use[t][p])
  BY DEF IncrementThrows, InUse, Input
<1>2. /\ key[p] \in Fields /\ comp[t][key[p]] \in Components /\ PointsTo(comp[t][key[p]], key[p])
      /\ use[t][p] \in Uses /\ reader[t] \in [Readers -> ReaderStates]
      /\ reader = [reader EXCEPT ![t] = reader[t]]
      /\ stored \in [Threads -> SUBSET Fields]
      /\ \A y \in Readers : reader[t][y].pos <= Len(reader[t][y].str)
      /\ ~use[t][p].harmed => InStep(t, p)
  BY <1>1, Facts
<1>3. use[t][p].harmed
  <2>1. SUFFICES ASSUME ~use[t][p].harmed PROVE FALSE
    BY <1>2 DEF Uses
  <2>2. Illegal = Given(t, p)
    BY <1>1, <1>2, <2>1 DEF InStep
  <2>3. Given(t, p) \in Readers
    BY <1>2, ReaderNames DEF Given
  <2>4. QED
    BY <2>2, <2>3, AnalyzerAssumption DEF AnalyzerAssumption
<1>4. c \in Components /\ c.input = comp[t][key[p]].input /\ c.pending = comp[t][key[p]].pending
  BY <1>2 DEF Components
<1>5. PointsTo(c, key[p])
  BY <1>2, <1>4 DEF PointsTo
<1>6. Called(t, p, c, reader[t], use[t][p])
  BY <1>1, <1>2 DEF Called
<1>7. ReadersAre(reader[t]) /\ OthersKept(t, p, reader[t])
  BY <1>2 DEF ReadersAre, OthersKept
<1> HIDE DEF c
<1>8. QED
  BY <1>1, <1>2, <1>3, <1>4, <1>5, <1>6, <1>7, CallInv

LEMMA EndInv ==
  ASSUME AnalyzerInv, NEW t \in Threads, NEW p \in Users, End(t, p)
  PROVE  AnalyzerInv'
<1> DEFINE c == comp[t][key[p]]
           at == IF use[t][p].harmed THEN use[t][p].at ELSE use[t][p].at + c.skipped
           u == [use[t][p] EXCEPT !.phase = "ended", !.at = at]
<1>1. /\ use[t][p].phase = "exhausted" /\ InUse(t, p)
      /\ UNCHANGED <<key, closed, ended, running, stored, comp, reader>>
      /\ use' = Others(t, p, u)
  BY DEF End, InUse
<1>2. /\ key[p] \in Fields /\ c \in Components /\ PointsTo(c, key[p])
      /\ use[t][p] \in Uses /\ reader[t] \in [Readers -> ReaderStates]
      /\ reader = [reader EXCEPT ![t] = reader[t]] /\ comp = [comp EXCEPT ![t][key[p]] = c]
      /\ stored \in [Threads -> SUBSET Fields]
      /\ \A y \in Readers : reader[t][y].pos <= Len(reader[t][y].str)
      /\ ~use[t][p].harmed => InStep(t, p)
  BY <1>1, Facts
<1>3. at \in Nat
  BY <1>2 DEF Uses, Components
<1>4. /\ u \in Uses /\ u.phase = "ended" /\ u.text = use[t][p].text /\ u.at = at
      /\ u.taken = use[t][p].taken /\ u.harmed = use[t][p].harmed /\ u.own = use[t][p].own
  <2> HIDE DEF at
  <2>1. QED
    BY <1>2, <1>3 DEF Uses
<1>5. Called(t, p, c, reader[t], u)
  BY <1>1, <1>2 DEF Called
<1>6. ReadersAre(reader[t]) /\ OthersKept(t, p, reader[t])
  BY <1>2 DEF ReadersAre, OthersKept
<1> HIDE DEF u
<1>7. ASSUME ~u.harmed PROVE InStep(t, p)'
  <2>1. /\ use[t][p].taken = Accepted(u.text, use[t][p].at)
        /\ c.input = Given(t, p) /\ use[t][p].at <= Len(u.text)
        /\ use[t][p].at + c.skipped = Len(u.text)
        /\ \A i \in use[t][p].at + 1..Len(u.text) : u.text[i] \in StopWords
    BY <1>1, <1>2, <1>4, <1>7 DEF InStep
  <2>2. u.at = Len(u.text)
    BY <1>4, <1>7, <2>1
  <2>3. u.text \in Seq(Words) /\ use[t][p].at \in Nat
    BY <1>2, <1>4 DEF Uses
  <2>4. u.taken = Accepted(u.text, u.at)
    BY <1>4, <2>1, <2>2, <2>3, AcceptedRest
  <2>5. use'[t][p] = u /\ comp'[t][key'[p]] = c
    BY <1>4, <1>5, AfterCall
  <2>6. Given(t, p)' = Given(t, p)
    BY <1>1, <1>4, <2>5 DEF Given
  <2>7. Len(u.text) \in Nat
    BY <2>3
  <2>8. QED
    BY <1>4, <2>1, <2>2, <2>4, <2>5, <2>6, <2>7 DEF InStep
<1>8. QED
  BY <1>2, <1>4, <1>5, <1>6, <1>7, CallInv

LEMMA CloseInv ==
  ASSUME AnalyzerInv, NEW t \in Threads, NEW p \in Users, Close(t, p)
  PROVE  AnalyzerInv'
<1> DEFINE x == Input(t, p)
           c == Detach(comp[t][key[p]])
           rd == [r \in Readers |-> IF r = Own(p) THEN Empty
                                   ELSE IF r = x THEN CloseReader(reader[t][r])
                                        ELSE reader[t][r]]
<1>1. /\ InUse(t, p) /\ x \in Readers
      /\ UNCHANGED <<key, closed, ended, running, stored>>
      /\ reader' = [reader EXCEPT ![t] = rd]
      /\ comp' = [comp EXCEPT ![t][key[p]] = c]
      /\ use' = Others(t, p, NoUse)
  BY DEF Close
<1>2. /\ key[p] \in Fields /\ key \in [Users -> Fields] /\ comp[t][key[p]] \in Components
      /\ reader[t] \in [Readers -> ReaderStates] /\ stored \in [Threads -> SUBSET Fields]
      /\ \A y \in Readers : reader[t][y].pos <= Len(reader[t][y].str)
  BY Facts
<1>3. NoUse \in Uses /\ NoUse.phase = "idle" /\ ~NoUse.harmed /\ NoUse.at = 0 /\ NoUse.taken = {}
  BY NoUseType DEF NoUse
<1>4. c \in Components /\ c.input = Illegal /\ c.pending = Illegal
  BY <1>2 DEF Detach, Components
<1>5. PointsTo(c, key[p])
  BY <1>4 DEF PointsTo
<1>6. \A r \in Readers : /\ CloseReader(reader[t][r]) \in ReaderStates
                          /\ CloseReader(reader[t][r]).pos = reader[t][r].pos
                          /\ CloseReader(reader[t][r]).str = reader[t][r].str
  BY <1>2 DEF CloseReader, ReaderStates
<1>7. ReadersAre(rd)
  BY <1>2, <1>6, EmptyType DEF ReadersAre
<1>8. OthersKept(t, p, rd)
  BY <1>1, <1>2, InputIsMine, MineOnly, ReaderNames DEF OthersKept
<1>9. Called(t, p, c, rd, NoUse)
  BY <1>1, <1>2 DEF Called
<1> HIDE DEF c, rd
<1>10. QED
  BY <1>3, <1>4, <1>5, <1>7, <1>8, <1>9, CallInv

LEMMA CloseThrowsInv ==
  ASSUME AnalyzerInv, NEW t \in Threads, NEW p \in Users, CloseThrows(t, p)
  PROVE  AnalyzerInv'
<1> DEFINE b == comp[t][key[p]]
           c == Bury(t, p, b)
           rd == [reader[t] EXCEPT ![Own(p)] = Empty]
<1>1. /\ InUse(t, p) /\ b.input = Illegal
      /\ UNCHANGED <<key, closed, ended, running, stored>>
      /\ reader' = [reader EXCEPT ![t][Own(p)] = Empty]
      /\ comp' = [comp EXCEPT ![t][key[p]] = c]
      /\ use' = Others(t, p, NoUse)
  BY DEF CloseThrows, Input, Bury
<1>2. /\ key[p] \in Fields /\ key \in [Users -> Fields] /\ b \in Components
      /\ PointsTo(b, key[p])
      /\ reader[t] \in [Readers -> ReaderStates] /\ stored \in [Threads -> SUBSET Fields]
      /\ \A y \in Readers : reader[t][y].pos <= Len(reader[t][y].str)
  BY Facts
<1>3. NoUse \in Uses /\ NoUse.phase = "idle" /\ ~NoUse.harmed /\ NoUse.at = 0 /\ NoUse.taken = {}
  BY NoUseType DEF NoUse
<1>4. /\ c \in Components /\ c.input = Illegal
      /\ c.pending = (IF b.pending = Own(p) THEN Dead ELSE b.pending)
  <2>1. Illegal # Own(p)
    BY ReaderNames, AnalyzerAssumption DEF AnalyzerAssumption
  <2> HIDE DEF b
  <2>2. QED
    BY <1>1, <1>2, <2>1 DEF Bury, Components
<1>5. PointsTo(c, key[p])
  <2> HIDE DEF b, c
  <2>1. QED
    BY <1>2, <1>4 DEF PointsTo
<1>6. reader' = [reader EXCEPT ![t] = rd]
  BY <1>1
<1>7. ReadersAre(rd)
  BY <1>2, EmptyType DEF ReadersAre
<1>8. OthersKept(t, p, rd)
  <2>1. Mine(Own(p), key[p])
    BY DEF Mine
  <2>2. QED
    BY <1>2, <2>1, MineOnly, ReaderNames DEF OthersKept
<1>9. Called(t, p, c, rd, NoUse)
  BY <1>1, <1>2, <1>6 DEF Called
<1> HIDE DEF c, rd
<1>10. QED
  BY <1>3, <1>4, <1>5, <1>7, <1>8, <1>9, CallInv

LEMMA CloseAnalyzerInv == ASSUME AnalyzerInv, CloseAnalyzer PROVE AnalyzerInv'
<1>1. TypeOK'
  BY DEF AnalyzerInv, TypeOK, CloseAnalyzer
<1>2. ASSUME NEW t \in Threads PROVE ThreadInv(t)'
  BY OtherThread DEF CloseAnalyzer
<1>3. QED
  BY <1>1, <1>2 DEF AnalyzerInv

LEMMA ExitInv ==
  ASSUME AnalyzerInv, NEW t \in Threads, Exit(t)
  PROVE  AnalyzerInv'
<1>1. /\ \A p \in Users : use[t][p].phase = "idle"
      /\ running' = running \ {t}
      /\ ended' = (ended \/ stored[t] # {})
      /\ stored' = [stored EXCEPT ![t] = {}]
      /\ comp' = [comp EXCEPT ![t] = [k \in Fields |-> NewComponents]]
      /\ reader' = [reader EXCEPT ![t] = [r \in Readers |-> Empty]]
      /\ UNCHANGED <<key, closed, use>>
  BY DEF Exit
<1>2. NewComponents \in Components /\ NewComponents.input = Illegal /\ NewComponents.pending = Illegal
  BY DEF NewComponents, Components
<1>3. TypeOK'
  <2>1. comp' \in [Threads -> [Fields -> Components]] /\ reader' \in [Threads -> [Readers -> ReaderStates]]
    BY <1>1, <1>2, EmptyType DEF AnalyzerInv, TypeOK
  <2>2. ended' \in BOOLEAN
    BY <1>1, Zenon DEF AnalyzerInv, TypeOK
  <2>3. running' \subseteq Threads /\ stored' \in [Threads -> SUBSET Fields]
    BY <1>1 DEF AnalyzerInv, TypeOK
  <2>4. QED
    BY <1>1, <2>1, <2>2, <2>3 DEF AnalyzerInv, TypeOK
<1>4. ASSUME NEW v \in Threads, v # t PROVE ThreadInv(v)'
  <2>1. comp'[v] = comp[v] /\ reader'[v] = reader[v] /\ use'[v] = use[v]
    BY <1>1, <1>4
  <2>2. QED
    BY <1>1, <2>1, OtherThread
<1>5. ThreadInv(t)'
  <2>1. /\ \A k \in Fields : comp'[t][k] = NewComponents
        /\ \A r \in Readers : reader'[t][r] = Empty
    BY <1>1 DEF AnalyzerInv, TypeOK
  <2>2. \A p \in Users : /\ Idle(t, p) /\ Idle(t, p)' /\ ~InUse(t, p)'
                         /\ use'[t][p] = use[t][p]
    BY <1>1 DEF Idle, InUse
  <2>3. \A k \in Fields : PointsTo(comp[t][k], k)'
    BY <1>2, <2>1 DEF PointsTo
  <2>4. ThreadInv(t)
    BY DEF AnalyzerInv
  <2>5. QED
    BY <1>2, <2>1, <2>2, <2>3, <2>4, EmptyType DEF ThreadInv
<1>6. QED
  BY <1>3, <1>4, <1>5 DEF AnalyzerInv

LEMMA NextInv == AnalyzerInv /\ [Next]_vars => AnalyzerInv'
<1> SUFFICES ASSUME AnalyzerInv, [Next]_vars PROVE AnalyzerInv'
  OBVIOUS
<1>1. CASE CloseAnalyzer
  BY <1>1, CloseAnalyzerInv
<1>2. ASSUME NEW t \in Threads, Exit(t) PROVE AnalyzerInv'
  BY <1>2, ExitInv
<1>3. ASSUME NEW t \in Threads, NEW p \in Users, NEW s \in Texts, NEW own \in BOOLEAN,
             Look(t, p, s, own)
      PROVE  AnalyzerInv'
  BY <1>3, LookInv
<1>4. ASSUME NEW t \in Threads, NEW p \in Users, StoreThrows(t, p) PROVE AnalyzerInv'
  BY <1>4, StoreThrowsInv
<1>5. ASSUME NEW t \in Threads, NEW p \in Users, Provide(t, p) PROVE AnalyzerInv'
  BY <1>5, ProvideInv
<1>6. ASSUME NEW t \in Threads, NEW p \in Users, ResetStream(t, p) PROVE AnalyzerInv'
  BY <1>6, ResetStreamInv
<1>7. ASSUME NEW t \in Threads, NEW p \in Users, IncrementToken(t, p) PROVE AnalyzerInv'
  BY <1>7, IncrementTokenInv
<1>8. ASSUME NEW t \in Threads, NEW p \in Users, NoToken(t, p) PROVE AnalyzerInv'
  BY <1>8, NoTokenInv
<1>9. ASSUME NEW t \in Threads, NEW p \in Users, IncrementThrows(t, p) PROVE AnalyzerInv'
  BY <1>9, IncrementThrowsInv
<1>10. ASSUME NEW t \in Threads, NEW p \in Users, End(t, p) PROVE AnalyzerInv'
  BY <1>10, EndInv
<1>11. ASSUME NEW t \in Threads, NEW p \in Users, Close(t, p) PROVE AnalyzerInv'
  BY <1>11, CloseInv
<1>12. ASSUME NEW t \in Threads, NEW p \in Users, CloseThrows(t, p) PROVE AnalyzerInv'
  BY <1>12, CloseThrowsInv
<1>13. CASE UNCHANGED vars
  <2>1. TypeOK'
    BY <1>13 DEF AnalyzerInv, TypeOK, vars
  <2>2. ASSUME NEW t \in Threads PROVE ThreadInv(t)'
    BY <1>13, OtherThread DEF vars
  <2>3. QED
    BY <2>1, <2>2 DEF AnalyzerInv
<1>14. QED
  BY <1>1, <1>2, <1>3, <1>4, <1>5, <1>6, <1>7, <1>8, <1>9, <1>10, <1>11, <1>12, <1>13 DEF Next

(* The strengthened invariant: of whoever nobody interferes with, the reader,
   the components and the tokens taken keep in step. *)
THEOREM Invariance == Spec => []AnalyzerInv
BY InitInv, NextInv, PTL DEF Spec

(* Every variable has its type, for any threads, fields and texts. *)
THEOREM TypeCorrect == Spec => []TypeOK
<1>1. AnalyzerInv => TypeOK
  BY DEF AnalyzerInv
<1>2. QED
  BY <1>1, Invariance, PTL

(* Whoever is not interfered with takes the words of their text, all of them
   and each at its place, for any texts and stop words. *)
THEOREM TokensAreRight == Spec => []TokensAreAsked
<1>1. ASSUME AnalyzerInv PROVE TokensAreAsked
  <2> SUFFICES ASSUME NEW t \in Threads, NEW p \in Users
               PROVE  LET u == use[t][p] IN
                      /\ u.harmed => \E q \in Users \ {p} : key[q] = key[p]
                      /\ u.phase \in {"running", "exhausted", "ended"} /\ ~u.harmed =>
                           /\ u.at <= Len(u.text)
                           /\ u.taken = Accepted(u.text, u.at)
                           /\ u.phase = "exhausted" => u.taken = Accepted(u.text, Len(u.text))
                           /\ u.phase = "ended" => u.at = Len(u.text)
    BY DEF TokensAreAsked
  <2> DEFINE u == use[t][p]
  <2>1. u.harmed => \E q \in Users \ {p} : key[q] = key[p]
    BY <1>1 DEF AnalyzerInv, ThreadInv
  <2>2. ASSUME u.phase \in {"running", "exhausted", "ended"}, ~u.harmed
        PROVE  /\ u.at <= Len(u.text)
               /\ u.taken = Accepted(u.text, u.at)
               /\ u.phase = "exhausted" => u.taken = Accepted(u.text, Len(u.text))
               /\ u.phase = "ended" => u.at = Len(u.text)
    <3>1. InUse(t, p)
      BY <2>2 DEF InUse
    <3>2. InStep(t, p) /\ u \in Uses
      BY <1>1, <2>2, <3>1, Facts
    <3>3. u.text \in Seq(Words) /\ u.at \in Nat
      BY <3>2 DEF Uses
    <3>4. /\ u.at <= Len(u.text) /\ u.taken = Accepted(u.text, u.at)
          /\ u.phase = "ended" => u.at = Len(u.text)
          /\ u.phase = "exhausted" => \A i \in u.at + 1..Len(u.text) : u.text[i] \in StopWords
      BY <2>2, <3>2 DEF InStep
    <3> HIDE DEF u
    <3>5. u.phase = "exhausted" => u.taken = Accepted(u.text, Len(u.text))
      BY <3>3, <3>4, AcceptedRest
    <3>6. QED
      BY <3>4, <3>5
  <2>3. QED
    BY <2>1, <2>2
<1>2. QED
  BY <1>1, Invariance, PTL

(* Components that nobody uses are ready for the next call, and nobody reads
   from a reader that is gone unless interfered with. *)
THEOREM StreamsAreLeftUsable == Spec => []LeftUsable
<1>1. ASSUME AnalyzerInv PROVE LeftUsable
  <2>1. ASSUME NEW t \in Threads, NEW k \in Fields,
               \A p \in Users : key[p] = k => ~InUse(t, p)
        PROVE  comp[t][k].input = Illegal
    BY <1>1, <2>1 DEF AnalyzerInv, ThreadInv
  <2>2. ASSUME NEW t \in Threads, NEW p \in Users, InUse(t, p), ~use[t][p].harmed
        PROVE  Input(t, p) # Dead
    <3>1. InStep(t, p)
      BY <1>1, <2>2, Facts
    <3>2. Input(t, p) = Illegal \/ Input(t, p) = Given(t, p)
      BY <3>1 DEF InStep, Input
    <3>3. Given(t, p) \in Readers
      BY <1>1, Facts, ReaderNames DEF Given
    <3>4. QED
      BY <3>2, <3>3, AnalyzerAssumption DEF AnalyzerAssumption
  <2>3. QED
    BY <2>1, <2>2 DEF LeftUsable
<1>2. QED
  BY <1>1, Invariance, PTL

--------------------------------------------------------------------------------
(* The promise of TokenStreams.  A move of somebody's use moves nobody else's,
   but may harm others of the same thread. *)
LEMMA Moved ==
  ASSUME AnalyzerInv, NEW t \in Threads, NEW p \in Users, NEW u,
         use' = Others(t, p, u) \/ use' = [use EXCEPT ![t][p] = u],
         Streams!Step(use[t][p], u)
  PROVE  Streams!Next
<1>1. use \in [Threads -> [Users -> Uses]]
  BY DEF AnalyzerInv, TypeOK
<1>2. use'[t][p] = u /\ \A s \in Threads \ {t} : use'[s] = use[s]
  BY <1>1 DEF Others
<1>3. ASSUME NEW q \in Users \ {p} PROVE use'[t][q] = use[t][q] \/ use'[t][q].harmed
  <2>1. CASE use' = Others(t, p, u)
    <3>1. use'[t][q] = use[t][q] \/ use'[t][q] = Harmed(use[t][q])
      BY <1>1, <2>1 DEF Others
    <3>2. Harmed(use[t][q]).harmed
      BY <1>1, HarmedType
    <3>3. QED
      BY <3>1, <3>2
  <2>2. CASE use' = [use EXCEPT ![t][p] = u]
    BY <1>1, <2>2
  <2>3. QED
    BY <2>1, <2>2
<1>4. Streams!Step(use[t][p], use'[t][p])
  BY <1>2
<1>5. QED
  BY <1>2, <1>3, <1>4 DEF Streams!Next

LEMMA BeginMoves ==
  ASSUME AnalyzerInv, NEW t \in Threads, NEW p \in Users,
         \/ \E s \in Texts, own \in BOOLEAN : Look(t, p, s, own)
         \/ Provide(t, p)
         \/ ResetStream(t, p)
  PROVE  Streams!Next
<1> USE DEF Streams!Step, Streams!Ask, Streams!Begin, Streams!Leave
<1>1. ASSUME NEW s \in Texts, NEW own \in BOOLEAN, Look(t, p, s, own) PROVE Streams!Next
  <2> DEFINE u == [NoUse EXCEPT !.phase = "looking", !.text = s, !.own = own]
  <2>1. use' = [use EXCEPT ![t][p] = u] /\ use[t][p].phase = "idle"
    BY <1>1 DEF Look
  <2>2. Streams!Step(use[t][p], u)
    BY <2>1
  <2> HIDE DEF u
  <2>3. QED
    BY <2>1, <2>2, Moved
<1>2. CASE Provide(t, p)
  <2> DEFINE u == [use[t][p] EXCEPT !.phase = "got"]
  <2>1. use[t][p].phase = "looking"
    BY <1>2 DEF Provide
  <2>2. PICK v \in {NoUse, u} : use' = Others(t, p, v) \/ use' = [use EXCEPT ![t][p] = v]
    BY <1>2 DEF Provide
  <2>3. Streams!Step(use[t][p], v)
    BY <2>1, <2>2
  <2>4. QED
    BY <2>2, <2>3, Moved
<1>3. CASE ResetStream(t, p)
  <2>1. PICK v : v = [use[t][p] EXCEPT !.phase = "running"]
    OBVIOUS
  <2>2. use' = Others(t, p, v) /\ use[t][p].phase = "got"
    BY <1>3, <2>1 DEF ResetStream
  <2>3. Streams!Step(use[t][p], v)
    BY <2>1, <2>2
  <2>4. QED
    BY <2>2, <2>3, Moved
<1>4. QED
  BY <1>1, <1>2, <1>3

(* The word that IncrementToken finds in the reader is the next of the text. *)
LEMMA TokenMoves ==
  ASSUME AnalyzerInv, NEW t \in Threads, NEW p \in Users, IncrementToken(t, p)
  PROVE  Streams!Next
<1>1. PICK o : o = use[t][p]
  OBVIOUS
<1>2. PICK r : r = reader[t][Input(t, p)]
  OBVIOUS
<1>3. PICK j \in 1..Len(r.str) :
        NextAt(r, j) /\ use' = Others(t, p, Take(o, r.str[j], 1 + (0 + (j - (r.pos + 1)))))
  BY <1>1, <1>2 DEF IncrementToken, StartSkipped
<1>4. PICK v : v = Take(o, r.str[j], 1 + (0 + (j - (r.pos + 1))))
  OBVIOUS
<1>5. o.phase = "running" /\ InUse(t, p) /\ o \in Uses
  BY <1>1, Facts DEF IncrementToken, InUse
<1>6. CASE o.harmed
  <2>1. Streams!Step(o, v)
    BY <1>6 DEF Streams!Step
  <2>2. QED
    BY <1>1, <1>3, <1>4, <2>1, Moved
<1>7. CASE ~o.harmed
  <2>1. InStep(t, p)
    BY <1>1, <1>5, <1>7, Facts
  <2>2. r.str = o.text /\ r.pos = o.at /\ o.at \in Nat /\ o.text \in Seq(Words)
    BY <1>1, <1>2, <1>5, <2>1 DEF InStep, Input, Uses
  <2>3. /\ j \in o.at + 1..Len(o.text)
        /\ \A i \in o.at + 1..j - 1 : o.text[i] \in StopWords
        /\ o.text[j] \notin StopWords
    BY <1>3, <2>2 DEF NextAt
  <2>4. o.at + (1 + (0 + (j - (o.at + 1)))) = j
    BY <2>2
  <2>5. v = [o EXCEPT !.at = j, !.taken = @ \cup {<<j, o.text[j]>>}]
    BY <1>4, <1>7, <2>2, <2>4 DEF Take
  <2>6. Streams!Token(o, v)
    BY <1>5, <2>3, <2>5 DEF Streams!Token
  <2>7. Streams!Step(o, v)
    BY <2>6 DEF Streams!Step
  <2>8. QED
    BY <1>1, <1>3, <1>4, <2>7, Moved
<1>8. QED
  BY <1>6, <1>7

LEMMA ExhaustMoves ==
  ASSUME AnalyzerInv, NEW t \in Threads, NEW p \in Users, NoToken(t, p)
  PROVE  Streams!Next
<1>1. PICK o : o = use[t][p]
  OBVIOUS
<1>2. PICK r : r = reader[t][Input(t, p)]
  OBVIOUS
<1>3. PICK v : v = [o EXCEPT !.phase = "exhausted"]
  OBVIOUS
<1>4. o.phase = "running" /\ InUse(t, p) /\ o \in Uses
  BY <1>1, Facts DEF NoToken, InUse
<1>5. use' = Others(t, p, v) /\ (Good(r) => NextAt(r, Len(r.str) + 1))
  BY <1>1, <1>2, <1>3 DEF NoToken
<1>6. Streams!Step(o, v)
  <2>1. CASE o.harmed
    BY <2>1 DEF Streams!Step
  <2>2. CASE ~o.harmed
    <3>1. InStep(t, p)
      BY <1>1, <1>4, <2>2, Facts
    <3>2. /\ r.str = o.text /\ r.pos = o.at /\ Good(r)
          /\ o.at \in Nat /\ o.text \in Seq(Words)
      BY <1>1, <1>2, <1>4, <3>1 DEF InStep, Input, Uses
    <3>3. \A i \in o.at + 1..Len(o.text) : o.text[i] \in StopWords
      BY <1>5, <3>2 DEF NextAt
    <3>4. Streams!Exhaust(o, v)
      BY <1>3, <1>4, <3>3 DEF Streams!Exhaust
    <3>5. QED
      BY <3>4 DEF Streams!Step
  <2>3. QED
    BY <2>1, <2>2
<1>7. QED
  BY <1>1, <1>5, <1>6, Moved

LEMMA EndMoves ==
  ASSUME AnalyzerInv, NEW t \in Threads, NEW p \in Users, End(t, p)
  PROVE  Streams!Next
<1>1. PICK o : o = use[t][p]
  OBVIOUS
<1>2. PICK n : n = comp[t][key[p]].skipped
  OBVIOUS
<1>3. PICK v : v = [o EXCEPT !.phase = "ended", !.at = IF o.harmed THEN @ ELSE @ + n]
  OBVIOUS
<1>4. o.phase = "exhausted" /\ InUse(t, p) /\ use' = Others(t, p, v)
  BY <1>1, <1>2, <1>3 DEF End, InUse
<1>5. Streams!Step(o, v)
  <2>1. CASE o.harmed
    BY <2>1 DEF Streams!Step
  <2>2. CASE ~o.harmed
    <3>1. o.at + n = Len(o.text)
      BY <1>1, <1>2, <1>4, <2>2, Facts DEF InStep
    <3>2. v = [o EXCEPT !.phase = "ended", !.at = Len(o.text)]
      BY <1>3, <2>2, <3>1
    <3>3. Streams!End(o, v)
      BY <1>4, <3>2 DEF Streams!End
    <3>4. QED
      BY <3>3 DEF Streams!Step
  <2>3. QED
    BY <2>1, <2>2
<1>6. QED
  BY <1>1, <1>4, <1>5, Moved

(* Only somebody harmed finds the illegal reader. *)
LEMMA ThrowMoves ==
  ASSUME AnalyzerInv, NEW t \in Threads, NEW p \in Users, IncrementThrows(t, p)
  PROVE  Streams!Next
<1>1. use[t][p].phase = "running" /\ InUse(t, p) /\ Input(t, p) = Illegal
  BY DEF IncrementThrows, InUse
<1>2. use[t][p].harmed
  <2>1. ASSUME ~use[t][p].harmed PROVE FALSE
    <3>1. Input(t, p) = Given(t, p)
      BY <1>1, <2>1, Facts DEF InStep, Input
    <3>2. Given(t, p) \in Readers
      BY Facts, ReaderNames DEF Given
    <3>3. QED
      BY <1>1, <3>1, <3>2, AnalyzerAssumption DEF AnalyzerAssumption
  <2>2. QED
    BY <2>1
<1>3. PICK o : o = use[t][p]
  OBVIOUS
<1>4. use' = Others(t, p, o) /\ Streams!Step(o, o)
  BY <1>2, <1>3 DEF IncrementThrows, Streams!Step
<1>5. QED
  BY <1>3, <1>4, Moved

LEMMA StreamsStep == AnalyzerInv /\ [Next]_vars => [Streams!Next]_use
<1> SUFFICES ASSUME AnalyzerInv, [Next]_vars PROVE Streams!Next \/ UNCHANGED use
  OBVIOUS
<1>1. ASSUME NEW t \in Threads, NEW p \in Users,
             StoreThrows(t, p) \/ Close(t, p) \/ CloseThrows(t, p)
      PROVE  Streams!Next
  <2>1. use' = Others(t, p, NoUse) \/ use' = [use EXCEPT ![t][p] = NoUse]
    BY <1>1 DEF StoreThrows, Close, CloseThrows
  <2>2. Streams!Step(use[t][p], NoUse)
    BY DEF Streams!Step, Streams!Leave
  <2>3. QED
    BY <2>1, <2>2, Moved
<1>2. ASSUME NEW t \in Threads, Exit(t) PROVE UNCHANGED use
  BY <1>2 DEF Exit
<1>3. ASSUME CloseAnalyzer \/ UNCHANGED vars PROVE UNCHANGED use
  BY <1>3 DEF CloseAnalyzer, vars
<1>4. QED
  BY <1>1, <1>2, <1>3, BeginMoves, TokenMoves, ExhaustMoves, EndMoves, ThrowMoves DEF Next

(* An Analyzer implements TokenStreams: nobody sees that streams are reused, but
   where two fields of one thread share components. *)
THEOREM AnalyzerImplementsTokenStreams == Spec => ImplementsTokenStreams
<1>1. Init => Streams!Init
  BY DEF Init, Streams!Init
<1>2. QED
  BY <1>1, StreamsStep, Invariance, PTL DEF Spec, ImplementsTokenStreams, Streams!Spec

================================================================================

--------------------------- MODULE MappedInputProofs ---------------------------
(***************************************************************************)
(* Proofs about MappedInput, for any threads, inputs, addresses, flags and *)
(* number of mappings.                                                     *)
(***************************************************************************)
EXTENDS MappedInput, TLAPS

LEMMA AnyAddrType == AnyAddr \in Addrs
BY MappedAssumption DEF MappedAssumption, AnyAddr

LEMMA InitInv == Init => MappedInv
<1> SUFFICES ASSUME Init PROVE MappedInv
  OBVIOUS
<1>1. TypeOK
  BY MappedAssumption, AnyAddrType DEF Init, TypeOK, MappedAssumption
<1>2. CallsInv /\ OwnersInv /\ BasesInv /\ NothingLeaks
  BY MappedAssumption DEF Init, CallsInv, OwnersInv, BasesInv, NothingLeaks, Owns, IsOpen,
     HasToUnmap, Steps, MappedAssumption
<1>3. QED
  BY <1>1, <1>2 DEF MappedInv

(* Copies and slices: a new clone with the base and the mapping of another
   input. *)
LEMMA CloneInv ==
  ASSUME MappedInv, NEW i \in live, NEW j \in Inputs, NEW cell \in Cells \cup {NoCell},
         Construct(j, TRUE, cell, base[i], of[i]), UNCHANGED <<memory, cells, calls>>
  PROVE  MappedInv'
<1> USE DEF MappedInv, TypeOK
<1>0. /\ i \in Inputs /\ j \notin live
      /\ live' = live \cup {j}
      /\ isClone' = [isClone EXCEPT ![j] = TRUE]
      /\ isClosed' = [isClosed EXCEPT ![j] = cell]
      /\ base' = [base EXCEPT ![j] = base[i]]
      /\ of' = [of EXCEPT ![j] = of[i]]
      /\ UNCHANGED <<mem, nmaps, stuck, cells, pc, at, dying>>
  BY DEF Construct, calls, memory
<1>1. TypeOK'
  BY <1>0
<1>2. \A k \in Inputs : Owns(k)' <=> Owns(k)
  BY <1>0 DEF Owns
<1>3. \A k \in Inputs : Owns(k) => k # j /\ isClosed'[k] = isClosed[k] /\ base'[k] = base[k] /\ of'[k] = of[k]
  BY <1>0 DEF Owns
<1>4. \A k \in Inputs : IsOpen(k)' <=> IsOpen(k)
  BY <1>0, <1>2, <1>3 DEF IsOpen
<1>5. CallsInv'
  BY <1>0, MappedAssumption DEF CallsInv, HasToUnmap, MappedAssumption
<1>6. OwnersInv'
  BY <1>0, <1>2, <1>3, <1>4 DEF OwnersInv
<1>7. BasesInv'
  BY <1>0, <1>2, <1>3 DEF BasesInv
<1>8. NothingLeaks'
  BY <1>0, <1>2, <1>3, <1>4 DEF NothingLeaks, IsOpen
<1>9. QED
  BY <1>1, <1>5, <1>6, <1>7, <1>8

LEMMA OpenInputInv ==
  ASSUME MappedInv, NEW t \in Threads, NEW j \in Inputs, OpenInput(t, j)
  PROVE  MappedInv'
<1> USE DEF MappedInv, TypeOK
<1>0. PICK a \in Addrs, c \in Cells :
        /\ mem[a] = 0 /\ cells[c] = "free"
        /\ mem' = [mem EXCEPT ![a] = nmaps + 1]
        /\ cells' = [cells EXCEPT ![c] = "open"]
        /\ Construct(j, FALSE, c, a, nmaps + 1)
  BY DEF OpenInput
<1>a. /\ j \notin live
      /\ live' = live \cup {j}
      /\ isClone' = [isClone EXCEPT ![j] = FALSE]
      /\ isClosed' = [isClosed EXCEPT ![j] = c]
      /\ base' = [base EXCEPT ![j] = a]
      /\ of' = [of EXCEPT ![j] = nmaps + 1]
      /\ nmaps < MaxMaps /\ nmaps' = nmaps + 1
      /\ UNCHANGED <<stuck, pc, at, dying>>
  BY <1>0 DEF Construct, calls, OpenInput
<1>b. nmaps \in Nat /\ nmaps + 1 \in 0 .. MaxMaps /\ nmaps + 1 # 0
      /\ \A n \in 0 .. nmaps : n # nmaps + 1 /\ n \in 0 .. nmaps + 1
  BY <1>a, MappedAssumption DEF MappedAssumption
<1>c. c # NoCell
  BY MappedAssumption DEF MappedAssumption
<1>1. TypeOK'
  BY <1>0, <1>a, <1>b
<1>2. \A k \in Inputs : Owns(k)' <=> Owns(k) \/ k = j
  BY <1>a DEF Owns
<1>3. \A k \in Inputs : Owns(k) => /\ k # j /\ isClosed'[k] = isClosed[k] /\ base'[k] = base[k]
                                  /\ of'[k] = of[k] /\ isClosed[k] # c
                                  /\ isClosed[k] \in Cells
                                  /\ cells'[isClosed'[k]] = cells[isClosed[k]]
  BY <1>0, <1>a DEF Owns, OwnersInv
<1>4. \A u \in Threads : at[u] # NoInput => (HasToUnmap(at[u])' <=> HasToUnmap(at[u]))
  BY <1>0, <1>a, <1>3 DEF CallsInv, HasToUnmap, Owns
<1>5. \A u \in Threads : at[u] # j
  BY <1>a, MappedAssumption DEF CallsInv, MappedAssumption
<1>6. \A k \in Inputs : IsOpen(k)' <=> IsOpen(k) \/ k = j
  BY <1>0, <1>a, <1>2, <1>3, <1>5 DEF IsOpen
<1>7. CallsInv'
  <2>1. \A u \in Threads : pc[u] \in {"unmap", "mark", "delete"} => at[u] # NoInput
    BY DEF CallsInv
  <2>2. QED
    BY <1>a, <1>4, <2>1 DEF CallsInv
<1>8. \A k \in Inputs : IsOpen(k) => Owns(k) /\ mem[base[k]] = of[k] /\ of[k] # 0 /\ base[k] # a
                                    /\ mem'[base[k]] = of[k]
  BY <1>0 DEF OwnersInv, IsOpen
<1>9. \A k \in Inputs : of[k] # nmaps + 1
  BY <1>b
<1>10. OwnersInv'
  BY <1>0, <1>a, <1>b, <1>c, <1>2, <1>3, <1>6, <1>8, <1>9 DEF OwnersInv
<1>11. BasesInv'
  BY <1>a, <1>2, <1>3, <1>9 DEF BasesInv
<1>12. NothingLeaks'
  BY <1>0, <1>a, <1>2, <1>3, <1>6, <1>8 DEF NothingLeaks
<1>13. QED
  BY <1>1, <1>7, <1>10, <1>11, <1>12

LEMMA MoveInv ==
  ASSUME MappedInv, NEW t \in Threads, NEW i \in Inputs, NEW j \in Inputs, Move(t, i, j)
  PROVE  MappedInv'
<1> USE DEF MappedInv, TypeOK
<1>0. /\ i \in live /\ j \notin live /\ i # j
      /\ \A u \in Threads : at[u] # i /\ at[u] # j
      /\ live' = live \cup {j}
      /\ isClone' = [isClone EXCEPT ![j] = isClone[i], ![i] = TRUE]
      /\ isClosed' = [isClosed EXCEPT ![j] = isClosed[i]]
      /\ base' = [base EXCEPT ![j] = base[i]]
      /\ of' = [of EXCEPT ![j] = of[i]]
      /\ UNCHANGED <<mem, nmaps, stuck, cells, pc, at, dying>>
  BY MappedAssumption DEF Move, MayUse, calls, memory, CallsInv, MappedAssumption
<1>1. TypeOK'
  BY <1>0
<1> DEFINE from(k) == IF k = j THEN i ELSE k
<1>2. \A k \in Inputs : Owns(k)' => /\ from(k) \in Inputs /\ Owns(from(k)) /\ k # i
                                    /\ isClosed'[k] = isClosed[from(k)]
                                    /\ base'[k] = base[from(k)] /\ of'[k] = of[from(k)]
  BY <1>0 DEF Owns
<1>3. \A k \in Inputs : Owns(k) => \E n \in Inputs : Owns(n)' /\ from(n) = k
  BY <1>0 DEF Owns
<1>4. \A k \in Inputs : Owns(k)' => (IsOpen(k)' <=> IsOpen(from(k)))
  BY <1>0, <1>2 DEF IsOpen
<1>5. CallsInv'
  BY <1>0, MappedAssumption DEF CallsInv, HasToUnmap, MappedAssumption
<1>6. OwnersInv'
  BY <1>0, <1>2, <1>4 DEF OwnersInv
<1>7. \A k \in live' : k \in Inputs /\ base'[k] = base[from(k)] /\ of'[k] = of[from(k)] /\ from(k) \in live
  BY <1>0
<1>8. BasesInv'
  BY <1>2, <1>7 DEF BasesInv
<1>9. NothingLeaks'
  <2>1. ASSUME NEW a \in Addrs, mem[a] \notin {0} \cup stuck
        PROVE  \E o \in Inputs : IsOpen(o)' /\ of'[o] = mem[a] /\ base'[o] = a
    BY <1>2, <1>3, <1>4, <2>1 DEF NothingLeaks, IsOpen
  <2>2. ASSUME NEW c \in Cells, cells[c] # "free"
        PROVE  \E o \in Inputs : Owns(o)' /\ isClosed'[o] = c
    BY <1>2, <1>3, <2>2 DEF NothingLeaks
  <2>3. QED
    BY <1>0, <2>1, <2>2 DEF NothingLeaks
<1>10. QED
  BY <1>1, <1>5, <1>6, <1>8, <1>9

--------------------------------------------------------------------------------
(* Close and the destructor.  Only the thread t moves, and only its input is
   touched. *)

LEMMA CloseInv ==
  ASSUME MappedInv, NEW t \in Threads, NEW i \in Inputs, NEW d \in BOOLEAN, Close(t, i, d)
  PROVE  MappedInv'
<1> USE DEF MappedInv, TypeOK
<1>0. /\ i \in live /\ pc[t] = "idle"
      /\ \A u \in Threads : at[u] # i
      /\ pc' = [pc EXCEPT ![t] = "test"]
      /\ at' = [at EXCEPT ![t] = i]
      /\ dying' = [dying EXCEPT ![t] = d]
      /\ UNCHANGED <<mem, nmaps, stuck, cells, live, isClone, isClosed, base, of>>
  BY DEF Close, MayUse, objects, memory
<1>1. TypeOK'
  BY <1>0 DEF Steps
<1>2. \A k \in Inputs : (Owns(k)' <=> Owns(k)) /\ (IsOpen(k)' <=> IsOpen(k))
  BY <1>0 DEF Owns, IsOpen
<1>3. CallsInv'
  BY <1>0, MappedAssumption DEF CallsInv, HasToUnmap, MappedAssumption
<1>4. OwnersInv' /\ BasesInv' /\ NothingLeaks'
  BY <1>0, <1>2 DEF OwnersInv, BasesInv, NothingLeaks
<1>5. QED
  BY <1>1, <1>3, <1>4

(* What a thread in a call knows of its input. *)
LEMMA InCall ==
  ASSUME MappedInv, NEW t \in Threads, pc[t] # "idle"
  PROVE  /\ at[t] \in Inputs /\ at[t] \in live /\ at[t] # NoInput
         /\ \A u \in Threads : u # t => at[u] # at[t]
BY DEF MappedInv, TypeOK, CallsInv

LEMMA TestInv ==
  ASSUME MappedInv, NEW t \in Threads, Test(t)
  PROVE  MappedInv'
<1> USE DEF MappedInv, TypeOK
<1>0. /\ pc[t] = "test"
      /\ UNCHANGED <<mem, nmaps, stuck, cells, live, isClone, isClosed, base, of, dying>>
      /\ \/ /\ HasToUnmap(at[t])
            /\ pc' = [pc EXCEPT ![t] = "unmap"] /\ at' = at
         \/ /\ ~HasToUnmap(at[t]) /\ dying[t]
            /\ pc' = [pc EXCEPT ![t] = "delete"] /\ at' = [at EXCEPT ![t] = at[t]]
         \/ /\ ~HasToUnmap(at[t]) /\ ~dying[t]
            /\ pc' = [pc EXCEPT ![t] = "idle"] /\ at' = [at EXCEPT ![t] = NoInput]
  BY DEF Test, CloseReturns, objects, memory
<1>1. TypeOK'
  BY <1>0 DEF Steps
<1>2. \A k \in Inputs : (Owns(k)' <=> Owns(k)) /\ (IsOpen(k)' <=> IsOpen(k))
  BY <1>0, InCall, MappedAssumption DEF Owns, IsOpen, MappedAssumption
<1>3. CallsInv'
  BY <1>0, InCall DEF CallsInv, HasToUnmap
<1>4. OwnersInv' /\ BasesInv' /\ NothingLeaks'
  BY <1>0, <1>2 DEF OwnersInv, BasesInv, NothingLeaks
<1>5. QED
  BY <1>1, <1>3, <1>4

LEMMA UnmapInv ==
  ASSUME MappedInv, NEW t \in Threads, Unmap(t)
  PROVE  MappedInv'
<1> USE DEF MappedInv, TypeOK
<1>0. /\ pc[t] = "unmap" /\ HasToUnmap(at[t])
      /\ \/ mem' = [mem EXCEPT ![base[at[t]]] = 0] /\ stuck' = stuck
         \/ mem' = mem /\ stuck' = stuck \cup {of[at[t]]}
      /\ pc' = [pc EXCEPT ![t] = "mark"]
      /\ UNCHANGED <<nmaps, cells, live, isClone, isClosed, base, of, at, dying>>
  BY DEF Unmap, objects, CallsInv
<1>a. nmaps \in Nat
  BY MappedAssumption DEF MappedAssumption
<1>1. TypeOK'
  <2>1. of[at[t]] \in 1 .. nmaps
    BY <1>0, <1>a, InCall DEF OwnersInv, Owns, HasToUnmap
  <2>2. 0 \in 0 .. nmaps /\ mem \in [Addrs -> 0 .. nmaps]
    BY <1>a
  <2>3. mem' \in [Addrs -> 0 .. nmaps]
    BY <1>0, <2>2
  <2>4. stuck \subseteq 1 .. nmaps /\ stuck \cup {of[at[t]]} \subseteq 1 .. nmaps
    BY <2>1
  <2>5. stuck' \subseteq 1 .. nmaps
    BY <1>0, <2>4
  <2>6. QED
    BY <1>0, <2>3, <2>5, InCall DEF Steps
<1>2. \A k \in Inputs : Owns(k)' <=> Owns(k)
  BY <1>0 DEF Owns
<1>3. IsOpen(at[t]) /\ ~IsOpen(at[t])'
  BY <1>0, InCall DEF IsOpen, Owns, HasToUnmap
<1>4. \A k \in Inputs : k # at[t] => (IsOpen(k)' <=> IsOpen(k))
  BY <1>0, InCall DEF IsOpen, Owns
<1>5. \A k \in Inputs : IsOpen(k) => Owns(k) /\ mem[base[k]] = of[k] /\ of[k] # 0
  BY DEF OwnersInv, IsOpen
<1>6. \A k \in Inputs : IsOpen(k)' => IsOpen(k) /\ base[k] # base[at[t]] /\ mem'[base[k]] = of[k]
  BY <1>0, <1>3, <1>4, <1>5, InCall DEF OwnersInv
<1>7. CallsInv'
  BY <1>0, InCall DEF CallsInv, HasToUnmap
<1>8. OwnersInv'
  BY <1>0, <1>2, <1>6 DEF OwnersInv
<1>9. BasesInv'
  BY <1>0, <1>2 DEF BasesInv
<1>10. NothingLeaks'
  <2>1. ASSUME NEW a \in Addrs, mem'[a] \notin {0} \cup stuck'
        PROVE  \E o \in Inputs : IsOpen(o)' /\ of'[o] = mem'[a] /\ base'[o] = a
    <3>1. mem[a] = mem'[a] /\ (a # base[at[t]] \/ mem[a] # of[at[t]])
      BY <1>0, <2>1, InCall
    <3>2. PICK o \in Inputs : IsOpen(o) /\ of[o] = mem[a] /\ base[o] = a
      BY <1>0, <3>1, <2>1 DEF NothingLeaks
    <3>3. o # at[t]
      BY <3>1, <3>2
    <3>4. QED
      BY <1>0, <1>4, <3>1, <3>2, <3>3
  <2>2. QED
    BY <1>0, <1>2, <2>1 DEF NothingLeaks
<1>11. QED
  BY <1>1, <1>7, <1>8, <1>9, <1>10

LEMMA MarkInv ==
  ASSUME MappedInv, NEW t \in Threads, Mark(t)
  PROVE  MappedInv'
<1> USE DEF MappedInv, TypeOK
<1>0. /\ pc[t] = "mark" /\ HasToUnmap(at[t])
      /\ cells' = [cells EXCEPT ![isClosed[at[t]]] = "closed"]
      /\ UNCHANGED <<mem, nmaps, stuck, live, isClone, isClosed, base, of, dying>>
      /\ \/ /\ dying[t]
            /\ pc' = [pc EXCEPT ![t] = "delete"] /\ at' = [at EXCEPT ![t] = at[t]]
         \/ /\ ~dying[t]
            /\ pc' = [pc EXCEPT ![t] = "idle"] /\ at' = [at EXCEPT ![t] = NoInput]
  BY DEF Mark, CloseReturns, objects, memory, CallsInv
<1>x. PICK x \in Inputs : x = at[t] /\ x \in live /\ x # NoInput /\ \A u \in Threads : u # t => at[u] # x
  BY <1>0, InCall
<1>1. TypeOK'
  BY <1>0 DEF Steps
<1>2. \A k \in Inputs : Owns(k)' <=> Owns(k)
  BY <1>0 DEF Owns
<1>3. Owns(x) /\ isClosed[x] \in Cells /\ ~IsOpen(x)
  BY <1>0, <1>x DEF IsOpen, Owns, HasToUnmap, OwnersInv
<1>4. \A k \in Inputs : Owns(k) /\ k # x =>
        isClosed[k] # isClosed[x] /\ cells'[isClosed[k]] = cells[isClosed[k]]
  BY <1>0, <1>3, <1>x DEF OwnersInv
<1>5. \A k \in Inputs : k # x => (IsOpen(k)' <=> IsOpen(k))
  BY <1>0, <1>2, <1>4, <1>x, MappedAssumption DEF IsOpen, MappedAssumption
<1>6. ~IsOpen(x)' /\ ~HasToUnmap(x)'
  <2>1. cells'[isClosed[x]] = "closed"
    BY <1>0, <1>3, <1>x
  <2>2. isClosed' = isClosed
    BY <1>0
  <2>3. cells'[isClosed'[x]] # "open"
    BY <2>1, <2>2
  <2>4. QED
    BY <2>3 DEF IsOpen, HasToUnmap
<1>7. CallsInv'
  <2>1. \A u \in Threads : u # t /\ at[u] # NoInput => (HasToUnmap(at[u])' <=> HasToUnmap(at[u]))
    BY <1>0, <1>4, <1>x DEF HasToUnmap, CallsInv, Owns
  <2>2. QED
    BY <1>0, <1>6, <2>1, <1>x DEF CallsInv, HasToUnmap
<1>8. OwnersInv'
  BY <1>0, <1>2, <1>3, <1>4, <1>5, <1>6 DEF OwnersInv
<1>9. BasesInv'
  BY <1>0, <1>2 DEF BasesInv
<1>10. NothingLeaks'
  <2>1. ASSUME NEW a \in Addrs, mem[a] \notin {0} \cup stuck
        PROVE  \E o \in Inputs : IsOpen(o)' /\ of[o] = mem[a] /\ base[o] = a
    BY <1>3, <1>5, <2>1 DEF NothingLeaks
  <2>2. ASSUME NEW c \in Cells, cells'[c] # "free"
        PROVE  cells[c] # "free"
    BY <1>0, <1>3, <1>x, <2>2 DEF OwnersInv
  <2>3. QED
    BY <1>0, <1>2, <2>1, <2>2 DEF NothingLeaks
<1>11. QED
  BY <1>1, <1>7, <1>8, <1>9, <1>10

LEMMA DeleteInv ==
  ASSUME MappedInv, NEW t \in Threads, Delete(t)
  PROVE  MappedInv'
<1> USE DEF MappedInv, TypeOK
<1> DEFINE x == at[t]
<1>0. /\ pc[t] = "delete" /\ ~HasToUnmap(x)
      /\ cells' = IF isClone[x] THEN cells ELSE [cells EXCEPT ![isClosed[x]] = "free"]
      /\ live' = live \ {x}
      /\ isClone' = [isClone EXCEPT ![x] = TRUE]
      /\ isClosed' = [isClosed EXCEPT ![x] = NoCell]
      /\ base' = [base EXCEPT ![x] = AnyAddr]
      /\ of' = [of EXCEPT ![x] = 0]
      /\ pc' = [pc EXCEPT ![t] = "idle"]
      /\ at' = [at EXCEPT ![t] = NoInput]
      /\ dying' = [dying EXCEPT ![t] = FALSE]
      /\ UNCHANGED <<mem, nmaps, stuck>>
  BY DEF Delete, memory, CallsInv
<1>a. x \in Inputs /\ x \in live /\ x # NoInput /\ \A u \in Threads : u # t => at[u] # x
  BY <1>0, InCall
<1> HIDE DEF x
<1>1. TypeOK'
  <2>1. 0 \in 0 .. nmaps
    BY MappedAssumption DEF MappedAssumption
  <2>2. QED
    BY <1>0, <1>a, <2>1, AnyAddrType
<1>2. \A k \in Inputs : Owns(k)' <=> Owns(k) /\ k # x
  BY <1>0, <1>a DEF Owns
<1>3. \A k \in Inputs : k # x => isClosed'[k] = isClosed[k] /\ base'[k] = base[k] /\ of'[k] = of[k]
                                  /\ isClone'[k] = isClone[k]
  BY <1>0
<1>4. \A k \in Inputs : Owns(k) /\ k # x => cells'[isClosed[k]] = cells[isClosed[k]]
  <2>1. ASSUME NEW k \in Inputs, Owns(k), k # x, ~isClone[x]
        PROVE  isClosed[k] # isClosed[x]
    BY <1>a, <2>1 DEF OwnersInv, Owns
  <2>2. QED
    BY <1>0, <2>1 DEF OwnersInv
<1>5. ~IsOpen(x)
  BY <1>0 DEF IsOpen, HasToUnmap, Owns
<1>6. \A k \in Inputs : k # x => (IsOpen(k)' <=> IsOpen(k))
  <2>1. \A k \in Inputs, u \in Threads : k # x => (at'[u] = k /\ pc'[u] = "mark" <=> at[u] = k /\ pc[u] = "mark")
    BY <1>0, <1>a, MappedAssumption DEF MappedAssumption, x
  <2>2. QED
    BY <1>2, <1>3, <1>4, <2>1 DEF IsOpen
<1>7. CallsInv'
  <2>1. \A u \in Threads : u # t => pc'[u] = pc[u] /\ at'[u] = at[u] /\ at[u] # x
    BY <1>0, <1>a
  <2>2. \A u \in Threads : u # t /\ at[u] # NoInput => (HasToUnmap(at[u])' <=> HasToUnmap(at[u]))
    BY <1>3, <1>4, <2>1 DEF HasToUnmap, CallsInv, Owns
  <2>3. pc'[t] = "idle" /\ at'[t] = NoInput
    BY <1>0
  <2>4. QED
    BY <1>0, <2>1, <2>2, <2>3 DEF CallsInv
<1>8. OwnersInv'
  BY <1>0, <1>2, <1>3, <1>4, <1>6 DEF OwnersInv
<1>9. BasesInv'
  BY <1>0, <1>2, <1>3 DEF BasesInv
<1>10. NothingLeaks'
  <2>1. ASSUME NEW a \in Addrs, mem'[a] \notin {0} \cup stuck'
        PROVE  \E o \in Inputs : IsOpen(o)' /\ of'[o] = mem'[a] /\ base'[o] = a
    <3>1. PICK o \in Inputs : IsOpen(o) /\ of[o] = mem[a] /\ base[o] = a
      BY <1>0, <2>1 DEF NothingLeaks
    <3>2. QED
      BY <1>0, <1>3, <1>5, <1>6, <3>1
  <2>2. ASSUME NEW c \in Cells, cells'[c] # "free"
        PROVE  \E o \in Inputs : Owns(o)' /\ isClosed'[o] = c
    <3>1. cells[c] # "free" /\ (isClone[x] \/ c # isClosed[x])
      BY <1>0, <2>2
    <3>2. PICK o \in Inputs : Owns(o) /\ isClosed[o] = c
      BY <3>1 DEF NothingLeaks
    <3>3. o # x
      BY <3>1, <3>2 DEF Owns
    <3>4. QED
      BY <1>2, <1>3, <3>2, <3>3
  <2>3. QED
    BY <2>1, <2>2 DEF NothingLeaks
<1>11. QED
  BY <1>1, <1>7, <1>8, <1>9, <1>10

--------------------------------------------------------------------------------

LEMMA NextInv ==
  ASSUME MappedInv, [Next]_vars
  PROVE  MappedInv'
<1>1. CASE UNCHANGED vars
  BY <1>1 DEF vars, MappedInv, TypeOK, CallsInv, OwnersInv, BasesInv, NothingLeaks, Owns, IsOpen,
     HasToUnmap
<1>2. ASSUME NEW t \in Threads, NEW i \in Inputs, NEW j \in Inputs, Copy(t, i, j)
      PROVE  MappedInv'
  <2>1. i \in live /\ isClosed[i] \in Cells \cup {NoCell}
    BY <1>2 DEF Copy, MayUse, MappedInv, TypeOK
  <2>2. QED
    BY <1>2, <2>1, CloneInv DEF Copy
<1>3. ASSUME NEW t \in Threads, NEW i \in Inputs, NEW j \in Inputs, Slice(t, i, j)
      PROVE  MappedInv'
  <2>1. i \in live /\ NoCell \in Cells \cup {NoCell}
    BY <1>3 DEF Slice, MayUse
  <2>2. QED
    BY <1>3, <2>1, CloneInv DEF Slice
<1>4. QED
  BY <1>1, <1>2, <1>3, OpenInputInv, MoveInv, CloseInv, TestInv, UnmapInv, MarkInv, DeleteInv
  DEF Next, Step, OpenInputThrows

LEMMA MappedInvariant == Spec => []MappedInv
BY InitInv, NextInv, PTL DEF Spec

(* Every variable keeps its type. *)
THEOREM TypeCorrect == Spec => []TypeOK
<1>1. MappedInv => TypeOK
  BY DEF MappedInv
<1>2. QED
  BY <1>1, MappedInvariant, PTL

(* A read through a clone or a slice finds its file while the owner is open. *)
THEOREM ReadsAreSafe == Spec => []ReadsFindTheirFile
<1>1. MappedInv => ReadsFindTheirFile
  BY DEF MappedInv, OwnersInv, BasesInv, ReadsFindTheirFile, IsOpen
<1>2. QED
  BY <1>1, MappedInvariant, PTL

(* No munmap and no delete hits what belongs to somebody else. *)
THEOREM CallsAreSafe == Spec => []CallsHitTheirOwn
<1>1. ASSUME MappedInv, NEW t \in Threads, pc[t] = "unmap"
      PROVE  mem[base[at[t]]] = of[at[t]]
  <2>1. IsOpen(at[t]) /\ at[t] \in Inputs
    BY <1>1, InCall DEF MappedInv, CallsInv, IsOpen, Owns, HasToUnmap
  <2>2. QED
    BY <1>1, <2>1 DEF MappedInv, OwnersInv, IsOpen
<1>2. MappedInv => CallsHitTheirOwn
  BY <1>1 DEF MappedInv, OwnersInv, CallsHitTheirOwn
<1>3. QED
  BY <1>2, MappedInvariant, PTL

(* Mappings and flags always have an owner. *)
THEOREM NothingLeaksEver == Spec => []NothingLeaks
<1>1. MappedInv => NothingLeaks
  BY DEF MappedInv
<1>2. QED
  BY <1>1, MappedInvariant, PTL

================================================================================

------------------------------ MODULE MappedInput ------------------------------
(***************************************************************************)
(* Store/DataInput.h: ByteBufferIndexInput, the input of an MMapDirectory. *)
(* One object owns the mapping of its file; copies (clones) and slices     *)
(* point into the same memory and share, or do not share, the flag         *)
(* *isClosed.  Threads open, copy, slice, move, close and destroy inputs;  *)
(* an input is used by one thread at a time, its copies by others.         *)
(*                                                                         *)
(* The address of a mapping that is gone may be given to the next one, and *)
(* the memory of a deleted flag to the next flag.  So a munmap or a delete *)
(* that comes once too often would hit what belongs to somebody else.      *)
(*                                                                         *)
(* Left out: positions, lengths and offsets, which nothing checks; a read  *)
(* changes nothing else, so that what it would find is a state predicate.  *)
(* EnsureValid is there, and nobody calls it.                              *)
(***************************************************************************)
EXTENDS Naturals

CONSTANTS
  Threads, Inputs,
  Addrs,     (* where mmap may put a mapping                                *)
  Cells,     (* where new bool may put a flag                               *)
  MaxMaps,   (* bounds how many files are mapped: a further mmap fails      *)
  NoInput, NoCell

ASSUME MappedAssumption ==
  /\ MaxMaps \in Nat
  /\ Addrs # {}
  /\ NoInput \notin Inputs
  /\ NoCell \notin Cells

VARIABLES
  mem,      \* address -> the mapping that is there, 0 for none
  nmaps,    \* mappings made so far: they are numbered 1, 2, ...
  cells,    \* the heap of flags: "free", "open" (false) or "closed" (true)
  live,     \* the inputs that have been constructed and not destroyed
  isClone,
  isClosed, \* the field, a pointer: a cell, or NoCell for nullptr
  base,     \* the field: an address
  of,       \* history: the mapping an input was made for
  stuck,    \* history: the mappings whose munmap failed
  pc, at,   \* where a thread is inside Close or the destructor, of which input
  dying     \* whether that call is the destructor

objects == <<live, isClone, isClosed, base, of>>
memory == <<mem, nmaps, stuck>>
calls == <<pc, at, dying>>
vars == <<mem, nmaps, cells, live, isClone, isClosed, base, of, stuck, pc, at, dying>>

AnyAddr == CHOOSE a \in Addrs : TRUE

Steps == {"test", "unmap", "mark", "delete"}

TypeOK ==
  /\ mem \in [Addrs -> 0 .. nmaps]
  /\ nmaps \in 0 .. MaxMaps
  /\ cells \in [Cells -> {"free", "open", "closed"}]
  /\ live \subseteq Inputs
  /\ isClone \in [Inputs -> BOOLEAN]
  /\ isClosed \in [Inputs -> Cells \cup {NoCell}]
  /\ base \in [Inputs -> Addrs]
  /\ of \in [Inputs -> 0 .. nmaps]
  /\ stuck \subseteq 1 .. nmaps
  /\ pc \in [Threads -> {"idle"} \cup Steps]
  /\ at \in [Threads -> Inputs \cup {NoInput}]
  /\ dying \in [Threads -> BOOLEAN]

(* What fields hold before the construction and after the destruction of an
   input does not matter; Delete puts them back to this. *)
Init ==
  /\ mem = [a \in Addrs |-> 0]
  /\ nmaps = 0
  /\ cells = [c \in Cells |-> "free"]
  /\ live = {}
  /\ isClone = [i \in Inputs |-> TRUE]
  /\ isClosed = [i \in Inputs |-> NoCell]
  /\ base = [i \in Inputs |-> AnyAddr]
  /\ of = [i \in Inputs |-> 0]
  /\ stuck = {}
  /\ pc = [t \in Threads |-> "idle"]
  /\ at = [t \in Threads |-> NoInput]
  /\ dying = [t \in Threads |-> FALSE]

--------------------------------------------------------------------------------
(* Constructors. *)

(* A thread may use an input that no other thread is using. *)
MayUse(t, i) == pc[t] = "idle" /\ i \in live /\ \A u \in Threads : at[u] # i

(* Storage for a new object. *)
Construct(j, clone, cell, a, m) ==
  /\ j \in Inputs \ live
  /\ live' = live \cup {j}
  /\ isClone' = [isClone EXCEPT ![j] = clone]
  /\ isClosed' = [isClosed EXCEPT ![j] = cell]
  /\ base' = [base EXCEPT ![j] = a]
  /\ of' = [of EXCEPT ![j] = m]

(* MMapDirectory::OpenInput: mmap finds a free address, new a free cell; or it
   throws and leaves no mapping. *)
OpenInputThrows(t) == pc[t] = "idle" /\ UNCHANGED vars

OpenInput(t, j) ==
  /\ pc[t] = "idle"
  /\ nmaps < MaxMaps
  /\ nmaps' = nmaps + 1
  /\ \E a \in Addrs, c \in Cells :
       /\ mem[a] = 0
       /\ cells[c] = "free"
       /\ mem' = [mem EXCEPT ![a] = nmaps + 1]
       /\ cells' = [cells EXCEPT ![c] = "open"]
       /\ Construct(j, FALSE, c, a, nmaps + 1)
  /\ UNCHANGED <<stuck, calls>>

(* Mutant: the copy of an input that is no clone is no clone either. *)
CopyVerbatim(t, i, j) ==
  /\ MayUse(t, i)
  /\ Construct(j, isClone[i], isClosed[i], base[i], of[i])
  /\ UNCHANGED <<memory, cells, calls>>

(* The copy constructor, of an input in any state. *)
Copy(t, i, j) ==
  /\ MayUse(t, i)
  /\ Construct(j, TRUE, isClosed[i], base[i], of[i])
  /\ UNCHANGED <<memory, cells, calls>>

(* Slice: a clone without a flag, whose base lies in the same mapping. *)
Slice(t, i, j) ==
  /\ MayUse(t, i)
  /\ Construct(j, TRUE, NoCell, base[i], of[i])
  /\ UNCHANGED <<memory, cells, calls>>

(* Mutant: the new object is made like a copy. *)
MoveAsCopy(t, i, j) ==
  /\ MayUse(t, i)
  /\ j \in Inputs \ live
  /\ live' = live \cup {j}
  /\ isClone' = [isClone EXCEPT ![j] = TRUE, ![i] = TRUE]
  /\ isClosed' = [isClosed EXCEPT ![j] = isClosed[i]]
  /\ base' = [base EXCEPT ![j] = base[i]]
  /\ of' = [of EXCEPT ![j] = of[i]]
  /\ UNCHANGED <<memory, cells, calls>>

(* The move constructor: what is left behind is made a clone. *)
Move(t, i, j) ==
  /\ MayUse(t, i)
  /\ j \in Inputs \ live
  /\ live' = live \cup {j}
  /\ isClone' = [isClone EXCEPT ![j] = isClone[i], ![i] = TRUE]
  /\ isClosed' = [isClosed EXCEPT ![j] = isClosed[i]]
  /\ base' = [base EXCEPT ![j] = base[i]]
  /\ of' = [of EXCEPT ![j] = of[i]]
  /\ UNCHANGED <<memory, cells, calls>>

--------------------------------------------------------------------------------
(* Close, alone (d = FALSE) or in the destructor. *)

Close(t, i, d) ==
  /\ MayUse(t, i)
  /\ pc' = [pc EXCEPT ![t] = "test"]
  /\ at' = [at EXCEPT ![t] = i]
  /\ dying' = [dying EXCEPT ![t] = d]
  /\ UNCHANGED <<memory, cells, objects>>

(* Back to the caller, or on to the destructor's delete. *)
CloseReturns(t) ==
  /\ pc' = [pc EXCEPT ![t] = IF dying[t] THEN "delete" ELSE "idle"]
  /\ at' = [at EXCEPT ![t] = IF dying[t] THEN at[t] ELSE NoInput]

(* A clone does not look at the flag, which may be null or gone. *)
HasToUnmap(i) == ~isClone[i] /\ cells[isClosed[i]] = "open"

Test(t) ==
  /\ pc[t] = "test"
  /\ \/ /\ HasToUnmap(at[t])
        /\ pc' = [pc EXCEPT ![t] = "unmap"]
        /\ UNCHANGED at
     \/ /\ ~HasToUnmap(at[t])
        /\ CloseReturns(t)
  /\ UNCHANGED <<memory, cells, objects, dying>>

(* munmap takes what is at the address, whosever it is, or fails. *)
Unmap(t) ==
  /\ pc[t] = "unmap"
  /\ \/ /\ mem' = [mem EXCEPT ![base[at[t]]] = 0]
        /\ UNCHANGED stuck
     \/ /\ stuck' = stuck \cup {of[at[t]]}
        /\ UNCHANGED mem
  /\ pc' = [pc EXCEPT ![t] = "mark"]
  /\ UNCHANGED <<nmaps, cells, objects, at, dying>>

(* Mutant: the flag stays as it was. *)
MarkNothing(t) ==
  /\ pc[t] = "mark"
  /\ CloseReturns(t)
  /\ UNCHANGED <<memory, cells, objects, dying>>

(* After a munmap that failed as well: the flag is set before the exception is
   thrown, which the destructor swallows. *)
Mark(t) ==
  /\ pc[t] = "mark"
  /\ cells' = [cells EXCEPT ![isClosed[at[t]]] = "closed"]
  /\ CloseReturns(t)
  /\ UNCHANGED <<memory, objects, dying>>

(* The rest of the destructor. *)
Delete(t) ==
  /\ pc[t] = "delete"
  /\ cells' = IF isClone[at[t]] THEN cells
              ELSE [cells EXCEPT ![isClosed[at[t]]] = "free"]
  /\ live' = live \ {at[t]}
  /\ isClone' = [isClone EXCEPT ![at[t]] = TRUE]
  /\ isClosed' = [isClosed EXCEPT ![at[t]] = NoCell]
  /\ base' = [base EXCEPT ![at[t]] = AnyAddr]
  /\ of' = [of EXCEPT ![at[t]] = 0]
  /\ pc' = [pc EXCEPT ![t] = "idle"]
  /\ at' = [at EXCEPT ![t] = NoInput]
  /\ dying' = [dying EXCEPT ![t] = FALSE]
  /\ UNCHANGED memory

Step(t) == Test(t) \/ Unmap(t) \/ Mark(t) \/ Delete(t)

Next ==
  \E t \in Threads :
    \/ OpenInputThrows(t) \/ \E j \in Inputs : OpenInput(t, j)
    \/ \E i, j \in Inputs : Copy(t, i, j) \/ Slice(t, i, j) \/ Move(t, i, j)
    \/ \E i \in Inputs, d \in BOOLEAN : Close(t, i, d)
    \/ Step(t)

Spec == Init /\ [][Next]_vars

--------------------------------------------------------------------------------
(* Properties. *)

(* The owner of a mapping has not begun to unmap it. *)
Owns(i) == i \in live /\ ~isClone[i]
IsOpen(i) ==
  /\ Owns(i)
  /\ cells[isClosed[i]] = "open"
  /\ \A t \in Threads : at[t] = i => pc[t] # "mark"

(* A read through any input, clone of a clone and slice of a slice included,
   finds its own file under its base as long as the owner of the mapping, which
   a move may have changed, is open; destroying or closing clones and slices,
   or what a move left behind, never takes the memory from the others.  (Once
   the owner is closed a read finds nothing, or another file.) *)
ReadsFindTheirFile ==
  \A i, o \in Inputs : i \in live /\ IsOpen(o) /\ of[i] = of[o] => mem[base[i]] = of[i]

(* Every munmap hits the mapping of the input that is closed, every test of the
   flag, mark and delete a flag that is allocated and is no other owner's. *)
CallsHitTheirOwn ==
  /\ \A t \in Threads : pc[t] = "unmap" => mem[base[at[t]]] = of[at[t]]
  /\ \A i, o \in Inputs : Owns(i) =>
       /\ isClosed[i] # NoCell
       /\ cells[isClosed[i]] # "free"
       /\ Owns(o) /\ isClosed[i] = isClosed[o] => i = o

(* A mapping that is there has an owner that is still to close it, and only one
   place, unless its munmap has failed: the flag is set all the same, so nobody
   tries again and it stays for good.  A flag that is allocated has an owner that
   is still to delete it. *)
NothingLeaks ==
  /\ \A a \in Addrs : mem[a] \notin {0} \cup stuck => \E o \in Inputs : IsOpen(o) /\ of[o] = mem[a] /\ base[o] = a
  /\ \A c \in Cells : cells[c] # "free" => \E o \in Inputs : Owns(o) /\ isClosed[o] = c

(* The inductive invariant behind them: a thread in a call has its input for
   itself; owners have flags of their own and mappings of their own, and what
   shares an owner's mapping shares its base. *)
CallsInv ==
  /\ \A t \in Threads :
       /\ pc[t] = "idle" <=> at[t] = NoInput
       /\ at[t] # NoInput => at[t] \in live
       /\ pc[t] \in {"unmap", "mark"} => HasToUnmap(at[t])
       /\ pc[t] = "delete" => ~HasToUnmap(at[t])
  /\ \A t, u \in Threads : at[t] = at[u] /\ at[t] # NoInput => t = u

OwnersInv ==
  /\ \A i \in Inputs : Owns(i) =>
       /\ isClosed[i] # NoCell
       /\ cells[isClosed[i]] # "free"
       /\ of[i] # 0
       /\ IsOpen(i) => mem[base[i]] = of[i]
  /\ \A i, o \in Inputs : Owns(i) /\ Owns(o) /\ (isClosed[i] = isClosed[o] \/ of[i] = of[o])
       => i = o

BasesInv ==
  \A i, o \in Inputs : i \in live /\ Owns(o) /\ of[i] = of[o] => base[i] = base[o]

MappedInv == TypeOK /\ CallsInv /\ OwnersInv /\ BasesInv /\ NothingLeaks

================================================================================

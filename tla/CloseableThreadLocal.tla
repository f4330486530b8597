---------------------------- MODULE CloseableThreadLocal ----------------------------
(***************************************************************************)
(* Util/Concurrency.h: CloseableThreadLocal and the map, one per thread,   *)
(* in which it keeps its values under the address of the object.           *)
(*                                                                         *)
(* Each entry also holds a pointer to the flag thread_local_closed inside  *)
(* the object, which the end of the thread sets to TRUE.  An object that   *)
(* is destroyed leaves its address to the next one: an entry that was      *)
(* forgotten in a map then passes for the new object's, and the pointer in *)
(* it leads into the new object or into memory that is free.               *)
(***************************************************************************)
CONSTANTS
  Threads,
  Addrs,      (* addresses at which objects are built, again and again      *)
  Values,
  NoValue     (* EmptyThreadLocalException                                   *)

ASSUME ThreadLocalAssumption == NoValue \notin Values

VARIABLES
  running,    \* the threads that run
  reference,  \* thread -> address -> the item of the entry, or NoValue
  alive,      \* the addresses at which there is an object
  closed,     \* thread_local_closed of the object there
  (* History. *)
  users,      \* the threads that used the object at an address
  mine,       \* the values a thread set it to since it last closed it
  misused,    \* an object was shared between running threads
  stray       \* the end of a thread wrote to memory that was not its own

vars == <<running, reference, alive, closed, users, mine, misused, stray>>

TypeOK ==
  /\ running \subseteq Threads
  /\ reference \in [Threads -> [Addrs -> Values \cup {NoValue}]]
  /\ alive \subseteq Addrs
  /\ closed \in [Addrs -> BOOLEAN]
  /\ users \in [Addrs -> SUBSET Threads]
  /\ mine \in [Threads -> [Addrs -> SUBSET Values]]
  /\ misused \in BOOLEAN
  /\ stray \in BOOLEAN
  /\ \A t \in Threads \ running, a \in Addrs : reference[t][a] = NoValue

Init ==
  /\ running = {}
  /\ reference = [t \in Threads |-> [a \in Addrs |-> NoValue]]
  /\ alive = {}
  /\ closed = [a \in Addrs |-> FALSE]
  /\ users = [a \in Addrs |-> {}]
  /\ mine = [t \in Threads |-> [a \in Addrs |-> {}]]
  /\ misused = FALSE
  /\ stray = FALSE

--------------------------------------------------------------------------------
(* Every use of an object names its thread; that no other running thread uses
   it is what the comment on the class demands. *)
Use(t, a) ==
  /\ t \in running
  /\ a \in alive
  /\ users' = [users EXCEPT ![a] = @ \cup {t}]
  /\ misused' = (misused \/ users[a] \ {t} # {})

New(t, a) ==
  /\ t \in running
  /\ a \notin alive
  /\ alive' = alive \cup {a}
  /\ closed' = [closed EXCEPT ![a] = FALSE]
  /\ UNCHANGED <<running, reference, users, mine, misused, stray>>

(* Mutant: the entry is made in the map of whichever thread. *)
InsertAnywhere(t, a, v) ==
  \E u \in running :
    reference' = [reference EXCEPT ![u][a] = IF @ = NoValue THEN v ELSE @]

(* insert leaves an entry that is there alone. *)
Insert(t, a, v) ==
  reference' = [reference EXCEPT ![t][a] = IF @ = NoValue THEN v ELSE @]

Set(t, a, v) ==
  /\ ~closed[a]          \* else ThreadLocalVariableDestructedAlready is thrown
  /\ Use(t, a)
  /\ Insert(t, a, v)
  /\ mine' = [mine EXCEPT ![t][a] = @ \cup {v}]
  /\ UNCHANGED <<running, alive, closed, stray>>

(* What Get makes of the object's flag and the thread's map: no item when it
   throws one exception or the other.  Get has no return statement: that the item
   it finds is what its caller is given is so in the build the project has, which
   does not optimise, and undefined in others. *)
Lookup(t, a) == IF closed[a] THEN NoValue ELSE reference[t][a]

Get(t, a) ==
  /\ Use(t, a)
  /\ UNCHANGED <<running, reference, alive, closed, mine, stray>>

(* Mutant: Close leaves the entry in the map. *)
EraseNothing(t, a) == UNCHANGED reference

Erase(t, a) ==
  reference' = [reference EXCEPT ![t][a] = IF closed[a] THEN @ ELSE NoValue]

Close(t, a) ==
  /\ Use(t, a)
  /\ Erase(t, a)
  /\ mine' = [mine EXCEPT ![t][a] = {}]
  /\ UNCHANGED <<running, alive, closed, stray>>

(* The destructor closes, in the thread that runs it. *)
Destroy(t, a) ==
  /\ t \in running
  /\ a \in alive
  /\ Erase(t, a)
  /\ alive' = alive \ {a}
  /\ users' = [users EXCEPT ![a] = {}]
  /\ misused' = (misused \/ users[a] \ {t} # {})
  /\ mine' = [u \in Threads |-> [mine[u] EXCEPT ![a] = {}]]
  /\ UNCHANGED <<running, closed, stray>>

--------------------------------------------------------------------------------

Start(t) ==
  /\ t \notin running
  /\ running' = running \cup {t}
  /\ UNCHANGED <<reference, alive, closed, users, mine, misused, stray>>

(* The destructor of the thread's map sets the flag of every entry, whatever
   has become of the memory it points to. *)
Exit(t) ==
  LET entries == {a \in Addrs : reference[t][a] # NoValue} IN
  /\ t \in running
  /\ running' = running \ {t}
  /\ closed' = [a \in Addrs |-> closed[a] \/ a \in entries]
  /\ stray' = (stray \/ \E a \in entries : a \notin alive \/ mine[t][a] = {})
  /\ reference' = [reference EXCEPT ![t] = [a \in Addrs |-> NoValue]]
  /\ users' = [a \in Addrs |-> users[a] \ {t}]
  /\ mine' = [mine EXCEPT ![t] = [a \in Addrs |-> {}]]
  /\ UNCHANGED <<alive, misused>>

Next ==
  \E t \in Threads :
    \/ Start(t)
    \/ Exit(t)
    \/ \E a \in Addrs :
         \/ New(t, a)
         \/ \E v \in Values : Set(t, a, v)
         \/ Get(t, a)
         \/ Close(t, a)
         \/ Destroy(t, a)

Spec == Init /\ [][Next]_vars

--------------------------------------------------------------------------------
(* As long as no object is shared between running threads, Get gives a thread
   a value it has set itself on this very object, and throws when it has set
   none since the last Close: whatever was built, closed and destroyed at the
   address before, in whichever thread, and whichever threads have ended. *)
GetIsMine ==
  ~misused =>
    \A t \in running, a \in alive :
      IF mine[t][a] = {} THEN Lookup(t, a) = NoValue
                         ELSE Lookup(t, a) \in mine[t][a]

(* And no thread ends with an entry whose object is gone, so that its end
   writes to nobody else's memory. *)
NoStrayWrite == ~misused => ~stray

(* The inductive invariant behind both: an object has one user at most, who
   alone has an entry for it, and has one as long as it has set a value. *)
ConfinedAt(a) ==
  /\ users[a] \subseteq running
  /\ \A t, u \in users[a] : t = u
  /\ \A t \in Threads :
       /\ mine[t][a] # {} => a \in alive /\ t \in users[a] /\ ~closed[a]
       /\ mine[t][a] # {} => reference[t][a] \in mine[t][a]
       /\ mine[t][a] = {} => reference[t][a] = NoValue

Confined == \A a \in Addrs : ConfinedAt(a)

LocalInv ==
  /\ TypeOK
  /\ ~misused => Confined /\ ~stray

(* The tests of the reuse strategies, which share one between threads: what a
   thread keeps there "should be invisible at different thread". *)
ThreadsInvisible ==
  \A t \in running, a \in alive :
    mine[t][a] # {} => Lookup(t, a) \in mine[t][a]

(* Unless an object is shared, what Get gives a thread changes by that thread's
   own calls and end only, or with the object: a new object at an old address
   begins without values, and the end of another thread is not to be seen. *)
Private == INSTANCE PrivateValues WITH
  value <- [t \in Threads |-> [a \in Addrs |->
              IF t \in running /\ a \in alive THEN Lookup(t, a) ELSE NoValue]],
  broken <- misused
ImplementsPrivateValues == Private!Spec

================================================================================

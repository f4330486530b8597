------------------------------- MODULE AttributeSource -------------------------------
(***************************************************************************)
(* Util/Attribute.cpp: AttributeSource, with the TokenFilter of            *)
(* Analysis/TokenStream.h on top of it.  Stream 1 is a tokenizer, stream   *)
(* s + 1 a filter over stream s; each is an AttributeSource of its own.    *)
(*                                                                         *)
(* A source maps types of attributes to instances, which sources share     *)
(* through shared_ptr.  The list of its instances that CaptureState,       *)
(* ClearAttributes and EndAttributes walk is computed when first needed    *)
(* and kept behind state_holder, a pointer that ShallowCopyTo shares as    *)
(* well: one list then serves sources whose maps are not the same.         *)
(*                                                                         *)
(* The values of attributes are left out, and RestoreState with them; so   *)
(* is that one instance may serve several types.                           *)
(***************************************************************************)
EXTENDS Naturals

CONSTANTS
  Types,      (* types of attributes                                        *)
  Depth,      (* how many streams the chain has at most                     *)
  MaxImpls    (* bounds how many instances are ever made                    *)

ASSUME SourceAssumption == Depth \in Nat /\ MaxImpls \in Nat

None == 0     \* no instance of a type
Streams == 1 .. Depth
NoState == {} \* the list is not computed: a list is never empty

VARIABLES
  built,      \* streams 1 .. built exist
  impls,      \* attributes and attribute_impls: stream -> type -> instance
  holder,     \* state_holder: the stream whose cell it points to
  state,      \* the list behind each cell, as the set of its instances
  nimpls,     \* instances made so far: they are numbered 1, 2, ...
  orderly     \* history: attributes came from the constructors only, bottom up

vars == <<built, impls, holder, state, nimpls, orderly>>

TypeOK ==
  /\ built \in 0 .. Depth
  /\ impls \in [Streams -> [Types -> 0 .. nimpls]]
  /\ holder \in [Streams -> Streams]
  /\ state \in [Streams -> SUBSET (1 .. nimpls)]
  /\ nimpls \in 0 .. MaxImpls
  /\ orderly \in BOOLEAN
  /\ \A s \in Streams : s > built => impls[s] = [a \in Types |-> None]

Init ==
  /\ built = 0
  /\ impls = [s \in Streams |-> [a \in Types |-> None]]
  /\ holder = [s \in Streams |-> s]
  /\ state = [s \in Streams |-> NoState]
  /\ nimpls = 0
  /\ orderly = TRUE

Instances(s) == {impls[s][a] : a \in Types} \ {None}

--------------------------------------------------------------------------------

NewTokenizer ==
  /\ built = 0
  /\ built' = 1
  /\ Depth > 0
  /\ UNCHANGED <<impls, holder, state, nimpls, orderly>>

(* The base-class initialiser of TokenFilter, given the input, is TokenStream's
   implicit copy constructor, not the one that takes an AttributeSource: it
   clones each attribute, and the filter starts with a cell of its own. *)
NewFilter ==
  LET cloned == {a \in Types : impls[built][a] # None} IN
  /\ built \in 1 .. Depth - 1
  /\ built' = built + 1
  /\ \E clone \in [Types -> 0 .. MaxImpls] :
       /\ \A a \in Types :
            IF a \in cloned THEN clone[a] > nimpls ELSE clone[a] = None
       /\ \A a, b \in cloned : clone[a] = clone[b] => a = b
       /\ nimpls' \in nimpls .. MaxImpls
       /\ {clone[a] : a \in cloned} = nimpls + 1 .. nimpls'
       /\ impls' = [impls EXCEPT ![built + 1] = clone]
  /\ UNCHANGED <<holder, state, orderly>>

(* What the map of s becomes when a is asked of it. *)
Provided(s, a) == [impls[s] EXCEPT ![a] = IF @ = None THEN nimpls + 1 ELSE @]

(* Mutant: the list is not invalidated. *)
ProvideKeeping(s, a) ==
  /\ impls[s][a] = None => nimpls < MaxImpls
  /\ nimpls' = IF impls[s][a] = None THEN nimpls + 1 ELSE nimpls
  /\ UNCHANGED state

(* The rest of it: a new instance invalidates the list of s. *)
Provide(s, a) ==
  \/ /\ impls[s][a] = None
     /\ nimpls < MaxImpls
     /\ nimpls' = nimpls + 1
     /\ state' = [state EXCEPT ![holder[s]] = NoState]
  \/ /\ impls[s][a] # None
     /\ UNCHANGED <<nimpls, state>>

(* AttributeSource::AddAttribute: a tokenizer for itself, or a consumer of a
   stream who does not know what kind of stream it is. *)
AddAttribute(s, a) ==
  /\ s \in 1 .. built
  /\ Provide(s, a)
  /\ impls' = [impls EXCEPT ![s] = Provided(s, a)]
  /\ orderly' = (orderly /\ (impls[s][a] # None \/ built = 1))
  /\ UNCHANGED <<built, holder>>

(* Mutant: the maps are copied, the pointer to the list is not. *)
ShareMapsOnly(s, a) ==
  /\ s \in 2 .. built
  /\ Provide(s - 1, a)
  /\ impls' = [impls EXCEPT ![s - 1] = Provided(s - 1, a), ![s] = Provided(s - 1, a)]
  /\ orderly' = (orderly /\ s = built)
  /\ UNCHANGED <<built, holder>>

(* Mutant: what the input has is copied before the attribute is added to it. *)
ShareFirst(s, a) ==
  /\ s \in 2 .. built
  /\ Provide(s - 1, a)
  /\ impls' = [impls EXCEPT ![s - 1] = Provided(s - 1, a), ![s] = impls[s - 1]]
  /\ holder' = [holder EXCEPT ![s] = holder[s - 1]]
  /\ orderly' = (orderly /\ s = built)
  /\ UNCHANGED built

(* TokenFilter::AddAttribute: the attribute is added to the input, the stream
   right below, and then everything the input has is copied. *)
FilterAddAttribute(s, a) ==
  /\ s \in 2 .. built
  /\ Provide(s - 1, a)
  /\ impls' = [impls EXCEPT ![s - 1] = Provided(s - 1, a), ![s] = Provided(s - 1, a)]
  /\ holder' = [holder EXCEPT ![s] = holder[s - 1]]
  /\ orderly' = (orderly /\ s = built)
  /\ UNCHANGED built

(* GetCurrentState, under ClearAttributes, EndAttributes, CaptureState and
   ReflectWith: a list that is there is taken as it is. *)
GetCurrentState(s) ==
  /\ s \in 1 .. built
  /\ state[holder[s]] = NoState
  /\ state' = [state EXCEPT ![holder[s]] = Instances(s)]
  /\ UNCHANGED <<built, impls, holder, nimpls, orderly>>

RemoveAllAttributes(s) ==
  /\ s \in 1 .. built
  /\ impls' = [impls EXCEPT ![s] = [a \in Types |-> None]]
  /\ orderly' = FALSE
  /\ UNCHANGED <<built, holder, state, nimpls>>

Next ==
  \/ NewTokenizer
  \/ NewFilter
  \/ \E s \in Streams :
       \/ \E a \in Types : AddAttribute(s, a) \/ FilterAddAttribute(s, a)
       \/ GetCurrentState(s)
       \/ RemoveAllAttributes(s)

Spec == Init /\ [][Next]_vars

--------------------------------------------------------------------------------

(* What CaptureState of s clones now. *)
Current(s) == IF state[holder[s]] = NoState THEN Instances(s) ELSE state[holder[s]]

(* An instance lives as long as the map of some stream names it. *)
Living == UNION { Instances(s) : s \in 1 .. built }

(* s shares the list of the tokenizer: each filter from the tokenizer up to s
   added an attribute when it was built. *)
Joined(s) == holder[s] = holder[1]

(* As long as attributes come from the constructors, what the tokenizer writes
   is what every filter reads, up to the first one that added no attribute when
   it was built: from there on the streams have clones. *)
TokenizerIsShared ==
  orderly =>
    \A s \in 1 .. built, a \in Types :
      Joined(s) /\ impls[1][a] # None => impls[s][a] = impls[1][a]

(* And no list names an attribute that is gone: the list holds plain pointers,
   which ClearAttributes, EndAttributes and CaptureState follow. *)
ListsAreLiving ==
  orderly => \A s \in 1 .. built : Current(s) \subseteq Living

(* And ClearAttributes of the tokenizer, before each token, reaches all of its
   attributes, whichever stream computed the list. *)
TokenizerClearsAll == orderly /\ built > 0 => Instances(1) \subseteq Current(1)

(* The test of RemoveAllAttributes: CaptureState returns nullptr afterwards. *)
RemovedIsEmpty == \A s \in 1 .. built : Instances(s) = {} => Current(s) = {}

===============================================================================

------------------------------ MODULE ObjectStore ------------------------------
(***************************************************************************)
(* What MoveOS promises a Move program about objects, with none of its     *)
(* machinery: a transaction works on a private copy of the objects, a      *)
(* commit publishes the copy in one step, an abort forgets it.  No object  *)
(* is ever removed from under its fields: it has none, or they go with it. *)
(* An object whose handle was neither given back nor removed is stored as  *)
(* owned by the system.                                                    *)
(* ObjectRuntime is shown to implement this module: its "draft" is not a   *)
(* variable there but what the cache of loaded objects and the state tree  *)
(* amount to together.                                                     *)
(***************************************************************************)
CONSTANTS IDs, Values, Owners, Flags, SystemOwner, ParentOf(_)

VARIABLES committed,  \* the published objects: id -> [value, owner, flag]
          draft,      \* the objects as the open transaction sees them
          home        \* the objects whose handle is in the store, not with the program

varsObjects == <<committed, draft, home>>

\* The handle of a published object is out of reach when the object belongs to
\* the system and is neither shared nor frozen: it lies in another object.
Reachable(objects) ==
  {id \in DOMAIN objects : objects[id].owner # SystemOwner \/ objects[id].flag # {}}

Children(objects, id) == {c \in DOMAIN objects : ParentOf(c) = id}

InitObjects ==
  /\ committed = << >>
  /\ draft = committed
  /\ home = {}

Create(id, value) ==
  /\ id \notin DOMAIN draft
  /\ draft' = [i \in DOMAIN draft \cup {id} |->
                 IF i = id THEN [value |-> value, owner |-> SystemOwner, flag |-> {}]
                           ELSE draft[i]]
  /\ UNCHANGED <<committed, home>>

Write(id, value) ==
  /\ id \in DOMAIN draft
  /\ draft' = [draft EXCEPT ![id].value = value]
  /\ UNCHANGED <<committed, home>>

Delete(id) ==
  /\ id \in DOMAIN draft \ home
  /\ Children(draft, id) = {}
  /\ draft' = [i \in DOMAIN draft \ {id} |-> draft[i]]
  /\ UNCHANGED <<committed, home>>

Drop(id) ==
  /\ id \in DOMAIN draft \ home
  /\ Children(draft, id) \cap home = {}
  /\ draft' = [i \in DOMAIN draft \ ({id} \cup Children(draft, id)) |-> draft[i]]
  /\ UNCHANGED <<committed, home>>

Take(id) ==
  /\ id \in home
  /\ home' = home \ {id}
  /\ UNCHANGED <<committed, draft>>

GiveBack(id, owner, flag) ==
  /\ id \in DOMAIN draft \ home
  /\ draft' = [draft EXCEPT ![id].owner = owner, ![id].flag = flag]
  /\ home' = home \cup {id}
  /\ UNCHANGED committed

Settled == [id \in DOMAIN draft |->
              IF id \in home THEN draft[id] ELSE [draft[id] EXCEPT !.owner = SystemOwner]]

Publish ==
  /\ committed' = Settled
  /\ draft' = committed'
  /\ home' = Reachable(committed')

Forget ==
  /\ draft' = committed
  /\ home' = Reachable(committed)
  /\ UNCHANGED committed

NextObjects ==
  \/ \E id \in IDs, value \in Values : Create(id, value) \/ Write(id, value)
  \/ \E id \in IDs : Delete(id) \/ Drop(id) \/ Take(id)
  \/ \E id \in IDs, owner \in Owners, flag \in SUBSET Flags : GiveBack(id, owner, flag)
  \/ Publish
  \/ Forget

SpecObjects == InitObjects /\ [][NextObjects]_varsObjects
================================================================================

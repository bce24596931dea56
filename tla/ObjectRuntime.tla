----------------------------- MODULE ObjectRuntime -----------------------------
(***************************************************************************)
(* The object runtime of MoveOS: the cache of RuntimeObjects a transaction *)
(* loads from the state tree, the operations of moveos_std::object and its *)
(* native functions on them, the arguments of an entry function, and the   *)
(* change set a commit derives from the cache and applies to the tree.     *)
(*                                                                         *)
(* An object is named by its path: the root object is <<>>, <<k>> lies in  *)
(* the root, <<k, f>> is a dynamic field or a child object of <<k>>.  A    *)
(* value is a plain one or an Object<T> handle (the id of its object):     *)
(* Move values are linear, so a program can move a handle into another     *)
(* object and cannot copy or drop it.  Types, layouts, gas and time stamps *)
(* are left out: a program that misuses a type aborts.                     *)
(***************************************************************************)
EXTENDS Integers, Sequences, FiniteSets, TLC

CONSTANTS
  Keys,          \* keys of top-level objects
  FieldNames,    \* keys of dynamic fields
  ChildNames,    \* keys of child objects
  Plain,         \* values without a handle
  Users,         \* account addresses
  SystemOwner,   \* SYSTEM_OWNER_ADDRESS
  Nothing,       \* no value
  MaxTx,         \* bound: transactions of a behaviour
  MaxOps,        \* bound: operations of a transaction
  RemovesAgain,  \* whether programs remove what they removed and created again
  TakesAgain,    \* whether programs give away a handle they obtained, and take it again
  EmbedsShared   \* whether programs move the handle of a shared object into a value

VARIABLES
  store,   \* the state tree: id -> [value, owner, flag, size], and <<>> for the root
  rt,      \* the cache: id -> RuntimeObject, for the loaded ids
  hand,    \* Object<T> values the program holds: id -> how many
  refs,    \* references to pointers: id -> "none", "ref", "mut", "arg", "argmut"
  phase,   \* "idle", "args" (resolving arguments), "run"
  sender,  \* the transaction's sender
  txs, ops \* counters behind MaxTx and MaxOps

vars == <<store, rt, hand, refs, phase, sender, txs, ops>>

Root == <<>>
Named == {<<k>> : k \in Keys} \cup {<<k, c>> : k \in Keys, c \in ChildNames}
Fields == {<<k, f>> : k \in Keys, f \in FieldNames}
IDs == Named \cup Fields
Parent(id) == SubSeq(id, 1, Len(id) - 1)
Values == Plain \cup Named
Flags == {"shared", "frozen"}

ASSUME ObjectAssumption ==
  /\ SystemOwner \notin Users
  /\ Plain \cap Named = {} /\ Nothing \notin Values /\ FieldNames \cap ChildNames = {}
  /\ MaxTx \in Nat /\ MaxOps \in Nat
  /\ {RemovesAgain, TakesAgain, EmbedsShared} \subseteq BOOLEAN

--------------------------------------------------------------------------------
(* GlobalValue of the Move VM: a slot of global storage.                   *)

None == [st |-> "None", v |-> Nothing]
CachedValue(v) == [st |-> "Clean", v |-> v]
Exists(g) == g.st \in {"Fresh", "Clean", "Dirty"}
MoveTo(g, v) == [st |-> IF g.st = "None" THEN "Fresh" ELSE "Dirty", v |-> v]
MoveFrom(g) == [st |-> IF g.st = "Fresh" THEN "None" ELSE "Deleted", v |-> Nothing]
WriteRef(g, v) == [st |-> IF g.st = "Fresh" THEN "Fresh" ELSE "Dirty", v |-> v]
Effect(g) == CASE g.st = "Fresh" -> "New" [] g.st = "Dirty" -> "Modify"
               [] g.st = "Deleted" -> "Delete" [] OTHER -> "None"

--------------------------------------------------------------------------------
(* RuntimeObject and its metadata.                                         *)

is_embeded(o) == o.owner = SystemOwner /\ o.flag = {}

\* Mutant: every loaded object has a pointer.
CachedObject_AlwaysPointer(id) ==
  [meta |-> "Cached", dirty |-> FALSE, owner |-> store[id].owner, flag |-> store[id].flag,
   size |-> store[id].size, value |-> CachedValue(store[id].value),
   pointer |-> CachedValue(TRUE)]

\* RuntimeObject::load: an embedded object has no pointer anyone could borrow.
CachedObject(id) ==
  [meta |-> "Cached", dirty |-> FALSE, owner |-> store[id].owner, flag |-> store[id].flag,
   size |-> store[id].size, value |-> CachedValue(store[id].value),
   pointer |-> IF is_embeded(store[id]) THEN None ELSE CachedValue(TRUE)]

NoneObject ==
  [meta |-> "None", dirty |-> FALSE, owner |-> SystemOwner, flag |-> {}, size |-> 0,
   value |-> None, pointer |-> None]

\* What the tree below the parent's state root holds: a Fresh parent has none.
get_field_at(cache, id) ==
  IF cache[Parent(id)].meta # "Fresh" /\ id \in DOMAIN store THEN CachedObject(id) ELSE NoneObject

load_field(cache, id) ==
  IF id \in DOMAIN cache THEN cache
  ELSE [k \in DOMAIN cache \cup {id} |-> IF k = id THEN get_field_at(cache, id) ELSE cache[k]]

\* The cache after load_object(id): the parent is loaded first.
load_object(id) ==
  load_field(IF Parent(id) \in DOMAIN rt THEN rt ELSE load_field(rt, Parent(id)), id)

\* load_field asks its parent for a state root: an error when there is none.
Loadable(cache, id) == cache[Parent(id)].meta # "None"

IsLive(o) == o.meta \in {"Fresh", "Cached"}

\* RuntimeObjectMeta::init: a removed object that is created again is fresh.
init_meta(o) ==
  IF IsLive(o) THEN o
  ELSE [o EXCEPT !.meta = "Fresh", !.dirty = TRUE, !.owner = SystemOwner, !.flag = {}, !.size = 0]

\* Mutant: the metadata of a removed object is forgotten, loaded or not.
drop_meta_Forgotten(o) == [o EXCEPT !.meta = "None"]

\* RuntimeObjectMeta::move_from
drop_meta(o) == [o EXCEPT !.meta = IF o.meta = "Fresh" THEN "None" ELSE "Deleted"]

\* RuntimeObject::move_to followed by take_object: the pointer goes to the caller.
move_to(o, v) ==
  LET inited == [init_meta(o) EXCEPT !.pointer = MoveTo(o.pointer, TRUE)]
  IN [inited EXCEPT !.value = MoveTo(o.value, v), !.pointer = MoveFrom(inited.pointer)]

\* RuntimeObject::move_from
move_from(o) == [drop_meta(o) EXCEPT !.value = MoveFrom(o.value)]

\* increase_size and decrease_size of the parent
Resize(cache, id, by) ==
  [cache EXCEPT ![Parent(id)].size = @ + by, ![Parent(id)].dirty = TRUE]

Borrowed(id) == refs[id] # "none"

\* take_object and borrow_object: the pointer is at home and nobody borrows it.
PointerFree(cache, id) == Exists(cache[id].pointer) /\ ~Borrowed(id)

\* return_pointer, then the owner and flag of transfer, to_shared or to_frozen
return_pointer(o, owner, flag) ==
  [o EXCEPT !.pointer = MoveTo(o.pointer, TRUE), !.owner = owner, !.flag = flag,
            !.dirty = TRUE]

--------------------------------------------------------------------------------
(* The change set and its application to the state tree.                   *)

\* A pointer that left the cache without its object: the object is embedded.
Embeds(o) == Effect(o.pointer) = "Delete" /\ Effect(o.value) # "Delete"

FieldChanges(id) == {c \in DOMAIN rt \ {Root} : Parent(c) = id}

\* RuntimeObject::into_change returns a change.  An object without metadata has
\* none, whatever happened to its value.
HasOwnChange(id) ==
  /\ rt[id].meta # "None"
  /\ rt[id].dirty \/ rt[id].meta # "Cached" \/ Effect(rt[id].value) # "None" \/ Embeds(rt[id])

HasChange(id) ==
  \/ HasOwnChange(id)
  \/ rt[id].meta # "None" /\ \E c \in FieldChanges(id) : HasOwnChange(c)

\* apply_object_change: what the tree holds at id afterwards.
Applied(id) ==
  [value |-> IF Effect(rt[id].value) = "None" THEN store[id].value ELSE rt[id].value.v,
   owner |-> IF Embeds(rt[id]) THEN SystemOwner ELSE rt[id].owner,
   flag |-> rt[id].flag, size |-> rt[id].size]

\* Ids a change deletes, and those whose tree no longer hangs below the root.  A deleted
\* object takes what is below it along, and one without metadata drops the changes of its fields.
Deleted == {id \in DOMAIN rt \ {Root} : HasChange(id) /\ Effect(rt[id].value) = "Delete"}
Cut == {id \in IDs : \/ id \in Deleted \/ Parent(id) \in Deleted
                     \/ Parent(id) \in DOMAIN rt /\ rt[Parent(id)].meta = "Fresh"}

\* Mutant: the changes of fields are applied below an object without metadata.
Written_Orphans == {id \in DOMAIN rt : HasChange(id) /\ {id, Parent(id)} \cap Deleted = {}}

Written == {id \in DOMAIN rt : /\ HasChange(id) /\ {id, Parent(id)} \cap Deleted = {}
                               /\ rt[Parent(id)].meta # "None"}

apply_change_set ==
  [id \in (DOMAIN store \ Cut) \cup Written |-> IF id \in Written THEN Applied(id) ELSE store[id]]

--------------------------------------------------------------------------------
(* Transactions.                                                           *)

InTx == phase = "run" /\ ops < MaxOps
Step == ops' = ops + 1 /\ UNCHANGED <<store, phase, sender, txs>>

\* The program has a mutable Object<T>: by value or by reference.
HasMut(id) == id \in Named => hand[id] > 0 \/ refs[id] \in {"mut", "argmut"}

\* Value and metadata of an object as the transaction sees it: from the cache,
\* or else from the tree.
Seen(id) ==
  IF id \in DOMAIN rt
  THEN [value |-> rt[id].value.v, owner |-> rt[id].owner, flag |-> rt[id].flag]
  ELSE [value |-> store[id].value, owner |-> store[id].owner, flag |-> store[id].flag]

\* An object exists in the cache, or else in the tree below its parent's state root, and never
\* below a parent that was removed.
InTree(id) ==
  /\ id \in DOMAIN store
  /\ Parent(id) \in DOMAIN rt => rt[Parent(id)].meta \notin {"Fresh", "None", "Deleted"}

Live(id) ==
  IF id \in DOMAIN rt THEN Exists(rt[id].value) /\ IsLive(rt[Parent(id)]) ELSE InTree(id)
LiveIDs == {id \in IDs : Live(id)}

Gain(h, v, n) == IF v \in Named THEN [h EXCEPT ![v] = @ + n] ELSE h

NewRuntime ==
  [id \in {Root} |->
     [meta |-> "Cached", dirty |-> FALSE, owner |-> "moveos_std", flag |-> {"shared"},
      size |-> store[Root].size, value |-> CachedValue(Nothing), pointer |-> CachedValue(TRUE)]]

InitRuntime ==
  /\ store = [id \in {Root} |->
                [value |-> Nothing, owner |-> "moveos_std", flag |-> {"shared"}, size |-> 0]]
  /\ rt = << >>
  /\ hand = [id \in Named |-> 0]
  /\ refs = [id \in Named |-> "none"]
  /\ phase = "idle" /\ sender \in Users /\ txs = 0 /\ ops = 0

BeginTx ==
  /\ phase = "idle" /\ txs < MaxTx
  /\ \E u \in Users : sender' = u
  /\ phase' = "args" /\ txs' = txs + 1 /\ ops' = 0
  /\ rt' = NewRuntime
  /\ UNCHANGED <<store, hand, refs>>

\* resolve_argument and load_arguments: the checks read the state tree.
LoadArgument(id, kind) ==
  /\ phase = "args" /\ id \in DOMAIN store
  /\ kind # "arg" => "frozen" \notin store[id].flag
  /\ kind = "argmut" => "shared" \in store[id].flag \/ store[id].owner = sender
  /\ kind = "value" => store[id].owner = sender
  /\ PointerFree(load_object(id), id)
  /\ IF kind = "value"
     THEN /\ rt' = [load_object(id) EXCEPT ![id].pointer = MoveFrom(@)]
          /\ hand' = [hand EXCEPT ![id] = @ + 1]
          /\ UNCHANGED refs
     ELSE /\ rt' = load_object(id)
          /\ refs' = [refs EXCEPT ![id] = kind]
          /\ UNCHANGED hand
  /\ UNCHANGED <<store, phase, sender, txs, ops>>

Execute == phase = "args" /\ phase' = "run" /\ UNCHANGED <<store, rt, hand, refs, sender, txs, ops>>

\* exists_object, contains_field, borrow, the metadata queries: they only load.
Read(id) ==
  /\ InTx /\ Loadable(load_object(Parent(id)), id)
  /\ rt' = load_object(id)
  /\ Step /\ UNCHANGED <<hand, refs>>

\* new, new_with_id, new_named_object, new_with_parent: add_field of the parent.
\* A handle moved into the value leaves the program's hand.  move_to fails when
\* the value or the pointer is there.
CanAdd(id, v) ==
  /\ InTx /\ HasMut(Parent(id))
  /\ v \in Named => /\ hand[v] > 0 /\ v # id /\ v # Parent(id)
                    /\ EmbedsShared \/ "shared" \notin Seen(v).flag
  /\ Loadable(load_object(Parent(id)), id)
  /\ ~Exists(load_object(id)[id].value) /\ ~Exists(load_object(id)[id].pointer)

\* A container that was dropped with its fields (DropContainer, which leaves the size) had an id
\* of fresh_id, which no program gets again.
New(id, v) ==
  /\ CanAdd(id, v) /\ id \in Named
  /\ load_object(id)[id].size = 0
  /\ rt' = Resize([load_object(id) EXCEPT ![id] = move_to(@, v)], id, 1)
  /\ hand' = Gain([hand EXCEPT ![id] = @ + 1], v, -1)
  /\ Step /\ UNCHANGED refs

\* Mutant: the parent's size is not increased.
AddField_NoSize(id, v) ==
  /\ CanAdd(id, v) /\ id \in Fields
  /\ rt' = [load_object(id) EXCEPT ![id] = move_to(@, v)]
  /\ hand' = Gain(hand, v, -1)
  /\ Step /\ UNCHANGED refs

\* add_field: the returned Object is unpacked and dropped.
AddField(id, v) ==
  /\ CanAdd(id, v) /\ id \in Fields
  /\ rt' = Resize([load_object(id) EXCEPT ![id] = move_to(@, v)], id, 1)
  /\ hand' = Gain(hand, v, -1)
  /\ Step /\ UNCHANGED refs

\* Mutant: a missing field is removed, and the size is not checked.
CanRemove_Unchecked(id) == InTx /\ Loadable(load_object(Parent(id)), id)

CanRemove(id) ==
  /\ InTx /\ Loadable(load_object(Parent(id)), id)
  /\ LET o == load_object(id)[id]
     IN /\ IsLive(o) /\ Exists(o.value)
        /\ load_object(id)[Parent(id)].size > 0
        /\ RemovesAgain \/ ~(o.meta = "Fresh" /\ o.value.st = "Dirty")

RemoveField(id) ==
  /\ id \in Fields /\ HasMut(Parent(id)) /\ CanRemove(id)
  /\ rt' = Resize([load_object(id) EXCEPT ![id] = move_from(@)], id, -1)
  /\ hand' = Gain(hand, load_object(id)[id].value.v, 1)
  /\ Step /\ UNCHANGED refs

\* object::remove: the caller owns the handle, and no field may be left.
Remove(id) ==
  /\ id \in Named /\ hand[id] > 0 /\ CanRemove(id)
  /\ load_object(id)[id].size = 0
  /\ rt' = Resize([load_object(id) EXCEPT ![id] = move_from(@)], id, -1)
  /\ hand' = Gain([hand EXCEPT ![id] = @ - 1], load_object(id)[id].value.v, 1)
  /\ Step /\ UNCHANGED refs

\* Mutant: a container with values that cannot be dropped is dropped.
MayDrop_AnyValues(id) == \A c \in LiveIDs : Parent(c) = id => c \in Fields

\* Only a Table, LinkedTable or Bag is dropped with its fields.  Their handles are private, so
\* they have no child objects, and the values in them have the ability drop, as has their own:
\* none holds a handle.
MayDrop(id) ==
  /\ Seen(id).value \in Plain
  /\ \A c \in LiveIDs : Parent(c) = id => c \in Fields /\ Seen(c).value \in Plain

\* object::remove_unchecked, by drop of table, linked_table and bag: the fields are not looked
\* at.  They stay in the cache and in the tree below the removed object.
DropContainer(id) ==
  /\ id \in Named /\ hand[id] > 0 /\ CanRemove(id) /\ MayDrop(id)
  /\ rt' = Resize([load_object(id) EXCEPT ![id] = move_from(@)], id, -1)
  /\ hand' = [hand EXCEPT ![id] = @ - 1]
  /\ Step /\ UNCHANGED refs

\* A write through &mut T; a value that holds a handle cannot be overwritten.
WriteValue(id, v) ==
  /\ InTx /\ (IF id \in Named THEN HasMut(id) ELSE HasMut(Parent(id)))
  /\ Loadable(load_object(Parent(id)), id)
  /\ LET o == load_object(id)[id]
     IN Exists(o.value) /\ o.value.v \in Plain /\ v \in Plain
  /\ rt' = [load_object(id) EXCEPT ![id].value = WriteRef(@, v)]
  /\ Step /\ UNCHANGED <<hand, refs>>

\* borrow_object, and the three ways to a mutable reference.
CanBorrow(id, kind) ==
  LET o == load_object(id)[id]
  IN /\ Exists(o.value) /\ PointerFree(load_object(id), id)
     /\ \/ kind = "ref"
        \/ kind = "mut" /\ o.owner = sender
        \/ kind = "mut" /\ "frozen" \notin o.flag
        \/ kind = "mut" /\ "shared" \in o.flag

BorrowObject(id, kind) ==
  /\ InTx /\ Loadable(load_object(Parent(id)), id) /\ CanBorrow(id, kind)
  /\ rt' = load_object(id)
  /\ refs' = [refs EXCEPT ![id] = kind]
  /\ Step /\ UNCHANGED hand

DropReference(id) ==
  /\ phase = "run" /\ refs[id] \in {"ref", "mut"}
  /\ refs' = [refs EXCEPT ![id] = "none"]
  /\ UNCHANGED <<store, rt, hand, phase, sender, txs, ops>>

\* Mutant: take_object_extend does not look at the frozen flag.
CanTake_Frozen(o) == TRUE

\* take_object by the owner, take_object_extend by the module of T.
CanTake(o) == o.owner = sender \/ "frozen" \notin o.flag

TakeObject(id) ==
  /\ InTx /\ Loadable(load_object(Parent(id)), id)
  /\ LET o == load_object(id)[id]
     IN IsLive(o) /\ CanTake(o) /\ (TakesAgain \/ o.pointer.st # "Fresh")
  /\ PointerFree(load_object(id), id)
  /\ rt' = [load_object(id) EXCEPT ![id].pointer = MoveFrom(@)]
  /\ hand' = [hand EXCEPT ![id] = @ + 1]
  /\ Step /\ UNCHANGED refs

ReturnPointer(id, owner, flag) ==
  /\ InTx /\ hand[id] > 0 /\ Loadable(load_object(Parent(id)), id)
  /\ LET o == load_object(id)[id]
     IN /\ IsLive(o) /\ ~Exists(o.pointer)
        /\ rt' = [load_object(id) EXCEPT ![id] = return_pointer(o, owner, o.flag \cup flag)]
  /\ hand' = [hand EXCEPT ![id] = @ - 1]
  /\ Step /\ UNCHANGED refs

Transfer(id, u) == ReturnPointer(id, u, {})
ToShared(id) == ReturnPointer(id, SystemOwner, {"shared"})
ToFrozen(id) == ReturnPointer(id, SystemOwner, {"frozen"})

EndTx ==
  /\ rt' = << >>
  /\ hand' = [id \in Named |-> 0]
  /\ refs' = [id \in Named |-> "none"]
  /\ phase' = "idle" /\ ops' = 0
  /\ UNCHANGED <<sender, txs>>

\* The program has returned: it holds no handle and no reference of its own.
Returned == phase = "run" /\ \A id \in Named : hand[id] = 0 /\ refs[id] \notin {"ref", "mut"}

\* release_arguments, into_change_set and apply_change_set.
Commit ==
  /\ Returned
  /\ store' = apply_change_set
  /\ EndTx

\* An abort, an error or running out of gas: the runtime is dropped.
Abort == phase # "idle" /\ EndTx /\ UNCHANGED store

NextRuntime ==
  \/ BeginTx \/ Execute \/ Commit \/ Abort
  \/ \E id \in Named : \E kind \in {"arg", "argmut", "value"} : LoadArgument(id, kind)
  \/ \E id \in IDs : Read(id)
  \/ \E id \in Named, v \in Values : New(id, v)
  \/ \E id \in Fields, v \in Values : AddField(id, v)
  \/ \E id \in Fields : RemoveField(id)
  \/ \E id \in Named : Remove(id) \/ DropContainer(id)
  \/ \E id \in IDs, v \in Plain : WriteValue(id, v)
  \/ \E id \in Named, kind \in {"ref", "mut"} : BorrowObject(id, kind)
  \/ \E id \in Named : DropReference(id) \/ TakeObject(id)
  \/ \E id \in Named, u \in Users : Transfer(id, u)
  \/ \E id \in Named : ToShared(id) \/ ToFrozen(id)

SpecRuntime == InitRuntime /\ [][NextRuntime]_vars

--------------------------------------------------------------------------------
(* What the cache and the tree amount to.                                  *)

SizeOf(id) == IF id \in DOMAIN rt THEN rt[id].size ELSE store[id].size

AtHome(id) == IF id \in DOMAIN rt THEN Exists(rt[id].pointer) ELSE ~is_embeded(store[id])

\* The objects whose value holds the handle of id.
Holders(id) == {h \in LiveIDs : Seen(h).value = id}

--------------------------------------------------------------------------------
(* Properties.                                                             *)

RuntimeObjects ==
  [meta : {"None", "Fresh", "Cached", "Deleted"}, dirty : BOOLEAN,
   owner : Users \cup {SystemOwner, "moveos_std"}, flag : SUBSET Flags, size : Nat,
   value : [st : {"None", "Fresh", "Clean", "Dirty", "Deleted"}, v : Values \cup {Nothing}],
   pointer : [st : {"None", "Fresh", "Clean", "Dirty", "Deleted"}, v : {TRUE, Nothing}]]

\* Types; sizes and handle counts never go below zero, and a loaded object's
\* parent is loaded, as get_loaded_object needs.
TypeOKRuntime ==
  /\ Root \in DOMAIN store /\ DOMAIN store \subseteq IDs \cup {Root}
  /\ \A id \in DOMAIN store : store[id].size \in Nat
  /\ \A id \in DOMAIN rt : rt[id] \in RuntimeObjects /\ Parent(id) \in DOMAIN rt
  /\ hand \in [Named -> Nat]
  /\ refs \in [Named -> {"none", "ref", "mut", "arg", "argmut"}]
  /\ phase \in {"idle", "args", "run"} /\ sender \in Users

\* The size object.move tests before it removes an object is the number of
\* fields the object has, at every point of a transaction and after it.
SizeIsFieldCount ==
  \A id \in LiveIDs \cup {Root} :
     SizeOf(id) = Cardinality({c \in LiveIDs : Parent(c) = id})

\* Every object has exactly one handle: in the store, in the program's hand or
\* in the value of one other object (borrow_object's "already taken out",
\* RuntimeObject::load's embedded objects); a removed object has none.
OneHandle ==
  \A id \in Named :
     hand[id] + Cardinality(Holders(id)) + (IF Live(id) /\ AtHome(id) THEN 1 ELSE 0)
       = IF Live(id) THEN 1 ELSE 0

\* The assertions and error paths of into_change and apply_object_change are
\* never reached: no change is dropped for want of metadata, but for the fields of
\* a container dropped in the transaction that created it (where the assertion "The
\* object meta should not be None" does fail), no metadata of a deleted
\* object is touched, no unchanged value is missing from the tree.
ChangesKept ==
  \A id \in DOMAIN rt :
     /\ rt[id].meta = "None" => /\ Effect(rt[id].value) = "None"
                                /\ rt[id].size = 0 => \A c \in FieldChanges(id) : ~HasOwnChange(c)
     /\ Effect(rt[id].value) \in {"New", "Modify"} \/ Embeds(rt[id]) => IsLive(rt[id]) \/ rt[id].meta = "None"
     /\ HasChange(id) /\ Effect(rt[id].value) = "None" => id \in DOMAIN store

\* The runtime's caches fit together: types, sizes, and a change set that loses nothing.
RuntimeInv == TypeOKRuntime /\ SizeIsFieldCount /\ ChangesKept

\* A frozen object that is not shared keeps its value, owner and flags for ever
\* (object::to_frozen).
FrozenForEver ==
  [][\A id \in Named \cap DOMAIN store :
       "frozen" \in store[id].flag /\ "shared" \notin store[id].flag =>
         /\ id \in DOMAIN store'
         /\ store'[id].value = store[id].value
         /\ store'[id].owner = store[id].owner /\ store'[id].flag = store[id].flag]_vars

\* The runtime implements atomic transactions over a plain map of objects.
Objects == INSTANCE ObjectStore WITH
  Owners <- Users \cup {SystemOwner}, ParentOf <- Parent,
  committed <- [id \in DOMAIN store \ {Root} |->
                  [value |-> store[id].value, owner |-> store[id].owner, flag |-> store[id].flag]],
  draft <- [id \in LiveIDs |-> Seen(id)],
  home <- {id \in LiveIDs : AtHome(id)}

\* Every commit of the runtime (into_change_set, apply_change_set) publishes exactly what the
\* operations did to the private copy, one after the other, and an abort publishes nothing.
ImplementsObjectStore == Objects!SpecObjects
================================================================================

----------------------------- MODULE ObjectProofs ------------------------------
(***************************************************************************)
(* Theorems about ObjectRuntime, for any keys, values and users and any    *)
(* number of transactions and operations: types, sizes and change sets     *)
(* (RuntimeInv), one handle per object (OneHandle), frozen objects         *)
(* (FrozenForEver) and the refinement of ObjectStore.  They are about the  *)
(* programs the runtime handles well, Restrained.                          *)
(*                                                                         *)
(* The proof has two levels.  View is the map of objects that cache and    *)
(* tree amount to; WorldOK says what its operations keep.  CacheOK says    *)
(* which states of metadata, value and pointer an entry of the cache can   *)
(* be in, so that every operation of the runtime is an operation on View   *)
(* and the change set at the end is View again.                            *)
(***************************************************************************)
EXTENDS ObjectRuntime, FiniteSetTheorems, TLAPS

(* The programs the theorems are about; the others are known divergences.  *)
Restrained == ~RemovesAgain /\ ~TakesAgain /\ ~EmbedsShared

--------------------------------------------------------------------------------
(* The objects cache c and tree s amount to.                               *)

(* An object that does not exist.                                          *)
Gone == [live |-> FALSE, value |-> Nothing, owner |-> SystemOwner, flag |-> {}, size |-> 0,
         home |-> FALSE]

(* An object that does, with its handle at home or not.                    *)
Thing(v, u, f, n, h) ==
  [live |-> TRUE, value |-> v, owner |-> u, flag |-> f, size |-> n, home |-> h]

(* What the operations do to one: created, written, its handle taken or    *)
(* given back, a field added or removed.                                   *)
Infant(v) == Thing(v, SystemOwner, {}, 0, FALSE)
Rewritten(t, v) == Thing(v, t.owner, t.flag, t.size, t.home)
Taken(t) == Thing(t.value, t.owner, t.flag, t.size, FALSE)
Given(t, u, f) == Thing(t.value, u, f, t.size, TRUE)
Resized(t, n) == Thing(t.value, t.owner, t.flag, n, t.home)

(* What an entry of the cache says.                                        *)
Shown(o) ==
  IF Exists(o.value) THEN Thing(o.value.v, o.owner, o.flag, o.size, Exists(o.pointer)) ELSE Gone

(* What an object of the tree says.                                        *)
Stored(o) == Thing(o.value, o.owner, o.flag, o.size, ~is_embeded(o))

(* What cache and tree say of id itself.                                   *)
Own(s, c, id) ==
  IF id \in DOMAIN c THEN Shown(c[id]) ELSE IF id \in DOMAIN s THEN Stored(s[id]) ELSE Gone

(* A field that was left below a dropped container is in the cache or in   *)
(* the tree, and nobody can get at it.                                     *)
Lost(c, id) == id \in Fields /\ Parent(id) \in DOMAIN c /\ ~IsLive(c[Parent(id)])

(* The object at id.                                                       *)
Now(s, c, id) == IF Lost(c, id) THEN Gone ELSE Own(s, c, id)

(* Every id, and the map of objects.                                       *)
All == IDs \cup {Root}
View(s, c) == [id \in All |-> Now(s, c, id)]

(* Records of a view and of the tree.                                      *)
Anyone == Users \cup {SystemOwner, "moveos_std"}
Things == [live : BOOLEAN, value : Values \cup {Nothing}, owner : Anyone, flag : SUBSET Flags,
           size : Nat, home : BOOLEAN]
TreeObjects == [value : Values \cup {Nothing}, owner : Anyone, flag : SUBSET Flags, size : Nat]

--------------------------------------------------------------------------------
(* What holds of the objects, the handles h and the references r.          *)

(* The fields of p, the holders of id's handle, the existing objects.      *)
Kids(w, p) == {id \in IDs : w[id].live /\ Parent(id) = p}
HeldBy(w, id) == {k \in IDs : w[k].value = id}
Alive(w) == {id \in IDs : w[id].live}

(* Existing objects have values, the others nothing; there are finitely    *)
(* many, each below an existing one.                                       *)
ThingsOK(w) ==
  /\ w \in [All -> Things]
  /\ \A id \in IDs : IF w[id].live THEN w[id].value \in Values ELSE w[id] = Gone
  /\ IsFiniteSet(Alive(w))
  /\ \A id \in IDs : w[id].live => w[Parent(id)].live
  /\ w[Root].live /\ w[Root].value = Nothing

(* Sizes.                                                                  *)
SizesOK(w) == \A p \in All : w[p].size = Cardinality(Kids(w, p))

(* One handle per object.                                                  *)
HandlesOK(w, h) ==
  \A id \in Named :
    h[id] + Cardinality(HeldBy(w, id)) + (IF w[id].home THEN 1 ELSE 0) = IF w[id].live THEN 1 ELSE 0

(* A handle that is at home is told by owner and flag; what lies in        *)
(* another object has no flag; frozen objects are at home and nobody's;    *)
(* dynamic fields have no handle.                                          *)
FlagsOK(w) ==
  /\ \A id \in IDs : w[id].home => w[id].live /\ ~is_embeded(w[id])
  /\ \A id \in Named : HeldBy(w, id) # {} => w[id].flag = {}
  /\ \A id \in Named : "frozen" \in w[id].flag => w[id].owner = SystemOwner /\ w[id].home
  /\ \A id \in Fields : ~w[id].home /\ is_embeded(w[id])

(* Who is borrowed is at home; mutable references are not to frozen        *)
(* objects, unless these are shared.                                       *)
RefsOK(w, r) ==
  \A id \in Named : r[id] # "none" =>
    /\ w[id].home
    /\ r[id] \in {"mut", "argmut"} /\ "frozen" \in w[id].flag => "shared" \in w[id].flag

(* All of it.                                                              *)
WorldOK(w, h, r) ==
  /\ ThingsOK(w) /\ SizesOK(w) /\ HandlesOK(w, h) /\ FlagsOK(w) /\ RefsOK(w, r)
  /\ h \in [Named -> Nat] /\ r \in [Named -> {"none", "ref", "mut", "arg", "argmut"}]

--------------------------------------------------------------------------------
(* The tree and the cache.                                                 *)

(* The tree: finitely many objects, each below one of the tree, and the    *)
(* root object.                                                            *)
TreeOK(s) ==
  /\ Root \in DOMAIN s /\ DOMAIN s \subseteq All /\ IsFiniteSet(DOMAIN s)
  /\ s = [id \in DOMAIN s |-> s[id]]
  /\ \A id \in DOMAIN s : s[id] \in TreeObjects /\ Parent(id) \in DOMAIN s
  /\ s[Root].value = Nothing /\ s[Root].owner = "moveos_std" /\ s[Root].flag = {"shared"}

(* The entry o of an object that is not in the tree: it never existed, or  *)
(* is new.                                                                 *)
NewEntry(o) ==
  \/ o.meta = "None" /\ o.value = None /\ o.pointer.st = "None"
  \/ o.meta = "Fresh" /\ o.value.st = "Fresh" /\ o.pointer.st \in {"None", "Fresh"}

(* The entry o of the object t of the tree: loaded, removed, or removed    *)
(* and created again.                                                      *)
OldEntry(o, t) ==
  \/ /\ o.meta = "Cached" /\ o.value.st \in {"Clean", "Dirty"}
     /\ ~o.dirty => o.owner = t.owner /\ o.flag = t.flag /\ o.size = t.size
     /\ o.value.st = "Clean" => o.value.v = t.value
     /\ o.pointer.st \in {"Clean", "Dirty", "Deleted", "None", "Fresh"}
  \/ /\ o.meta = "Deleted" /\ o.value.st = "Deleted" /\ o.value.v = Nothing
     /\ o.pointer.st \in {"None", "Deleted"}
  \/ /\ o.meta = "Fresh" /\ o.value.st = "Dirty"
     /\ o.pointer.st \in {"None", "Fresh", "Dirty", "Deleted"}

(* An entry that was never at home or has just been created looks like an  *)
(* embedded object.                                                        *)
EntryOK(s, id, o) ==
  /\ o \in RuntimeObjects
  /\ IF id \in DOMAIN s THEN OldEntry(o, s[id]) ELSE NewEntry(o)
  /\ IsLive(o) /\ o.pointer.st = "None" => is_embeded(o)

(* An object of the tree that was removed and created again has another    *)
(* state root: what it had below it was loaded and removed before.         *)
Forgotten(s, o, p) == o.meta = "Fresh" /\ p \in DOMAIN s

(* Everything below id in the tree was loaded and is no longer as loaded.  *)
AllBelow(s, c, id) == \A k \in DOMAIN s : Parent(k) = id => k \in DOMAIN c /\ c[k].meta # "Cached"

(* No field is left below p.                                               *)
Emptied(s, c, p) == \A k \in Fields : Parent(k) = p => Own(s, c, k) = Gone

(* The cache c over the tree s: an entry's parent is loaded too, entries   *)
(* are in order, what lay below an object that was removed and created     *)
(* again was loaded and removed before it, and a removed object that has   *)
(* no size has no field left: only such an id is created again.            *)
CacheOK(s, c) ==
  /\ DOMAIN c \subseteq All /\ IsFiniteSet(DOMAIN c) /\ c = [id \in DOMAIN c |-> c[id]]
  /\ \A id \in DOMAIN c : Parent(id) \in DOMAIN c
  /\ \A id \in DOMAIN c \ {Root} : EntryOK(s, id, c[id])
  /\ Root \in DOMAIN c =>
       LET o == c[Root]
       IN /\ o.meta = "Cached" /\ o.owner = "moveos_std" /\ o.flag = {"shared"}
          /\ o \in RuntimeObjects /\ o.value = CachedValue(Nothing) /\ o.pointer = CachedValue(TRUE)
          /\ ~o.dirty => o.size = s[Root].size
  /\ \A p \in DOMAIN c \ {Root} : Forgotten(s, c[p], p) => AllBelow(s, c, p)
  /\ \A p \in DOMAIN c \ {Root} : ~IsLive(c[p]) /\ c[p].size = 0 => Emptied(s, c, p)

(* What is frozen in the tree, and not shared, is still as it was.         *)
FrozenOK(s, w) ==
  \A id \in Named \cap DOMAIN s : "frozen" \in s[id].flag /\ "shared" \notin s[id].flag =>
    /\ w[id].live /\ w[id].value = s[id].value
    /\ w[id].owner = s[id].owner /\ w[id].flag = s[id].flag

(* While the arguments are resolved the cache holds what was loaded.       *)
Untouched(c) ==
  \A id \in DOMAIN c : c[id].meta \in {"None", "Cached"} /\ ~c[id].dirty /\ c[id].pointer.st # "Fresh"

(* Between transactions the program holds nothing.                         *)
NoHands == [id \in Named |-> 0]
NoRefs == [id \in Named |-> "none"]

(* The inductive invariant.                                                *)
ObjectsInv ==
  /\ TreeOK(store) /\ WorldOK(View(store, << >>), NoHands, NoRefs)
  /\ CacheOK(store, rt) /\ WorldOK(View(store, rt), hand, refs)
  /\ FrozenOK(store, View(store, rt))
  /\ phase \in {"idle", "args", "run"} /\ sender \in Users
  /\ IF phase = "idle" THEN rt = << >> /\ hand = NoHands /\ refs = NoRefs ELSE Root \in DOMAIN rt
  /\ phase = "args" => Untouched(rt)

--------------------------------------------------------------------------------
(* Ids.                                                                    *)

(* The root is its own parent.                                             *)
LEMMA RootParent == Parent(Root) = Root
BY DEF Parent, Root

(* The parent of a top-level object is the root.                           *)
LEMMA KeyParent == \A k : Parent(<<k>>) = Root /\ <<k>> # Root
BY DEF Parent, Root

(* The parent of a field or child is a top-level object.                   *)
LEMMA FieldParent == \A k, f : Parent(<<k, f>>) = <<k>> /\ <<k, f>> # Root
<1> SUFFICES ASSUME NEW k, NEW f PROVE Parent(<<k, f>>) = <<k>> /\ <<k, f>> # Root
  OBVIOUS
<1>1. Parent(<<k, f>>) = SubSeq(<<k, f>>, 1, 1)
  BY DEF Parent
<1>2. SubSeq(<<k, f>>, 1, 1) = [i \in 1..1 |-> <<k, f>>[i]]
  BY DEF SubSeq
<1>3. <<k, f>>[1] = k
  OBVIOUS
<1>4. [i \in 1..1 |-> <<k, f>>[i]] = <<k>>
  BY <1>3
<1> QED BY <1>1, <1>2, <1>4 DEF Root

(* What the proofs use of ids.                                             *)
LEMMA IdFacts ==
  /\ Parent(Root) = Root /\ Root \notin IDs
  /\ Named \subseteq IDs /\ Fields \subseteq IDs /\ IDs = Named \cup Fields
  /\ Named \cap Fields = {}
  /\ \A id \in IDs : Parent(id) \in Named \cup {Root} /\ Parent(id) # id
  /\ \A id \in IDs : Parent(Parent(id)) = Root
  /\ \A id \in IDs : Parent(id) \notin Fields
<1>1. \A id \in IDs : (\E k \in Keys : id = <<k>>) \/ (\E k \in Keys, f \in FieldNames \cup ChildNames : id = <<k, f>>)
  BY DEF IDs, Named, Fields
<1>2. \A k, f : <<k, f>> # <<k>>
  OBVIOUS
<1>3. \A id \in IDs : id # Root /\ Parent(id) \in Named \cup {Root} /\ Parent(id) # id /\ Parent(Parent(id)) = Root
  <2> SUFFICES ASSUME NEW id \in IDs
               PROVE  id # Root /\ Parent(id) \in Named \cup {Root} /\ Parent(id) # id /\ Parent(Parent(id)) = Root
    OBVIOUS
  <2>1. CASE \E k \in Keys : id = <<k>>
    BY <2>1, KeyParent, RootParent
  <2>2. CASE \E k \in Keys, f \in FieldNames \cup ChildNames : id = <<k, f>>
    <3>1. PICK k \in Keys, f \in FieldNames \cup ChildNames : id = <<k, f>>
      BY <2>2
    <3>2. Parent(id) = <<k>> /\ <<k>> \in Named
      BY <3>1, FieldParent DEF Named
    <3> QED BY <3>1, <3>2, FieldParent, KeyParent, <1>2
  <2> QED BY <1>1, <2>1, <2>2
<1>4. Named \cap Fields = {}
  BY ObjectAssumption DEF Named, Fields
<1>5. \A id \in IDs : Parent(id) \notin Fields
  <2>1. \A id \in Fields : Parent(id) # Root
    BY FieldParent, KeyParent DEF Fields
  <2> QED BY <2>1, <1>3
<1> QED BY <1>3, <1>4, <1>5, RootParent DEF IDs

(* What the proofs use of values.                                          *)
LEMMA ValueFacts ==
  /\ Values = Plain \cup Named /\ Plain \cap Named = {} /\ Nothing \notin Values
  /\ Nothing \notin Plain /\ Nothing \notin Named
BY ObjectAssumption DEF Values

USE DEF All
--------------------------------------------------------------------------------
(* Loading.                                                                *)

(* A loaded object is an entry that says what the tree says.               *)
LEMMA CachedObjectOK ==
  ASSUME TreeOK(store), NEW id \in DOMAIN store
  PROVE  /\ EntryOK(store, id, CachedObject(id)) /\ CachedObject(id).meta = "Cached"
         /\ Shown(CachedObject(id)) = Stored(store[id])
<1> DEFINE t == store[id]
           o == CachedObject(id)
<1>1. t \in TreeObjects
  BY DEF TreeOK
<1>2. /\ t.value \in Values \cup {Nothing} /\ t.owner \in Anyone /\ t.flag \in SUBSET Flags /\ t.size \in Nat
  BY <1>1 DEF TreeObjects
<1>3. /\ o.meta = "Cached" /\ o.dirty = FALSE /\ o.owner = t.owner /\ o.flag = t.flag /\ o.size = t.size
      /\ o.value = [st |-> "Clean", v |-> t.value]
      /\ o.pointer = IF is_embeded(t) THEN [st |-> "None", v |-> Nothing] ELSE [st |-> "Clean", v |-> TRUE]
  BY DEF CachedObject, CachedValue, None
<1>4. o \in RuntimeObjects
  BY <1>2 DEF CachedObject, CachedValue, None, RuntimeObjects, Anyone
<1>5. is_embeded(o) <=> is_embeded(t)
  BY <1>3 DEF is_embeded
<1>6. EntryOK(store, id, o)
  <2>1. OldEntry(o, t)
    BY <1>3 DEF OldEntry
  <2>2. o.pointer.st = "None" => is_embeded(t)
    BY <1>3
  <2> QED BY <2>1, <2>2, <1>4, <1>5 DEF EntryOK
<1>7. Shown(o) = Stored(t)
  <2>1. Exists(o.value) /\ o.value.v = t.value /\ (Exists(o.pointer) = ~is_embeded(t))
    BY <1>3 DEF Exists, is_embeded
  <2> HIDE DEF o, t
  <2> QED BY <2>1, <1>3, Zenon DEF Shown, Stored
<1> QED BY <1>3, <1>6, <1>7

(* So is an object that is not in the tree.                                *)
LEMMA NoneObjectOK ==
  ASSUME NEW id, id \notin DOMAIN store
  PROVE  /\ EntryOK(store, id, NoneObject) /\ NoneObject.meta = "None" /\ Shown(NoneObject) = Gone
<1>1. NoneObject \in RuntimeObjects
  BY DEF NoneObject, None, RuntimeObjects
<1>2. NewEntry(NoneObject) /\ ~IsLive(NoneObject) /\ ~Exists(NoneObject.value) /\ NoneObject.meta = "None"
  BY DEF NewEntry, NoneObject, IsLive, None, Exists
<1> QED BY <1>1, <1>2 DEF EntryOK, Shown

(* load_field keeps the cache in order and loses or invents nothing.       *)
LEMMA FieldLoads ==
  ASSUME TreeOK(store), NEW c, CacheOK(store, c), NEW id \in All, Parent(id) \in DOMAIN c,
         NEW d, d = load_field(c, id)
  PROVE  /\ CacheOK(store, d) /\ View(store, d) = View(store, c)
         /\ DOMAIN d = DOMAIN c \cup {id} /\ (\A k \in DOMAIN c : d[k] = c[k])
         /\ Untouched(c) => Untouched(d)
<1> DEFINE o == get_field_at(c, id)
<1>1. CASE id \in DOMAIN c
  <2>1. d = c
    BY <1>1 DEF load_field
  <2> QED BY <2>1, <1>1
<1>2. CASE id \notin DOMAIN c
  <2>1. d = [k \in DOMAIN c \cup {id} |-> IF k = id THEN o ELSE c[k]]
    BY <1>2 DEF load_field
  <2> HIDE DEF o
  <2>2. /\ DOMAIN d = DOMAIN c \cup {id} /\ d[id] = o /\ \A k \in DOMAIN c : d[k] = c[k]
        /\ d = [k \in DOMAIN d |-> d[k]]
    BY <2>1, <1>2
  <2>3. id # Root /\ id \in IDs
    BY <1>2, IdFacts
  <2>4. id \in DOMAIN store => c[Parent(id)].meta # "Fresh"
    <3> SUFFICES ASSUME id \in DOMAIN store, c[Parent(id)].meta = "Fresh" PROVE FALSE
      OBVIOUS
    <3>1. Parent(id) # Root
      BY DEF CacheOK
    <3>2. Parent(id) \in DOMAIN store
      BY DEF TreeOK
    <3>3. Forgotten(store, c[Parent(id)], Parent(id))
      BY <3>2 DEF Forgotten
    <3> QED BY <3>1, <3>3, <1>2 DEF CacheOK, AllBelow
  <2>5. o = IF id \in DOMAIN store THEN CachedObject(id) ELSE NoneObject
    BY <2>4 DEF o, get_field_at
  <2>6. EntryOK(store, id, o) /\ o.meta \in {"None", "Cached"} /\ Shown(o) = Own(store, c, id)
    BY <2>5, <1>2, CachedObjectOK, NoneObjectOK DEF Own
  <2>7. \A k \in All : Own(store, d, k) = Own(store, c, k)
    BY <2>2, <2>6 DEF Own
  <2>a. ASSUME NEW k \in Fields, Parent(k) = id PROVE ~IsLive(o) => Own(store, c, k) = Gone
    <3> SUFFICES ASSUME ~IsLive(o) PROVE Own(store, c, k) = Gone
      OBVIOUS
    <3>1. id \notin DOMAIN store
      BY <2>5, CachedObjectOK DEF IsLive
    <3>2. k \notin DOMAIN c /\ k \notin DOMAIN store
      BY <3>1, <2>a, <1>2 DEF CacheOK, TreeOK
    <3> QED BY <3>2 DEF Own
  <2>b. View(store, d) = View(store, c)
    <3>1. ASSUME NEW k \in All PROVE Now(store, d, k) = Now(store, c, k)
      <4>1. CASE k \in Fields /\ Parent(k) = id
        BY <4>1, <2>2, <2>7, <2>a, <1>2 DEF Now, Lost
      <4>2. CASE ~(k \in Fields /\ Parent(k) = id)
        <5>1. Lost(d, k) <=> Lost(c, k)
          BY <4>2, <2>2 DEF Lost
        <5> QED BY <5>1, <2>7 DEF Now
      <4> QED BY <4>1, <4>2
    <3> QED BY <3>1 DEF View
  <2>8. CacheOK(store, d)
    <3>1. DOMAIN d \subseteq All /\ IsFiniteSet(DOMAIN d) /\ (\A k \in DOMAIN d : Parent(k) \in DOMAIN d)
      BY <2>2, FS_AddElement DEF CacheOK
    <3>2. \A k \in DOMAIN d \ {Root} : EntryOK(store, k, d[k])
      BY <2>2, <2>6 DEF CacheOK
    <3>3. Root \in DOMAIN d => Root \in DOMAIN c /\ d[Root] = c[Root]
      BY <2>2, <2>3
    <3>4. ASSUME NEW p \in DOMAIN d \ {Root}, Forgotten(store, d[p], p), NEW k \in DOMAIN store, Parent(k) = p
          PROVE  k \in DOMAIN d /\ d[k].meta # "Cached"
      <4>1. p # id
        <5> SUFFICES ASSUME p = id PROVE FALSE
          OBVIOUS
        <5>1. o.meta = "Cached" \/ o.meta = "None"
          BY <2>6
        <5> QED BY <5>1, <3>4, <2>2 DEF Forgotten
      <4>2. p \in DOMAIN c \ {Root} /\ Forgotten(store, c[p], p)
        BY <4>1, <3>4, <2>2
      <4> QED BY <4>2, <3>4, <2>2 DEF CacheOK, AllBelow
    <3>5. \A p \in DOMAIN d \ {Root} : Forgotten(store, d[p], p) => AllBelow(store, d, p)
      BY <3>4 DEF AllBelow
    <3>6. ASSUME NEW p \in DOMAIN d \ {Root}, ~IsLive(d[p]), d[p].size = 0 PROVE Emptied(store, d, p)
      <4> SUFFICES ASSUME NEW k \in Fields, Parent(k) = p PROVE Own(store, c, k) = Gone
        BY <2>7, IdFacts DEF Emptied
      <4>1. CASE p = id
        BY <4>1, <3>6, <2>2, <2>a
      <4>2. CASE p # id
        BY <4>2, <3>6, <2>2 DEF CacheOK, Emptied
      <4> QED BY <4>1, <4>2
    <3> QED BY <3>1, <3>2, <3>3, <3>5, <3>6, <2>2 DEF CacheOK
  <2>9. o.meta \in {"None", "Cached"} /\ ~o.dirty /\ o.pointer.st # "Fresh"
    BY <2>5 DEF CachedObject, NoneObject, None, CachedValue
  <2>10. Untouched(c) => Untouched(d)
    BY <2>2, <2>9 DEF Untouched
  <2> QED BY <2>2, <2>b, <2>8, <2>10
<1> QED BY <1>1, <1>2

(* load_object as well: object and parent are then in the cache.           *)
LEMMA ObjectLoads ==
  ASSUME TreeOK(store), CacheOK(store, rt), Root \in DOMAIN rt, NEW id \in All,
         NEW d, d = load_object(id)
  PROVE  /\ CacheOK(store, d) /\ View(store, d) = View(store, rt)
         /\ {id, Parent(id), Root} \subseteq DOMAIN d
         /\ Untouched(rt) => Untouched(d)
<1> DEFINE c == IF Parent(id) \in DOMAIN rt THEN rt ELSE load_field(rt, Parent(id))
<1>1. Parent(id) \in All /\ Parent(Parent(id)) = Root
  BY IdFacts
<1>2. CacheOK(store, c) /\ View(store, c) = View(store, rt) /\ {Parent(id), Root} \subseteq DOMAIN c
      /\ (Untouched(rt) => Untouched(c))
  <2>1. CASE Parent(id) \in DOMAIN rt
    BY <2>1
  <2>2. CASE Parent(id) \notin DOMAIN rt
    <3>1. c = load_field(rt, Parent(id))
      BY <2>2
    <3> HIDE DEF c
    <3>2. Parent(id) \in All /\ Parent(Parent(id)) \in DOMAIN rt
      BY <1>1
    <3>3. /\ CacheOK(store, c) /\ View(store, c) = View(store, rt)
          /\ DOMAIN c = DOMAIN rt \cup {Parent(id)} /\ (Untouched(rt) => Untouched(c))
      BY <3>1, <3>2, FieldLoads, Zenon
    <3> QED BY <3>3
  <2> QED BY <2>1, <2>2
<1>3. d = load_field(c, id)
  BY DEF load_object
<1> HIDE DEF c
<1>4. Parent(id) \in DOMAIN c
  BY <1>2
<1>5. /\ CacheOK(store, d) /\ View(store, d) = View(store, c) /\ DOMAIN d = DOMAIN c \cup {id}
      /\ (Untouched(c) => Untouched(d))
  BY <1>2, <1>3, <1>4, FieldLoads, Zenon
<1> QED BY <1>2, <1>5
--------------------------------------------------------------------------------
(* Changing an entry of the cache.                                         *)

(* Types of the slots and of changed entries.                              *)
Statuses == {"None", "Fresh", "Clean", "Dirty", "Deleted"}
ValueSlots == [st : Statuses, v : Values \cup {Nothing}]
PointerSlots == [st : Statuses, v : {TRUE, Nothing}]

(* The operations on slots.                                                *)
LEMMA SlotTypes ==
  /\ \A g \in ValueSlots, v \in Values : MoveTo(g, v) \in ValueSlots /\ WriteRef(g, v) \in ValueSlots
  /\ \A g \in ValueSlots : MoveFrom(g) \in ValueSlots
  /\ \A g \in PointerSlots : MoveTo(g, TRUE) \in PointerSlots /\ MoveFrom(g) \in PointerSlots
BY DEF MoveTo, WriteRef, MoveFrom, ValueSlots, PointerSlots, Statuses

(* The fields of an entry.                                                 *)
LEMMA EntryTypes ==
  ASSUME NEW o \in RuntimeObjects
  PROVE  o.value \in ValueSlots /\ o.pointer \in PointerSlots
BY DEF RuntimeObjects, ValueSlots, PointerSlots, Statuses

(* An entry with another value or pointer.                                 *)
WithValue(o, g) == [o EXCEPT !.value = g]
WithPointer(o, g) == [o EXCEPT !.pointer = g]

(* q is o with another value, or another pointer.                          *)
OnlyValue(q, o, g) ==
  /\ q \in RuntimeObjects /\ q.value = g /\ q.pointer = o.pointer
  /\ q.meta = o.meta /\ q.dirty = o.dirty /\ q.owner = o.owner /\ q.flag = o.flag /\ q.size = o.size
OnlyPointer(q, o, g) ==
  /\ q \in RuntimeObjects /\ q.pointer = g /\ q.value = o.value
  /\ q.meta = o.meta /\ q.dirty = o.dirty /\ q.owner = o.owner /\ q.flag = o.flag /\ q.size = o.size

(* An entry with another value.                                            *)
LEMMA OtherValue ==
  ASSUME NEW o \in RuntimeObjects, NEW g \in ValueSlots
  PROVE  OnlyValue(WithValue(o, g), o, g)
<1> DEFINE q == WithValue(o, g)
<1>1. q \in RuntimeObjects
  BY DEF RuntimeObjects, ValueSlots, Statuses, WithValue
<1>2. /\ q.value = g /\ q.pointer = o.pointer
      /\ q.meta = o.meta /\ q.dirty = o.dirty /\ q.owner = o.owner /\ q.flag = o.flag /\ q.size = o.size
  BY DEF RuntimeObjects, WithValue
<1> QED BY <1>1, <1>2 DEF OnlyValue

(* An entry with another pointer.                                          *)
LEMMA OtherPointer ==
  ASSUME NEW o \in RuntimeObjects, NEW g \in PointerSlots
  PROVE  OnlyPointer(WithPointer(o, g), o, g)
<1> DEFINE q == WithPointer(o, g)
<1>1. q \in RuntimeObjects
  BY DEF RuntimeObjects, PointerSlots, Statuses, WithPointer
<1>2. /\ q.pointer = g /\ q.value = o.value
      /\ q.meta = o.meta /\ q.dirty = o.dirty /\ q.owner = o.owner /\ q.flag = o.flag /\ q.size = o.size
  BY DEF RuntimeObjects, WithPointer
<1> QED BY <1>1, <1>2 DEF OnlyPointer

(* What CacheOK says of one entry.                                         *)
LEMMA EntryFacts ==
  ASSUME NEW s, NEW c, CacheOK(s, c), NEW id \in DOMAIN c \ {Root}
  PROVE  /\ EntryOK(s, id, c[id]) /\ c[id] \in RuntimeObjects
         /\ Forgotten(s, c[id], id) => AllBelow(s, c, id)
         /\ IsLive(c[id]) <=> Exists(c[id].value)
         /\ Exists(c[id].pointer) => Exists(c[id].value)
         /\ ~Exists(c[id].value) => c[id].value.v = Nothing
<1>1. EntryOK(s, id, c[id]) /\ c[id] \in RuntimeObjects
  BY DEF CacheOK, EntryOK
<1>2. Forgotten(s, c[id], id) => AllBelow(s, c, id)
  BY DEF CacheOK, AllBelow
<1> DEFINE o == c[id]
<1>3. /\ IsLive(o) <=> Exists(o.value)
      /\ Exists(o.pointer) => Exists(o.value)
      /\ ~Exists(o.value) => o.value.v = Nothing
  <2>1. CASE id \in DOMAIN s
    <3>1. OldEntry(o, s[id])
      BY <2>1, <1>1 DEF EntryOK
    <3> HIDE DEF o
    <3> QED BY <3>1 DEF OldEntry, IsLive, Exists
  <2>2. CASE id \notin DOMAIN s
    <3>1. NewEntry(o)
      BY <2>2, <1>1 DEF EntryOK
    <3> HIDE DEF o
    <3> QED BY <3>1 DEF NewEntry, IsLive, Exists, None
  <2> QED BY <2>1, <2>2
<1> QED BY <1>1, <1>2, <1>3

(* What cache d, with the entry o at id, says more than c.                 *)
NowPut(s, c, d, id, o) ==
  \A k \in All :
    Now(s, d, k) = IF k = id THEN Shown(o)
                   ELSE IF k \in Fields /\ Parent(k) = id
                        THEN (IF IsLive(o) THEN Own(s, c, k) ELSE Gone)
                        ELSE Now(s, c, k)

(* A new entry o for a loaded id changes the view at id, and below it when *)
(* an object comes or goes there.                                          *)
LEMMA EntryPut ==
  ASSUME NEW s, NEW c, CacheOK(s, c), NEW id \in DOMAIN c \ {Root}, NEW o, EntryOK(s, id, o),
         Forgotten(s, o, id) => AllBelow(s, c, id),
         o.meta = "Cached" => c[id].meta = "Cached",
         ~Lost(c, id), ~IsLive(o) /\ o.size = 0 => Emptied(s, c, id),
         NEW d, d = [c EXCEPT ![id] = o]
  PROVE  CacheOK(s, d) /\ DOMAIN d = DOMAIN c /\ NowPut(s, c, d, id, o)
<1>1. /\ DOMAIN c \subseteq All /\ c = [k \in DOMAIN c |-> c[k]] /\ IsFiniteSet(DOMAIN c)
      /\ \A k \in DOMAIN c : Parent(k) \in DOMAIN c
      /\ \A k \in DOMAIN c \ {Root} : EntryOK(s, k, c[k])
  BY DEF CacheOK
<1>2. /\ DOMAIN d = DOMAIN c /\ d[id] = o /\ (\A k \in DOMAIN c : k # id => d[k] = c[k])
      /\ d = [k \in DOMAIN d |-> d[k]]
  BY <1>1
<1>3. \A k \in DOMAIN d \ {Root} : EntryOK(s, k, d[k])
  BY <1>1, <1>2
<1>4. ASSUME NEW p \in DOMAIN d \ {Root}, Forgotten(s, d[p], p), NEW k \in DOMAIN s, Parent(k) = p
      PROVE  k \in DOMAIN d /\ d[k].meta # "Cached"
  <2>1. k \in DOMAIN c /\ c[k].meta # "Cached"
    <3>1. CASE p = id
      BY <3>1, <1>2, <1>4 DEF AllBelow
    <3>2. CASE p # id
      <4>1. Forgotten(s, c[p], p) /\ p \in DOMAIN c \ {Root}
        BY <3>2, <1>2, <1>4
      <4> QED BY <4>1, <1>4 DEF CacheOK, AllBelow
    <3> QED BY <3>1, <3>2
  <2> QED BY <2>1, <1>2
<1>5. Parent(id) # id /\ id \in All
  BY <1>1, IdFacts
<1>6. \A k \in All : Own(s, d, k) = IF k = id THEN Shown(o) ELSE Own(s, c, k)
  BY <1>2 DEF Own
<1>7. ASSUME NEW p \in DOMAIN d \ {Root}, ~IsLive(d[p]), d[p].size = 0 PROVE Emptied(s, d, p)
  <2> SUFFICES ASSUME NEW k \in Fields, Parent(k) = p PROVE Own(s, d, k) = Gone
    BY DEF Emptied
  <2>0. k \in All
    BY IdFacts
  <2>1. CASE p = id
    BY <2>0, <2>1, <1>2, <1>5, <1>6, <1>7 DEF Emptied
  <2>2. CASE p # id
    <3>1. p \in DOMAIN c \ {Root} /\ ~IsLive(c[p]) /\ c[p].size = 0
      BY <2>2, <1>2, <1>7
    <3>2. k # id
      BY <3>1 DEF Lost
    <3> QED BY <2>0, <3>1, <3>2, <1>6 DEF CacheOK, Emptied
  <2> QED BY <2>1, <2>2
<1>8. CacheOK(s, d)
  <2>1. Root \in DOMAIN d => Root \in DOMAIN c /\ d[Root] = c[Root]
    BY <1>2
  <2>2. \A p \in DOMAIN d \ {Root} : Forgotten(s, d[p], p) => AllBelow(s, d, p)
    BY <1>4 DEF AllBelow
  <2> QED BY <2>1, <2>2, <1>1, <1>2, <1>3, <1>7 DEF CacheOK
<1>9. ASSUME NEW k \in All
      PROVE  Now(s, d, k) = IF k = id THEN Shown(o)
                            ELSE IF k \in Fields /\ Parent(k) = id
                                 THEN (IF IsLive(o) THEN Own(s, c, k) ELSE Gone)
                                 ELSE Now(s, c, k)
  <2>1. CASE k \in Fields /\ Parent(k) = id
    BY <2>1, <1>2, <1>5, <1>6 DEF Now, Lost
  <2>2. CASE ~(k \in Fields /\ Parent(k) = id)
    <3>1. Lost(d, k) <=> Lost(c, k)
      BY <2>2, <1>2 DEF Lost
    <3> QED BY <3>1, <2>2, <1>5, <1>6 DEF Now
  <2> QED BY <2>1, <2>2
<1> QED BY <1>2, <1>8, <1>9 DEF NowPut

(* Nothing else changes when the object was there and stays, or when no    *)
(* field is left below it.                                                 *)
LEMMA EntryChanges ==
  ASSUME NEW s, NEW c, CacheOK(s, c), NEW id \in DOMAIN c \ {Root}, NEW o, EntryOK(s, id, o),
         Forgotten(s, o, id) => AllBelow(s, c, id),
         o.meta = "Cached" => c[id].meta = "Cached",
         ~Lost(c, id), Emptied(s, c, id) \/ (IsLive(o) /\ IsLive(c[id])),
         NEW d, d = [c EXCEPT ![id] = o]
  PROVE  /\ CacheOK(s, d) /\ View(s, d) = [View(s, c) EXCEPT ![id] = Shown(o)]
         /\ DOMAIN d = DOMAIN c
<1>1. ~IsLive(o) /\ o.size = 0 => Emptied(s, c, id)
  OBVIOUS
<1>2. CacheOK(s, d) /\ DOMAIN d = DOMAIN c /\ NowPut(s, c, d, id, o)
  BY <1>1, EntryPut
<1>3. \A k \in Fields : Parent(k) = id => Now(s, c, k) = IF IsLive(o) THEN Own(s, c, k) ELSE Gone
  BY DEF Now, Lost, Emptied
<1>4. \A k \in All : Now(s, d, k) = IF k = id THEN Shown(o) ELSE Now(s, c, k)
  BY <1>2, <1>3 DEF NowPut
<1>5. View(s, d) = [View(s, c) EXCEPT ![id] = Shown(o)]
  BY <1>4 DEF View
<1> QED BY <1>2, <1>5

(* increase_size and decrease_size change the size of an existing parent.  *)
LEMMA SizeChanges ==
  ASSUME NEW s, NEW c, CacheOK(s, c), NEW id \in All, NEW p, p = Parent(id), p \in DOMAIN c,
         View(s, c)[p].live, NEW by \in Int, c[p].size + by \in Nat,
         NEW d, d = Resize(c, id, by)
  PROVE  /\ CacheOK(s, d) /\ View(s, d) = [View(s, c) EXCEPT ![p] = Resized(@, c[p].size + by)]
         /\ DOMAIN d = DOMAIN c
<1>1. /\ DOMAIN c \subseteq All /\ c = [k \in DOMAIN c |-> c[k]] /\ IsFiniteSet(DOMAIN c)
      /\ \A k \in DOMAIN c : Parent(k) \in DOMAIN c
      /\ \A k \in DOMAIN c \ {Root} : EntryOK(s, k, c[k])
      /\ c[p] \in RuntimeObjects
  BY DEF CacheOK, EntryOK
<1> DEFINE o == [c[p] EXCEPT !.size = c[p].size + by, !.dirty = TRUE]
<1>2. /\ DOMAIN d = DOMAIN c /\ d[p] = o /\ (\A k \in DOMAIN c : k # p => d[k] = c[k])
      /\ d = [k \in DOMAIN d |-> d[k]]
  <2>1. d = [c EXCEPT ![p].size = @ + by, ![p].dirty = TRUE]
    BY DEF Resize
  <2>2. [c EXCEPT ![p].size = @ + by, ![p].dirty = TRUE] = [c EXCEPT ![p] = o]
    BY <1>1 DEF RuntimeObjects
  <2> HIDE DEF o
  <2> QED BY <2>1, <2>2, <1>1, ZenonT(30)
<1>3. /\ o \in RuntimeObjects /\ o.meta = c[p].meta /\ o.dirty = TRUE /\ o.owner = c[p].owner
      /\ o.flag = c[p].flag /\ o.size = c[p].size + by /\ o.value = c[p].value /\ o.pointer = c[p].pointer
  BY <1>1 DEF RuntimeObjects
<1> HIDE DEF o
<1>4. Exists(c[p].value) /\ p \in All /\ p \notin Fields
  <2>1. p \in All /\ p \notin Fields
    BY <1>1, IdFacts
  <2> QED BY <2>1 DEF View, Now, Own, Lost, Shown, Gone
<1>a. IsLive(c[p])
  <2>1. CASE p = Root
    BY <2>1 DEF CacheOK, IsLive
  <2>2. CASE p # Root
    BY <2>2, <1>4, EntryFacts
  <2> QED BY <2>1, <2>2
<1>b. \A k : Lost(d, k) <=> Lost(c, k)
  BY <1>2, <1>3 DEF Lost, IsLive
<1>5. Shown(o) = Resized(Now(s, c, p), c[p].size + by)
  <2> DEFINE hm == Exists(c[p].pointer)
             n == c[p].size + by
  <2>1. Shown(o) = Thing(c[p].value.v, c[p].owner, c[p].flag, n, hm)
    <3>1. Exists(o.value)
      BY <1>3, <1>4
    <3> QED BY <3>1, <1>3, Zenon DEF Shown
  <2>2. Now(s, c, p) = Thing(c[p].value.v, c[p].owner, c[p].flag, c[p].size, hm)
    BY <1>4, Zenon DEF Shown, Now, Own, Lost
  <2> HIDE DEF hm, n
  <2>3. Resized(Now(s, c, p), n) = Thing(c[p].value.v, c[p].owner, c[p].flag, n, hm)
    <3> DEFINE t == Now(s, c, p)
    <3>1. t.value = c[p].value.v /\ t.owner = c[p].owner /\ t.flag = c[p].flag /\ t.home = hm
      BY <2>2 DEF Thing
    <3> HIDE DEF t
    <3>2. Resized(t, n) = Thing(c[p].value.v, c[p].owner, c[p].flag, n, hm)
      BY <3>1, Zenon DEF Resized
    <3> QED BY <3>2 DEF t
  <2> QED BY <2>1, <2>3 DEF n
<1>6. View(s, d) = [View(s, c) EXCEPT ![p] = Resized(@, c[p].size + by)]
  <2>1. \A k \in All : Now(s, d, k) = IF k = p THEN Resized(Now(s, c, p), c[p].size + by) ELSE Now(s, c, k)
    <3>1. \A k \in All : k # p => Own(s, d, k) = Own(s, c, k)
      BY <1>2 DEF Own
    <3>2. Now(s, d, p) = Shown(o)
      BY <1>2, <1>4 DEF Now, Own, Lost
    <3> QED BY <3>1, <3>2, <1>b, <1>5 DEF Now
  <2> QED BY <2>1, <1>4 DEF View
<1>7. \A k \in DOMAIN d \ {Root} : EntryOK(s, k, d[k])
  <2>1. p # Root => EntryOK(s, p, o)
    <3> SUFFICES ASSUME p # Root PROVE EntryOK(s, p, o)
      OBVIOUS
    <3>1. EntryOK(s, p, c[p])
      BY <1>1
    <3>2. IF p \in DOMAIN s THEN OldEntry(o, s[p]) ELSE NewEntry(o)
      BY <3>1, <1>3 DEF EntryOK, OldEntry, NewEntry
    <3>3. IsLive(o) /\ o.pointer.st = "None" => is_embeded(o)
      BY <3>1, <1>3 DEF EntryOK, IsLive, is_embeded
    <3> QED BY <3>2, <3>3, <1>3 DEF EntryOK
  <2> QED BY <2>1, <1>1, <1>2
<1>8. CacheOK(s, d)
  <2>1. \A q \in DOMAIN d : d[q].meta = c[q].meta
    BY <1>2, <1>3
  <2>2. ASSUME NEW q \in DOMAIN d \ {Root}, Forgotten(s, d[q], q), NEW k \in DOMAIN s, Parent(k) = q
        PROVE  k \in DOMAIN d /\ d[k].meta # "Cached"
    <3>1. Forgotten(s, c[q], q) /\ q \in DOMAIN c \ {Root}
      BY <2>1, <2>2, <1>2 DEF Forgotten
    <3>2. k \in DOMAIN c /\ c[k].meta # "Cached"
      BY <3>1, <2>2 DEF CacheOK, AllBelow
    <3> QED BY <3>2, <2>1, <1>2
  <2>3. Root \in DOMAIN d =>
          LET q == d[Root]
          IN /\ q.meta = "Cached" /\ q.owner = "moveos_std" /\ q.flag = {"shared"}
             /\ q \in RuntimeObjects /\ q.value = CachedValue(Nothing) /\ q.pointer = CachedValue(TRUE)
             /\ ~q.dirty => q.size = s[Root].size
    <3>1. CASE p = Root
      BY <3>1, <1>2, <1>3, ZenonT(30) DEF CacheOK
    <3>2. CASE p # Root
      BY <3>2, <1>2 DEF CacheOK
    <3> QED BY <3>1, <3>2
  <2>4. \A q \in DOMAIN d \ {Root} : Forgotten(s, d[q], q) => AllBelow(s, d, q)
    BY <2>2 DEF AllBelow
  <2>5. ASSUME NEW q \in DOMAIN d \ {Root}, ~IsLive(d[q]), d[q].size = 0 PROVE Emptied(s, d, q)
    <3>1. q # p
      BY <2>5, <2>1, <1>2, <1>a DEF IsLive
    <3>2. Emptied(s, c, q)
      BY <3>1, <2>5, <1>2 DEF CacheOK
    <3>3. \A k \in Fields : Own(s, d, k) = Own(s, c, k)
      BY <1>2, <1>4 DEF Own
    <3> QED BY <3>2, <3>3 DEF Emptied
  <2> QED BY <1>1, <1>2, <1>7, <2>3, <2>4, <2>5 DEF CacheOK
<1> QED BY <1>2, <1>6, <1>8

(* RuntimeObject::move_to on an entry without a value.                     *)
LEMMA EntryCreated ==
  ASSUME NEW s, NEW c, CacheOK(s, c), NEW id \in DOMAIN c \ {Root}, ~Exists(c[id].value),
         NEW v \in Values, NEW q, q = move_to(c[id], v)
  PROVE  EntryOK(s, id, q) /\ Shown(q) = Infant(v) /\ q.meta # "Cached"
<1> DEFINE o == c[id]
<1>1. EntryOK(s, id, o) /\ o \in RuntimeObjects /\ ~IsLive(o) /\ ~Exists(o.pointer)
  BY EntryFacts
<1>0. q = move_to(o, v)
  OBVIOUS
<1> HIDE DEF o
<1> DEFINE m == init_meta(o)
           p == MoveTo(o.pointer, TRUE)
           n == WithPointer(m, p)
           r == WithValue(n, MoveTo(o.value, v))
<1>2. /\ m \in RuntimeObjects /\ m.meta = "Fresh" /\ m.dirty = TRUE /\ m.owner = SystemOwner
      /\ m.flag = {} /\ m.size = 0
  <2>1. m = [o EXCEPT !.meta = "Fresh", !.dirty = TRUE, !.owner = SystemOwner, !.flag = {}, !.size = 0]
    BY <1>1 DEF init_meta
  <2> HIDE DEF m
  <2>2. m \in RuntimeObjects
    BY <2>1, <1>1 DEF RuntimeObjects
  <2>3. m.meta = "Fresh" /\ m.dirty = TRUE /\ m.owner = SystemOwner
    BY <2>1, <1>1 DEF RuntimeObjects
  <2>4. m.flag = {} /\ m.size = 0
    BY <2>1, <1>1 DEF RuntimeObjects
  <2> QED BY <2>2, <2>3, <2>4
<1>3. /\ p \in PointerSlots /\ MoveFrom(p) \in PointerSlots /\ MoveTo(o.value, v) \in ValueSlots
  <2>1. o.value \in ValueSlots /\ o.pointer \in PointerSlots
    BY <1>1, EntryTypes
  <2>2. p \in PointerSlots /\ MoveTo(o.value, v) \in ValueSlots
    BY <2>1, SlotTypes
  <2> HIDE DEF p
  <2> QED BY <2>2, SlotTypes
<1>4. /\ q.meta = "Fresh" /\ q.dirty = TRUE /\ q.owner = SystemOwner /\ q.flag = {} /\ q.size = 0
      /\ q.value = MoveTo(o.value, v) /\ q.pointer = MoveFrom(p) /\ q \in RuntimeObjects
  <2> HIDE DEF m
  <2>1. q = [n EXCEPT !.value = MoveTo(o.value, v), !.pointer = MoveFrom(n.pointer)]
    BY <1>0 DEF move_to, WithPointer, m
  <2> HIDE DEF p
  <2>2. /\ n \in RuntimeObjects /\ n.pointer = p /\ n.meta = m.meta /\ n.dirty = m.dirty
        /\ n.owner = m.owner /\ n.flag = m.flag /\ n.size = m.size
    <3>1. OnlyPointer(n, m, p)
      BY <1>2, <1>3, OtherPointer
    <3> HIDE DEF n
    <3> QED BY <3>1 DEF OnlyPointer
  <2> HIDE DEF n
  <2> DEFINE g == MoveTo(o.value, v)
             k == MoveFrom(p)
  <2>3. q = [n EXCEPT !.value = g, !.pointer = k]
    BY <2>1, <2>2
  <2>4. g \in ValueSlots /\ k \in PointerSlots
    BY <1>3
  <2> HIDE DEF g, k
  <2>5. /\ r \in RuntimeObjects /\ r.value = g /\ r.meta = n.meta /\ r.dirty = n.dirty
        /\ r.owner = n.owner /\ r.flag = n.flag /\ r.size = n.size
    <3>1. OnlyValue(r, n, g)
      BY <2>2, <2>4, OtherValue DEF g
    <3> HIDE DEF r
    <3> QED BY <3>1 DEF OnlyValue
  <2>6. q = WithPointer(r, k)
    <3>1. r = [n EXCEPT !.value = g]
      BY DEF WithValue, g
    <3> HIDE DEF r
    <3>2. q = [r EXCEPT !.pointer = k]
      BY <3>1, <2>3, <2>2 DEF RuntimeObjects
    <3> QED BY <3>2 DEF WithPointer
  <2> HIDE DEF r
  <2>7. /\ q \in RuntimeObjects /\ q.pointer = k /\ q.value = r.value /\ q.meta = r.meta /\ q.dirty = r.dirty
        /\ q.owner = r.owner /\ q.flag = r.flag /\ q.size = r.size
    <3>1. OnlyPointer(q, r, k)
      BY <2>4, <2>5, <2>6, OtherPointer
    <3> QED BY <3>1 DEF OnlyPointer
  <2> QED BY <2>2, <2>5, <2>7, <1>2 DEF g, k
<1>5. IF id \in DOMAIN s
      THEN /\ o.meta = "Deleted" /\ o.value.st = "Deleted" /\ o.pointer.st \in {"None", "Deleted"}
      ELSE /\ o.meta = "None" /\ o.value.st = "None" /\ o.pointer.st = "None"
  BY <1>1 DEF EntryOK, OldEntry, NewEntry, IsLive, None
<1>6. /\ q.value.v = v /\ q.value.st = (IF id \in DOMAIN s THEN "Dirty" ELSE "Fresh")
      /\ q.pointer.st \in {"None", "Deleted"} /\ (id \notin DOMAIN s => q.pointer.st = "None")
  BY <1>4, <1>5 DEF MoveTo, MoveFrom
<1>7. EntryOK(s, id, q)
  BY <1>4, <1>6 DEF EntryOK, OldEntry, NewEntry, is_embeded
<1>8. Shown(q) = Infant(v)
  <2>1. Exists(q.value) /\ Exists(q.pointer) = FALSE
    BY <1>6 DEF Exists
  <2> QED BY <2>1, <1>4, <1>6 DEF Shown, Infant
<1> QED BY <1>4, <1>7, <1>8

(* RuntimeObject::move_from on an entry whose handle is out.               *)
LEMMA EntryRemoved ==
  ASSUME NEW s, NEW c, CacheOK(s, c), NEW id \in DOMAIN c \ {Root}, Exists(c[id].value),
         ~Exists(c[id].pointer), ~(c[id].meta = "Fresh" /\ c[id].value.st = "Dirty"),
         NEW q, q = move_from(c[id])
  PROVE  /\ EntryOK(s, id, q) /\ Shown(q) = Gone
         /\ q.meta \in {"None", "Deleted"} /\ q.size = c[id].size
<1> DEFINE o == c[id]
           m == drop_meta(o)
           g == MoveFrom(o.value)
<1>1. /\ EntryOK(s, id, o) /\ o \in RuntimeObjects /\ IsLive(o) /\ ~Exists(o.pointer)
      /\ ~(o.meta = "Fresh" /\ o.value.st = "Dirty") /\ q = WithValue(m, g)
  BY EntryFacts DEF move_from, WithValue
<1> HIDE DEF o
<1>2. /\ q.meta = (IF o.meta = "Fresh" THEN "None" ELSE "Deleted") /\ q.value = g
      /\ q.pointer = o.pointer /\ q.size = o.size /\ q \in RuntimeObjects
  <2>1. /\ m \in RuntimeObjects /\ m.pointer = o.pointer /\ m.size = o.size
        /\ m.meta = (IF o.meta = "Fresh" THEN "None" ELSE "Deleted")
    <3> DEFINE x == IF o.meta = "Fresh" THEN "None" ELSE "Deleted"
    <3>1. m = [o EXCEPT !.meta = x] /\ x \in {"None", "Deleted"}
      BY DEF drop_meta
    <3> HIDE DEF m, x
    <3>2. m \in RuntimeObjects
      BY <3>1, <1>1 DEF RuntimeObjects
    <3>3. m.pointer = o.pointer /\ m.size = o.size /\ m.meta = x
      BY <3>1, <1>1 DEF RuntimeObjects
    <3> QED BY <3>2, <3>3 DEF x
  <2>2. g \in ValueSlots
    BY <1>1, EntryTypes, SlotTypes
  <2> HIDE DEF m, g
  <2>3. q \in RuntimeObjects /\ q.value = g /\ q.pointer = m.pointer /\ q.meta = m.meta /\ q.size = m.size
    <3>1. OnlyValue(q, m, g)
      BY <1>1, <2>1, <2>2, OtherValue
    <3> QED BY <3>1 DEF OnlyValue
  <2> QED BY <2>1, <2>3
<1>3. IF id \in DOMAIN s
      THEN /\ o.meta = "Cached" /\ o.value.st \in {"Clean", "Dirty"} /\ o.pointer.st \in {"None", "Deleted"}
      ELSE /\ o.meta = "Fresh" /\ o.value.st = "Fresh" /\ o.pointer.st = "None"
  BY <1>1 DEF EntryOK, OldEntry, NewEntry, IsLive, Exists
<1>4. IF id \in DOMAIN s
      THEN q.meta = "Deleted" /\ q.value.st = "Deleted" /\ q.value.v = Nothing /\ q.pointer.st \in {"None", "Deleted"}
      ELSE q.meta = "None" /\ q.value = None /\ q.pointer.st = "None"
  BY <1>2, <1>3 DEF MoveFrom, None
<1>5. ~IsLive(q) /\ ~Exists(q.value)
  BY <1>4 DEF IsLive, Exists, None
<1>6. EntryOK(s, id, q)
  BY <1>2, <1>4, <1>5 DEF EntryOK, OldEntry, NewEntry
<1> QED BY <1>2, <1>4, <1>5, <1>6 DEF Shown, o

(* A write through a reference to the value.                               *)
LEMMA EntryWritten ==
  ASSUME NEW s, NEW c, CacheOK(s, c), NEW id \in DOMAIN c \ {Root}, Exists(c[id].value),
         NEW v \in Values, NEW q, q = WithValue(c[id], WriteRef(c[id].value, v))
  PROVE  /\ EntryOK(s, id, q) /\ Shown(q) = Rewritten(Shown(c[id]), v) /\ q.meta = c[id].meta
         /\ Forgotten(s, q, id) => AllBelow(s, c, id)
<1> DEFINE o == c[id]
           g == WriteRef(o.value, v)
<1>1. /\ EntryOK(s, id, o) /\ o \in RuntimeObjects /\ IsLive(o) /\ Exists(o.value)
      /\ (Forgotten(s, o, id) => AllBelow(s, c, id)) /\ q = WithValue(o, g)
  BY EntryFacts
<1> HIDE DEF o
<1>2. /\ q.meta = o.meta /\ q.dirty = o.dirty /\ q.owner = o.owner /\ q.flag = o.flag /\ q.size = o.size
      /\ q.value = g /\ q.pointer = o.pointer /\ q \in RuntimeObjects
  <2>1. g \in ValueSlots
    BY <1>1, EntryTypes, SlotTypes
  <2> HIDE DEF g
  <2>2. OnlyValue(q, o, g)
    BY <1>1, <2>1, OtherValue
  <2> QED BY <2>2 DEF OnlyValue
<1>3. q.value.v = v /\ q.value.st = (IF o.value.st = "Fresh" THEN "Fresh" ELSE "Dirty") /\ Exists(q.value)
  BY <1>2 DEF WriteRef, Exists
<1>4. EntryOK(s, id, q)
  <2>1. IF id \in DOMAIN s THEN OldEntry(q, s[id]) ELSE NewEntry(q)
    BY <1>1, <1>2, <1>3 DEF EntryOK, OldEntry, NewEntry, IsLive
  <2>2. IsLive(q) /\ q.pointer.st = "None" => is_embeded(q)
    BY <1>1, <1>2 DEF EntryOK, IsLive, is_embeded
  <2> QED BY <2>1, <2>2, <1>2 DEF EntryOK
<1>5. Shown(q) = Rewritten(Shown(o), v)
  <2> DEFINE hm == Exists(o.pointer)
  <2>1. Shown(q) = Thing(v, o.owner, o.flag, o.size, hm)
    BY <1>2, <1>3, Zenon DEF Shown
  <2>2. Shown(o) = Thing(o.value.v, o.owner, o.flag, o.size, hm)
    BY <1>1, Zenon DEF Shown
  <2> HIDE DEF hm
  <2>3. Shown(o).owner = o.owner /\ Shown(o).flag = o.flag /\ Shown(o).size = o.size /\ Shown(o).home = hm
    BY <2>2 DEF Thing
  <2> QED BY <2>1, <2>3, Zenon DEF Rewritten
<1>6. Forgotten(s, q, id) => AllBelow(s, c, id)
  BY <1>1, <1>2 DEF Forgotten
<1> QED BY <1>2, <1>4, <1>5, <1>6 DEF o

(* A pointer that was at home before the transaction is taken.             *)
LEMMA EntryTaken ==
  ASSUME NEW s, NEW c, CacheOK(s, c), NEW id \in DOMAIN c \ {Root}, Exists(c[id].pointer),
         c[id].pointer.st # "Fresh", NEW q, q = WithPointer(c[id], MoveFrom(c[id].pointer))
  PROVE  /\ EntryOK(s, id, q) /\ Shown(q) = Taken(Shown(c[id])) /\ q.meta = c[id].meta
         /\ Forgotten(s, q, id) => AllBelow(s, c, id)
<1> DEFINE o == c[id]
           g == MoveFrom(o.pointer)
<1>1. /\ EntryOK(s, id, o) /\ o \in RuntimeObjects /\ IsLive(o) /\ Exists(o.value) /\ Exists(o.pointer)
      /\ (Forgotten(s, o, id) => AllBelow(s, c, id)) /\ o.pointer.st # "Fresh" /\ q = WithPointer(o, g)
  BY EntryFacts
<1> HIDE DEF o
<1>2. /\ q.meta = o.meta /\ q.dirty = o.dirty /\ q.owner = o.owner /\ q.flag = o.flag /\ q.size = o.size
      /\ q.value = o.value /\ q.pointer = [st |-> "Deleted", v |-> Nothing] /\ q \in RuntimeObjects
  <2>1. g \in PointerSlots
    BY <1>1, EntryTypes, SlotTypes
  <2>2. g = [st |-> "Deleted", v |-> Nothing]
    BY <1>1 DEF MoveFrom
  <2> HIDE DEF g
  <2>3. /\ q.meta = o.meta /\ q.dirty = o.dirty /\ q.owner = o.owner /\ q.flag = o.flag /\ q.size = o.size
        /\ q.value = o.value /\ q.pointer = g /\ q \in RuntimeObjects
    <3>1. OnlyPointer(q, o, g)
      BY <1>1, <2>1, OtherPointer
    <3> QED BY <3>1 DEF OnlyPointer
  <2> QED BY <2>2, <2>3
<1>3. EntryOK(s, id, q)
  <2>1. id \in DOMAIN s
    BY <1>1 DEF EntryOK, NewEntry, Exists
  <2>2. OldEntry(q, s[id])
    BY <2>1, <1>1, <1>2 DEF EntryOK, OldEntry, IsLive
  <2> QED BY <2>1, <2>2, <1>2 DEF EntryOK
<1>4. Shown(q) = Taken(Shown(o))
  <2>1. Exists(q.pointer) = FALSE /\ Exists(o.pointer) = TRUE /\ Exists(q.value) /\ Exists(o.value)
    BY <1>1, <1>2 DEF Exists
  <2>2. Shown(o) = Thing(o.value.v, o.owner, o.flag, o.size, TRUE)
    BY <2>1 DEF Shown
  <2>3. Shown(q) = Thing(o.value.v, o.owner, o.flag, o.size, FALSE)
    BY <2>1, <1>2 DEF Shown
  <2>4. /\ Shown(o).value = o.value.v /\ Shown(o).owner = o.owner
        /\ Shown(o).flag = o.flag /\ Shown(o).size = o.size
    BY <2>2 DEF Thing
  <2> QED BY <2>3, <2>4, Zenon DEF Taken, Given
<1>5. Forgotten(s, q, id) => AllBelow(s, c, id)
  BY <1>1, <1>2 DEF Forgotten
<1> QED BY <1>2, <1>3, <1>4, <1>5 DEF o

(* A pointer is given back with an owner and flags.                        *)
LEMMA EntryGiven ==
  ASSUME NEW s, NEW c, CacheOK(s, c), NEW id \in DOMAIN c \ {Root}, IsLive(c[id]),
         ~Exists(c[id].pointer), NEW u \in Anyone, NEW f \in SUBSET Flags,
         NEW q, q = return_pointer(c[id], u, f)
  PROVE  /\ EntryOK(s, id, q) /\ q.meta = c[id].meta
         /\ Shown(q) = Given(Shown(c[id]), u, f)
         /\ Forgotten(s, q, id) => AllBelow(s, c, id)
<1> DEFINE o == c[id]
<1>1. /\ EntryOK(s, id, o) /\ o \in RuntimeObjects /\ IsLive(o) /\ Exists(o.value) /\ ~Exists(o.pointer)
      /\ (Forgotten(s, o, id) => AllBelow(s, c, id)) /\ q = return_pointer(o, u, f)
  BY EntryFacts
<1> HIDE DEF o
<1>2. /\ q.meta = o.meta /\ q.dirty = TRUE /\ q.owner = u /\ q.flag = f /\ q.size = o.size
      /\ q.value = o.value /\ q.pointer = [st |-> IF o.pointer.st = "None" THEN "Fresh" ELSE "Dirty", v |-> TRUE]
      /\ q \in RuntimeObjects
  <2> DEFINE g == MoveTo(o.pointer, TRUE)
             m == [o EXCEPT !.owner = u, !.flag = f, !.dirty = TRUE]
  <2>1. g \in PointerSlots /\ g = [st |-> IF o.pointer.st = "None" THEN "Fresh" ELSE "Dirty", v |-> TRUE]
    BY <1>1, EntryTypes, SlotTypes DEF MoveTo
  <2>2. /\ m \in RuntimeObjects /\ m.meta = o.meta /\ m.dirty = TRUE /\ m.owner = u /\ m.flag = f
        /\ m.size = o.size /\ m.value = o.value
    BY <1>1 DEF RuntimeObjects, Anyone
  <2>3. q = WithPointer(m, g)
    <3>1. q = [o EXCEPT !.pointer = g, !.owner = u, !.flag = f, !.dirty = TRUE]
      BY <1>1 DEF return_pointer
    <3> HIDE DEF g
    <3> QED BY <3>1, <1>1 DEF RuntimeObjects, WithPointer
  <2> HIDE DEF g, m
  <2>4. /\ q \in RuntimeObjects /\ q.pointer = g /\ q.value = m.value
        /\ q.meta = m.meta /\ q.dirty = m.dirty /\ q.owner = m.owner /\ q.flag = m.flag /\ q.size = m.size
    <3>1. OnlyPointer(q, m, g)
      BY <2>1, <2>2, <2>3, OtherPointer
    <3> QED BY <3>1 DEF OnlyPointer
  <2> QED BY <2>1, <2>2, <2>4
<1>3. EntryOK(s, id, q)
  <2>1. IF id \in DOMAIN s THEN OldEntry(q, s[id]) ELSE NewEntry(q)
    BY <1>1, <1>2 DEF EntryOK, OldEntry, NewEntry, IsLive, Exists
  <2> QED BY <2>1, <1>2 DEF EntryOK
<1>4. Shown(q) = Given(Shown(o), u, f)
  <2>1. Exists(q.pointer) = TRUE /\ Exists(o.pointer) = FALSE /\ Exists(q.value) /\ Exists(o.value)
    BY <1>1, <1>2 DEF Exists
  <2>2. Shown(o) = Thing(o.value.v, o.owner, o.flag, o.size, FALSE)
    BY <2>1 DEF Shown
  <2>3. Shown(q) = Thing(o.value.v, u, f, o.size, TRUE)
    BY <2>1, <1>2 DEF Shown
  <2>4. /\ Shown(o).value = o.value.v /\ Shown(o).owner = o.owner
        /\ Shown(o).flag = o.flag /\ Shown(o).size = o.size
    BY <2>2 DEF Thing
  <2> QED BY <2>3, <2>4, Zenon DEF Taken, Given
<1>5. Forgotten(s, q, id) => AllBelow(s, c, id)
  BY <1>1, <1>2 DEF Forgotten
<1> QED BY <1>2, <1>3, <1>4, <1>5 DEF o

--------------------------------------------------------------------------------
(* What the operations keep of the objects.                                *)

(* Objects k of w2 and w differ in their size at most.                     *)
Alike(a, b) ==
  /\ a.live <=> b.live
  /\ a.value = b.value /\ a.owner = b.owner /\ a.flag = b.flag
  /\ a.home <=> b.home

(* A resized object.                                                       *)
LEMMA ResizedFacts ==
  ASSUME NEW t \in Things, t.live, NEW n \in Nat
  PROVE  /\ Alike(Resized(t, n), t) /\ Resized(t, n).size = n /\ Resized(t, n) \in Things
<1> DEFINE q == Resized(t, n)
<1>1. q.live /\ q.value = t.value /\ q.owner = t.owner /\ q.flag = t.flag /\ q.size = n /\ q.home = t.home
  BY DEF Resized, Thing
<1>2. q \in Things
  BY DEF Resized, Thing, Things
<1> HIDE DEF q
<1>3. Alike(q, t)
  BY <1>1 DEF Alike, Things
<1> QED BY <1>1, <1>2, <1>3 DEF q

(* A new object.                                                           *)
LEMMA InfantFacts ==
  ASSUME NEW v \in Values
  PROVE  /\ Infant(v) \in Things /\ Infant(v).live /\ Infant(v).value = v /\ Infant(v).owner = SystemOwner
         /\ Infant(v).flag = {} /\ Infant(v).size = 0 /\ ~Infant(v).home
<1>1. /\ Infant(v).live /\ Infant(v).value = v /\ Infant(v).owner = SystemOwner
      /\ Infant(v).flag = {} /\ Infant(v).size = 0 /\ ~Infant(v).home
  BY DEF Infant, Thing
<1>2. Infant(v) \in Things
  BY DEF Infant, Thing, Things, Anyone
<1> QED BY <1>1, <1>2

(* An object that is not there.                                            *)
LEMMA GoneFacts ==
  /\ Gone \in Things /\ ~Gone.live /\ Gone.value = Nothing /\ Gone.owner = SystemOwner
  /\ Gone.flag = {} /\ Gone.size = 0 /\ ~Gone.home
BY DEF Gone, Things, Anyone

(* Sets that are counted are finite.                                       *)
LEMMA CountedSets ==
  ASSUME NEW w, ThingsOK(w)
  PROVE  /\ \A p : IsFiniteSet(Kids(w, p))
         /\ \A k \in Named : IsFiniteSet(HeldBy(w, k)) /\ HeldBy(w, k) \subseteq Alive(w)
<1>1. IsFiniteSet(Alive(w))
  BY DEF ThingsOK
<1>2. \A p : Kids(w, p) \subseteq Alive(w)
  BY DEF Kids, Alive
<1>3. \A k \in Named : HeldBy(w, k) \subseteq Alive(w)
  <2> SUFFICES ASSUME NEW k \in Named, NEW i \in IDs, w[i].value = k PROVE w[i].live
    BY DEF HeldBy, Alive
  <2>1. w[i].value # Nothing
    BY ValueFacts
  <2> QED BY <2>1, GoneFacts DEF ThingsOK
<1> QED BY <1>1, <1>2, <1>3, FS_Subset

(* Counting one more or one less.                                          *)
LEMMA CountOne ==
  ASSUME NEW S, IsFiniteSet(S), NEW x
  PROVE  /\ Cardinality(S) \in Nat /\ (Cardinality(S) = 0 <=> S = {})
         /\ x \notin S => Cardinality(S \cup {x}) = Cardinality(S) + 1
         /\ x \in S => Cardinality(S \ {x}) = Cardinality(S) - 1
BY FS_CardinalityType, FS_EmptySet, FS_AddElement, FS_RemoveElement

(* An object with value v is created at id, or the one at id is removed.   *)
Grown(w, id, v) ==
  [[w EXCEPT ![id] = Infant(v)]
     EXCEPT ![Parent(id)] = Resized(w[Parent(id)], w[Parent(id)].size + 1)]
Pruned(w, id) ==
  [[w EXCEPT ![id] = Gone] EXCEPT ![Parent(id)] = Resized(w[Parent(id)], w[Parent(id)].size - 1)]

(* The program gets the handle of a new object and gives up the one in its *)
(* value, or the other way round.                                          *)
HandIn(h2, h, id, v) ==
  /\ h2 \in [Named -> Int]
  /\ \A k \in Named : h2[k] = h[k] + (IF k = id THEN 1 ELSE 0) - (IF k = v THEN 1 ELSE 0)
HandOut(h2, h, id, v) ==
  /\ h2 \in [Named -> Int]
  /\ \A k \in Named : h2[k] = h[k] - (IF k = id THEN 1 ELSE 0) + (IF k = v THEN 1 ELSE 0)

(* An object is created below an existing one; a handle may go into it.    *)
LEMMA WorldCreates ==
  ASSUME NEW w, NEW h, NEW r, WorldOK(w, h, r), NEW id \in IDs,
         ~w[id].live, w[Parent(id)].live, NEW v \in Values,
         v \in Named => h[v] > 0 /\ v # id /\ w[v].flag = {}, NEW h2, HandIn(h2, h, id, v)
  PROVE  WorldOK(Grown(w, id, v), h2, r)
<1> DEFINE p == Parent(id)
           w2 == Grown(w, id, v)
<1>0. /\ h2 \in [Named -> Int]
      /\ \A k \in Named : h2[k] = h[k] + (IF k = id THEN 1 ELSE 0) - (IF k = v THEN 1 ELSE 0)
  BY DEF HandIn
<1>1. ThingsOK(w) /\ SizesOK(w) /\ HandlesOK(w, h) /\ FlagsOK(w) /\ RefsOK(w, r)
  BY DEF WorldOK
<1>2. w \in [All -> Things] /\ p \in All /\ p # id /\ id # Root /\ id \in All
  BY <1>1, IdFacts DEF ThingsOK
<1>3. w[p].size \in Nat /\ w[p] \in Things
  BY <1>2 DEF Things
<1>4. /\ w2[id] = Infant(v) /\ w2[p] = Resized(w[p], w[p].size + 1)
      /\ \A k \in All \ {id, p} : w2[k] = w[k]
  BY <1>2 DEF Grown
<1>44. w2 = [k \in All |-> w2[k]]
  BY <1>2 DEF Grown
<1> HIDE DEF w2, p
<1>45. p = Parent(id) /\ w[p].live
  BY DEF p
<1>5. /\ w2[id].live /\ w2[id].value = v /\ w2[id].owner = SystemOwner /\ w2[id].flag = {}
      /\ w2[id].size = 0 /\ ~w2[id].home /\ w2[id] \in Things
  BY <1>4, InfantFacts
<1>6. Alike(w2[p], w[p]) /\ w2[p].size = w[p].size + 1 /\ w2[p] \in Things
  BY <1>3, <1>4, <1>45, ResizedFacts
<1>7. w2 \in [All -> Things]
  BY <1>2, <1>5, <1>6, <1>4, <1>44
<1>8. \A k \in All \ {id} : Alike(w2[k], w[k])
  BY <1>4, <1>6 DEF Alike
<1>9. w[id] = Gone /\ w[id].value = Nothing /\ w[id].size = 0 /\ ~w[id].home
  BY <1>1, GoneFacts DEF ThingsOK
<1> HIDE DEF Alike
<1>10. ThingsOK(w2)
  <2>1. \A i \in IDs : IF w2[i].live THEN w2[i].value \in Values ELSE w2[i] = Gone
    <3> SUFFICES ASSUME NEW i \in IDs
                 PROVE  IF w2[i].live THEN w2[i].value \in Values ELSE w2[i] = Gone
      OBVIOUS
    <3>1. CASE i = id
      BY <3>1, <1>5
    <3>2. CASE i = p
      BY <3>2, <1>6, <1>1, <1>45 DEF Alike, ThingsOK
    <3>3. CASE i # id /\ i # p
      BY <3>3, <1>4, <1>1 DEF ThingsOK
    <3> QED BY <3>1, <3>2, <3>3
  <2>2. IsFiniteSet(Alive(w2))
    <3>1. Alive(w2) = Alive(w) \cup {id}
      BY <1>5, <1>8 DEF Alive, Alike
    <3>2. IsFiniteSet(Alive(w))
      BY <1>1 DEF ThingsOK
    <3> QED BY <3>1, <3>2, FS_AddElement
  <2>3. \A i \in IDs : w2[i].live => w2[Parent(i)].live
    <3>1. \A i \in All : w2[i].live <=> (w[i].live \/ i = id)
      BY <1>5, <1>8 DEF Alike
    <3> QED BY <3>1, <1>1, <1>45, IdFacts DEF ThingsOK
  <2>4. w2[Root].live /\ w2[Root].value = Nothing
    BY <1>1, <1>2, <1>8 DEF ThingsOK, Alike
  <2> QED BY <1>7, <2>1, <2>2, <2>3, <2>4 DEF ThingsOK
<1>11. SizesOK(w2)
  <2>1. Kids(w2, p) = Kids(w, p) \cup {id} /\ id \notin Kids(w, p)
    BY <1>5, <1>8, <1>45 DEF Kids, Alike
  <2>2. \A q \in All : q # p => Kids(w2, q) = Kids(w, q)
    BY <1>5, <1>8, <1>45 DEF Kids, Alike
  <2>3. Cardinality(Kids(w2, p)) = Cardinality(Kids(w, p)) + 1
    <3>1. IsFiniteSet(Kids(w, p))
      BY <1>1, CountedSets
    <3>2. Cardinality(Kids(w, p) \cup {id}) = Cardinality(Kids(w, p)) + 1
      BY <3>1, <2>1, CountOne
    <3> QED BY <3>2, <2>1, Zenon
  <2>4. \A q \in All : q # p => w2[q].size = w[q].size
    BY <1>4, <1>5, <1>9
  <2> QED BY <2>2, <2>3, <2>4, <1>6, <1>1 DEF SizesOK
<1>12. \A k \in Named : /\ HeldBy(w2, k) = IF k = v THEN HeldBy(w, k) \cup {id} ELSE HeldBy(w, k)
                        /\ id \notin HeldBy(w, k)
  <2> SUFFICES ASSUME NEW k \in Named
               PROVE  /\ HeldBy(w2, k) = IF k = v THEN HeldBy(w, k) \cup {id} ELSE HeldBy(w, k)
                      /\ id \notin HeldBy(w, k)
    OBVIOUS
  <2>1. k # Nothing
    BY ValueFacts
  <2>2. \A i \in IDs : w2[i].value = IF i = id THEN v ELSE w[i].value
    BY <1>5, <1>8 DEF Alike
  <2> QED BY <1>9, <2>1, <2>2 DEF HeldBy
<1>13. HandlesOK(w2, h2) /\ h2 \in [Named -> Nat]
  <2> SUFFICES ASSUME NEW k \in Named
               PROVE  /\ h2[k] + Cardinality(HeldBy(w2, k)) + (IF w2[k].home THEN 1 ELSE 0) = IF w2[k].live THEN 1 ELSE 0
                      /\ h2[k] \in Nat
    BY <1>0 DEF HandlesOK
  <2> DEFINE n == Cardinality(HeldBy(w, k))
  <2>1. /\ h[k] + n + (IF w[k].home THEN 1 ELSE 0) = IF w[k].live THEN 1 ELSE 0
        /\ n \in Nat /\ h[k] \in Nat /\ k \in All
        /\ Cardinality(HeldBy(w2, k)) = n + (IF k = v THEN 1 ELSE 0)
    <3>1. IsFiniteSet(HeldBy(w, k))
      BY <1>1, CountedSets
    <3>2. n \in Nat /\ Cardinality(HeldBy(w2, k)) = n + (IF k = v THEN 1 ELSE 0)
      <4>1. n \in Nat
        BY <3>1, CountOne
      <4>2. Cardinality(HeldBy(w, k) \cup {id}) = n + 1
        BY <3>1, <1>12, CountOne
      <4>3. CASE k = v
        <5>1. HeldBy(w2, k) = HeldBy(w, k) \cup {id}
          BY <4>3, <1>12
        <5>2. Cardinality(HeldBy(w2, k)) = n + 1
          BY <5>1, <4>2, Zenon
        <5> QED BY <5>2, <4>1, <4>3
      <4>4. CASE k # v
        <5>1. HeldBy(w2, k) = HeldBy(w, k)
          BY <4>4, <1>12
        <5> QED BY <5>1, <4>1, <4>4
      <4> QED BY <4>3, <4>4
    <3>3. k \in All /\ h[k] \in Nat
      BY IdFacts DEF WorldOK
    <3> QED BY <3>2, <3>3, <1>1 DEF HandlesOK
  <2> HIDE DEF n
  <2>2. CASE k = id
    <3>1. h[k] = 0 /\ n = 0 /\ k # v /\ w2[k].live /\ ~w2[k].home
      BY <2>1, <2>2, <1>5, <1>9
    <3>2. h2[k] = 1 /\ h2[k] \in Nat
      BY <3>1, <1>0, <2>2
    <3> QED BY <3>1, <3>2, <2>1, <2>2
  <2>3. CASE k # id
    <3>1. (w2[k].live <=> w[k].live) /\ (w2[k].home <=> w[k].home)
      BY <2>1, <2>3, <1>8 DEF Alike
    <3>2. h2[k] = h[k] - (IF k = v THEN 1 ELSE 0)
      BY <1>0, <2>1, <2>3
    <3>3. h2[k] + Cardinality(HeldBy(w2, k)) = h[k] + n /\ h2[k] \in Nat
      BY <3>2, <2>1
    <3>4. (IF w2[k].home THEN 1 ELSE 0) = (IF w[k].home THEN 1 ELSE 0)
      BY <3>1
    <3>5. (IF w2[k].live THEN 1 ELSE 0) = (IF w[k].live THEN 1 ELSE 0)
      BY <3>1
    <3> QED BY <3>3, <3>4, <3>5, <2>1
  <2> QED BY <2>2, <2>3
<1>14. FlagsOK(w2)
  <2>1. \A i \in IDs : w2[i].home => w2[i].live /\ ~is_embeded(w2[i])
    <3> SUFFICES ASSUME NEW i \in IDs, w2[i].home PROVE w2[i].live /\ ~is_embeded(w2[i])
      OBVIOUS
    <3>1. i # id
      BY <1>5
    <3>2. Alike(w2[i], w[i])
      BY <3>1, <1>8
    <3> QED BY <3>2, <1>1 DEF Alike, FlagsOK, is_embeded
  <2>2. \A k \in Named : HeldBy(w2, k) # {} => w2[k].flag = {}
    <3> SUFFICES ASSUME NEW k \in Named, HeldBy(w2, k) # {}, k # id PROVE w2[k].flag = {}
      BY <1>5
    <3>1. w[k].flag = {}
      BY <1>12, <1>1 DEF FlagsOK
    <3> QED BY <3>1, <1>8, IdFacts DEF Alike
  <2>3. \A k \in Named : "frozen" \in w2[k].flag => w2[k].owner = SystemOwner /\ w2[k].home
    <3> SUFFICES ASSUME NEW k \in Named, "frozen" \in w2[k].flag PROVE w2[k].owner = SystemOwner /\ w2[k].home
      OBVIOUS
    <3>1. k # id
      BY <1>5
    <3>2. Alike(w2[k], w[k])
      BY <3>1, <1>8, IdFacts
    <3> QED BY <3>2, <1>1 DEF Alike, FlagsOK
  <2>4. \A k \in Fields : ~w2[k].home /\ is_embeded(w2[k])
    <3> SUFFICES ASSUME NEW k \in Fields PROVE ~w2[k].home /\ is_embeded(w2[k])
      OBVIOUS
    <3>1. CASE k = id
      BY <3>1, <1>5 DEF is_embeded
    <3>2. CASE k # id
      <4>1. Alike(w2[k], w[k])
        BY <3>2, <1>8, IdFacts
      <4> QED BY <4>1, <1>1 DEF Alike, FlagsOK, is_embeded
    <3> QED BY <3>1, <3>2
  <2> QED BY <2>1, <2>2, <2>3, <2>4 DEF FlagsOK
<1>15. RefsOK(w2, r)
  <2> SUFFICES ASSUME NEW k \in Named, r[k] # "none"
               PROVE  /\ w2[k].home
                      /\ r[k] \in {"mut", "argmut"} /\ "frozen" \in w2[k].flag => "shared" \in w2[k].flag
    BY DEF RefsOK
  <2>1. w[k].home /\ (r[k] \in {"mut", "argmut"} /\ "frozen" \in w[k].flag => "shared" \in w[k].flag)
    BY <1>1 DEF RefsOK
  <2>2. k # id
    BY <2>1, <1>9
  <2> QED BY <2>1, <2>2, <1>8, IdFacts DEF Alike
<1> QED BY <1>10, <1>11, <1>13, <1>14, <1>15 DEF WorldOK, w2

(* An object without fields is removed, whose handle is out; the handle in *)
(* it comes out.                                                           *)
LEMMA WorldRemoves ==
  ASSUME NEW w, NEW h, NEW r, WorldOK(w, h, r), NEW id \in IDs,
         w[id].live, ~w[id].home, Kids(w, id) = {}, id \in Named => h[id] > 0,
         w[Parent(id)].size > 0, NEW h2, HandOut(h2, h, id, w[id].value)
  PROVE  WorldOK(Pruned(w, id), h2, r)
<1> DEFINE p == Parent(id)
           v == w[id].value
           w2 == Pruned(w, id)
<1>0. /\ h2 \in [Named -> Int]
      /\ \A k \in Named : h2[k] = h[k] - (IF k = id THEN 1 ELSE 0) + (IF k = v THEN 1 ELSE 0)
  BY DEF HandOut
<1>1. ThingsOK(w) /\ SizesOK(w) /\ HandlesOK(w, h) /\ FlagsOK(w) /\ RefsOK(w, r) /\ h \in [Named -> Nat]
  BY DEF WorldOK
<1>2. w \in [All -> Things] /\ p \in All /\ p # id /\ id # Root /\ id \in All
  BY <1>1, IdFacts DEF ThingsOK
<1>3. w[p].size - 1 \in Nat /\ w[p].size \in Nat /\ w[p] \in Things /\ w[p].live /\ v \in Values
  BY <1>1, <1>2 DEF Things, ThingsOK
<1>4. /\ w2[id] = Gone /\ w2[p] = Resized(w[p], w[p].size - 1)
      /\ \A k \in All \ {id, p} : w2[k] = w[k]
  BY <1>2 DEF Pruned
<1>44. w2 = [k \in All |-> w2[k]]
  BY <1>2 DEF Pruned
<1> HIDE DEF w2, p, v
<1>45. p = Parent(id) /\ w[p].live /\ v = w[id].value
  BY <1>3 DEF p, v
<1>5. /\ ~w2[id].live /\ w2[id].value = Nothing /\ w2[id].owner = SystemOwner /\ w2[id].flag = {}
      /\ w2[id].size = 0 /\ ~w2[id].home /\ w2[id] \in Things
  BY <1>4, GoneFacts
<1>6. Alike(w2[p], w[p]) /\ w2[p].size = w[p].size - 1 /\ w2[p] \in Things
  BY <1>3, <1>4, <1>45, ResizedFacts
<1>7. w2 \in [All -> Things]
  BY <1>2, <1>5, <1>6, <1>4, <1>44
<1>8. \A k \in All \ {id} : Alike(w2[k], w[k])
  BY <1>4, <1>6 DEF Alike
<1> HIDE DEF Alike
<1>10. ThingsOK(w2)
  <2>1. \A i \in IDs : IF w2[i].live THEN w2[i].value \in Values ELSE w2[i] = Gone
    <3> SUFFICES ASSUME NEW i \in IDs
                 PROVE  IF w2[i].live THEN w2[i].value \in Values ELSE w2[i] = Gone
      OBVIOUS
    <3>1. CASE i = id
      BY <3>1, <1>5, <1>4
    <3>2. CASE i = p
      BY <3>2, <1>6, <1>1, <1>3 DEF Alike, ThingsOK
    <3>3. CASE i # id /\ i # p
      BY <3>3, <1>4, <1>1 DEF ThingsOK
    <3> QED BY <3>1, <3>2, <3>3
  <2>2. IsFiniteSet(Alive(w2))
    <3>1. Alive(w2) \subseteq Alive(w)
      BY <1>5, <1>8 DEF Alive, Alike
    <3>2. IsFiniteSet(Alive(w))
      BY <1>1 DEF ThingsOK
    <3> QED BY <3>1, <3>2, FS_Subset
  <2>3. \A i \in IDs : w2[i].live => w2[Parent(i)].live
    <3>1. \A i \in All : w2[i].live <=> (w[i].live /\ i # id)
      BY <1>5, <1>8 DEF Alike
    <3>2. \A i \in IDs : w[i].live => Parent(i) # id
      BY DEF Kids
    <3> QED BY <3>1, <3>2, <1>1, <1>45, IdFacts DEF ThingsOK
  <2>4. w2[Root].live /\ w2[Root].value = Nothing
    BY <1>1, <1>2, <1>8 DEF ThingsOK, Alike
  <2> QED BY <1>7, <2>1, <2>2, <2>3, <2>4 DEF ThingsOK
<1>11. SizesOK(w2)
  <2>1. Kids(w2, p) = Kids(w, p) \ {id} /\ id \in Kids(w, p)
    BY <1>5, <1>8, <1>45 DEF Kids, Alike
  <2>2. \A q \in All : q # p => Kids(w2, q) = Kids(w, q)
    BY <1>5, <1>8, <1>45 DEF Kids, Alike
  <2>3. Cardinality(Kids(w2, p)) = Cardinality(Kids(w, p)) - 1
    <3>1. IsFiniteSet(Kids(w, p))
      BY <1>1, CountedSets
    <3>2. Cardinality(Kids(w, p) \ {id}) = Cardinality(Kids(w, p)) - 1
      BY <3>1, <2>1, CountOne
    <3> QED BY <3>2, <2>1, Zenon
  <2>4. \A q \in All : q # p => w2[q].size = w[q].size
    <3>1. w[id].size = 0
      <4>1. w[id].size = Cardinality(Kids(w, id))
        BY <1>1, <1>2 DEF SizesOK
      <4> QED BY <4>1, FS_EmptySet
    <3> QED BY <3>1, <1>4, <1>5
  <2> QED BY <2>2, <2>3, <2>4, <1>6, <1>1 DEF SizesOK
<1>12. \A k \in Named : /\ HeldBy(w2, k) = IF k = v THEN HeldBy(w, k) \ {id} ELSE HeldBy(w, k)
                        /\ k = v => id \in HeldBy(w, k)
  <2> SUFFICES ASSUME NEW k \in Named
               PROVE  /\ HeldBy(w2, k) = IF k = v THEN HeldBy(w, k) \ {id} ELSE HeldBy(w, k)
                      /\ k = v => id \in HeldBy(w, k)
    OBVIOUS
  <2>1. k # Nothing
    BY ValueFacts
  <2>2. \A i \in IDs : i # id => w2[i].value = w[i].value
    BY <1>8 DEF Alike
  <2>3. w2[id].value # k /\ w[id].value = v
    BY <2>1, <1>5, <1>45
  <2>4. HeldBy(w2, k) = HeldBy(w, k) \ {id}
    BY <2>2, <2>3 DEF HeldBy
  <2>5. id \in HeldBy(w, k) <=> k = v
    BY <2>3 DEF HeldBy
  <2> QED BY <2>4, <2>5
<1>13. HandlesOK(w2, h2) /\ h2 \in [Named -> Nat]
  <2> SUFFICES ASSUME NEW k \in Named
               PROVE  /\ h2[k] + Cardinality(HeldBy(w2, k)) + (IF w2[k].home THEN 1 ELSE 0) = IF w2[k].live THEN 1 ELSE 0
                      /\ h2[k] \in Nat
    BY <1>0 DEF HandlesOK
  <2> DEFINE n == Cardinality(HeldBy(w, k))
  <2>1. /\ h[k] + n + (IF w[k].home THEN 1 ELSE 0) = IF w[k].live THEN 1 ELSE 0
        /\ n \in Nat /\ h[k] \in Nat /\ h2[k] \in Int /\ k \in All
        /\ Cardinality(HeldBy(w2, k)) = n - (IF k = v THEN 1 ELSE 0)
        /\ k = v => n > 0
    <3>1. IsFiniteSet(HeldBy(w, k))
      BY <1>1, CountedSets
    <3>2. n \in Nat /\ Cardinality(HeldBy(w2, k)) = n - (IF k = v THEN 1 ELSE 0)
      <4>1. n \in Nat
        BY <3>1, CountOne
      <4>3. CASE k = v
        <5>1. HeldBy(w2, k) = HeldBy(w, k) \ {id} /\ id \in HeldBy(w, k)
          BY <4>3, <1>12
        <5>2. Cardinality(HeldBy(w, k) \ {id}) = n - 1
          BY <3>1, <5>1, CountOne
        <5>3. Cardinality(HeldBy(w2, k)) = n - 1
          BY <5>1, <5>2, Zenon
        <5> QED BY <5>3, <4>1, <4>3
      <4>4. CASE k # v
        <5>1. HeldBy(w2, k) = HeldBy(w, k)
          BY <4>4, <1>12
        <5> QED BY <5>1, <4>1, <4>4
      <4> QED BY <4>3, <4>4
    <3>3. k \in All /\ h[k] \in Nat
      BY <1>1, IdFacts
    <3>4. k = v => n # 0
      BY <3>1, <1>12, CountOne
    <3>5. h[k] + n + (IF w[k].home THEN 1 ELSE 0) = IF w[k].live THEN 1 ELSE 0
      BY <1>1 DEF HandlesOK
    <3> HIDE DEF n
    <3>6. h2[k] \in Int
      BY <1>0
    <3>7. k = v => n > 0
      BY <3>4, <3>2
    <3> QED BY <3>2, <3>3, <3>5, <3>6, <3>7
  <2> HIDE DEF n
  <2>2. CASE k = id
    <3>0. h[k] > 0 /\ w[k].live /\ ~w[k].home /\ ~w2[k].live /\ ~w2[k].home
      BY <2>2, <1>5
    <3>1. h[k] = 1 /\ n = 0 /\ k # v /\ ~w2[k].live /\ ~w2[k].home
      BY <2>1, <3>0
    <3>2. h2[k] = 0
      BY <3>1, <1>0, <2>2
    <3> QED BY <3>1, <3>2, <2>1, <2>2
  <2>3. CASE k # id
    <3>1. (w2[k].live <=> w[k].live) /\ (w2[k].home <=> w[k].home)
      BY <2>1, <2>3, <1>8 DEF Alike
    <3>2. h2[k] = h[k] + (IF k = v THEN 1 ELSE 0)
      BY <1>0, <2>1, <2>3
    <3>3. h2[k] + Cardinality(HeldBy(w2, k)) = h[k] + n /\ h2[k] \in Nat
      BY <3>2, <2>1
    <3>4. (IF w2[k].home THEN 1 ELSE 0) = (IF w[k].home THEN 1 ELSE 0)
      BY <3>1
    <3>5. (IF w2[k].live THEN 1 ELSE 0) = (IF w[k].live THEN 1 ELSE 0)
      BY <3>1
    <3> QED BY <3>3, <3>4, <3>5, <2>1
  <2> QED BY <2>2, <2>3
<1>14. FlagsOK(w2)
  <2>1. \A i \in IDs : w2[i].home => w2[i].live /\ ~is_embeded(w2[i])
    <3> SUFFICES ASSUME NEW i \in IDs, w2[i].home PROVE w2[i].live /\ ~is_embeded(w2[i])
      OBVIOUS
    <3>1. i # id
      BY <1>5
    <3>2. Alike(w2[i], w[i])
      BY <3>1, <1>8
    <3> QED BY <3>2, <1>1 DEF Alike, FlagsOK, is_embeded
  <2>2. \A k \in Named : HeldBy(w2, k) # {} => w2[k].flag = {}
    <3> SUFFICES ASSUME NEW k \in Named, HeldBy(w2, k) # {}, k # id PROVE w2[k].flag = {}
      BY <1>5
    <3>1. w[k].flag = {}
      BY <1>12, <1>1 DEF FlagsOK
    <3> QED BY <3>1, <1>8, IdFacts DEF Alike
  <2>3. \A k \in Named : "frozen" \in w2[k].flag => w2[k].owner = SystemOwner /\ w2[k].home
    <3> SUFFICES ASSUME NEW k \in Named, "frozen" \in w2[k].flag PROVE w2[k].owner = SystemOwner /\ w2[k].home
      OBVIOUS
    <3>1. k # id
      BY <1>5
    <3>2. Alike(w2[k], w[k])
      BY <3>1, <1>8, IdFacts
    <3> QED BY <3>2, <1>1 DEF Alike, FlagsOK
  <2>4. \A k \in Fields : ~w2[k].home /\ is_embeded(w2[k])
    <3> SUFFICES ASSUME NEW k \in Fields PROVE ~w2[k].home /\ is_embeded(w2[k])
      OBVIOUS
    <3>1. CASE k = id
      BY <3>1, <1>5 DEF is_embeded
    <3>2. CASE k # id
      <4>1. Alike(w2[k], w[k])
        BY <3>2, <1>8, IdFacts
      <4> QED BY <4>1, <1>1 DEF Alike, FlagsOK, is_embeded
    <3> QED BY <3>1, <3>2
  <2> QED BY <2>1, <2>2, <2>3, <2>4 DEF FlagsOK
<1>15. RefsOK(w2, r)
  <2> SUFFICES ASSUME NEW k \in Named, r[k] # "none"
               PROVE  /\ w2[k].home
                      /\ r[k] \in {"mut", "argmut"} /\ "frozen" \in w2[k].flag => "shared" \in w2[k].flag
    BY DEF RefsOK
  <2>1. w[k].home /\ (r[k] \in {"mut", "argmut"} /\ "frozen" \in w[k].flag => "shared" \in w[k].flag)
    BY <1>1 DEF RefsOK
  <2>2. k # id
    BY <2>1
  <2> QED BY <2>1, <2>2, <1>8, IdFacts DEF Alike
<1> QED BY <1>10, <1>11, <1>13, <1>14, <1>15 DEF WorldOK, w2

(* An object loses all its fields; or it is removed with them.             *)
Cleared(w, id) ==
  [k \in All |-> IF k \in Fields /\ Parent(k) = id THEN Gone
                 ELSE IF k = id THEN Resized(w[id], 0) ELSE w[k]]
Dropped(w, id) == Pruned(Cleared(w, id), id)

(* It has dynamic fields only, and no handle lies in one.                  *)
Droppable(w, id) == \A k \in Kids(w, id) : k \in Fields /\ w[k].value \in Plain

(* The fields of such an object can go.                                    *)
LEMMA WorldClears ==
  ASSUME NEW w, NEW h, NEW r, WorldOK(w, h, r), NEW id \in Named, w[id].live, Droppable(w, id)
  PROVE  /\ WorldOK(Cleared(w, id), h, r) /\ Kids(Cleared(w, id), id) = {}
         /\ Alike(Cleared(w, id)[id], w[id])
         /\ \A k \in Named \cup {Root} : k # id => Cleared(w, id)[k] = w[k]
<1> DEFINE w2 == Cleared(w, id)
           Below == {k \in Fields : Parent(k) = id}
<1>1. ThingsOK(w) /\ SizesOK(w) /\ HandlesOK(w, h) /\ FlagsOK(w) /\ RefsOK(w, r) /\ h \in [Named -> Nat]
  BY DEF WorldOK
<1>2. w \in [All -> Things] /\ id # Root /\ id \in All /\ id \notin Below /\ Below \subseteq IDs
  BY <1>1, IdFacts DEF ThingsOK
<1>3. /\ \A k \in Below : w2[k] = Gone
      /\ w2[id] = Resized(w[id], 0) /\ \A k \in All : k \notin Below /\ k # id => w2[k] = w[k]
      /\ w2 = [k \in All |-> w2[k]]
  BY <1>2 DEF Cleared
<1>4. w[id] \in Things /\ 0 \in Nat
  BY <1>2
<1> HIDE DEF w2
<1>5. Alike(w2[id], w[id]) /\ w2[id].size = 0 /\ w2[id] \in Things
  BY <1>3, <1>4, ResizedFacts
<1>6. \A k \in Below : /\ ~w2[k].live /\ w2[k].value = Nothing /\ w2[k].owner = SystemOwner /\ w2[k].flag = {}
                       /\ w2[k].size = 0 /\ ~w2[k].home /\ w2[k] \in Things
  BY <1>3, GoneFacts
<1>7. w2 \in [All -> Things]
  BY <1>2, <1>3, <1>5, <1>6
<1>8. \A k \in All : k \notin Below => Alike(w2[k], w[k])
  BY <1>3, <1>5 DEF Alike
<1>9. \A k \in Named \cup {Root} : k \in All /\ k \notin Below
  BY IdFacts
<1>a. \A k \in Below : w[k].value \in Plain \/ w[k].value = Nothing
  BY <1>1, <1>2, GoneFacts DEF Droppable, Kids, ThingsOK
<1> HIDE DEF Alike
<1>b. \A k \in IDs : k \in Kids(w, id) => k \in Below
  BY DEF Droppable, Kids
<1> HIDE DEF Below
<1>10. ThingsOK(w2)
  <2>1. \A i \in IDs : IF w2[i].live THEN w2[i].value \in Values ELSE w2[i] = Gone
    <3> SUFFICES ASSUME NEW i \in IDs
                 PROVE  IF w2[i].live THEN w2[i].value \in Values ELSE w2[i] = Gone
      OBVIOUS
    <3>1. CASE i \in Below
      BY <3>1, <1>3, <1>6
    <3>2. CASE i = id
      BY <3>2, <1>5, <1>1 DEF Alike, ThingsOK
    <3>3. CASE i # id /\ i \notin Below
      BY <3>3, <1>3, <1>1 DEF ThingsOK
    <3> QED BY <3>1, <3>2, <3>3
  <2>2. \A i \in All : w2[i].live <=> (w[i].live /\ i \notin Below)
    BY <1>6, <1>8 DEF Alike
  <2>3. IsFiniteSet(Alive(w2))
    <3>1. Alive(w2) \subseteq Alive(w)
      BY <2>2 DEF Alive
    <3>2. IsFiniteSet(Alive(w))
      BY <1>1 DEF ThingsOK
    <3> QED BY <3>1, <3>2, FS_Subset
  <2>4. \A i \in IDs : w2[i].live => w2[Parent(i)].live
    BY <2>2, <1>1, <1>9, IdFacts DEF ThingsOK
  <2>5. w2[Root].live /\ w2[Root].value = Nothing
    BY <1>1, <1>8, <1>9 DEF ThingsOK, Alike
  <2> QED BY <1>7, <2>1, <2>3, <2>4, <2>5 DEF ThingsOK
<1>11. Kids(w2, id) = {}
  <2> SUFFICES ASSUME NEW k \in IDs, w2[k].live, Parent(k) = id PROVE FALSE
    BY DEF Kids
  <2>1. k \notin Below
    BY <1>6
  <2>2. w[k].live
    BY <2>1, <1>8 DEF Alike
  <2> QED BY <2>1, <2>2, <1>b DEF Kids
<1>12. SizesOK(w2)
  <2> SUFFICES ASSUME NEW q \in All PROVE w2[q].size = Cardinality(Kids(w2, q))
    BY DEF SizesOK
  <2>1. CASE q = id
    BY <2>1, <1>5, <1>11, FS_EmptySet
  <2>2. CASE q \in Below
    <3>1. Kids(w2, q) = {}
      BY <2>2, IdFacts DEF Kids, Below
    <3> QED BY <3>1, <2>2, <1>6, FS_EmptySet
  <2>3. CASE q # id /\ q \notin Below
    <3>1. \A k \in IDs : Parent(k) = q => k \notin Below
      BY <2>3 DEF Below
    <3>2. Kids(w2, q) = Kids(w, q)
      BY <3>1, <1>8 DEF Kids, Alike
    <3> QED BY <3>2, <2>3, <1>1, <1>3 DEF SizesOK
  <2> QED BY <2>1, <2>2, <2>3
<1>13. \A k \in Named : HeldBy(w2, k) = HeldBy(w, k)
  <2> SUFFICES ASSUME NEW k \in Named, NEW i \in IDs PROVE w2[i].value = k <=> w[i].value = k
    BY DEF HeldBy
  <2>1. CASE i \in Below
    BY <2>1, <1>6, <1>a, ValueFacts
  <2>2. CASE i \notin Below
    BY <2>2, <1>8 DEF Alike
  <2> QED BY <2>1, <2>2
<1>14. HandlesOK(w2, h)
  <2> SUFFICES ASSUME NEW k \in Named
               PROVE  h[k] + Cardinality(HeldBy(w2, k)) + (IF w2[k].home THEN 1 ELSE 0) = IF w2[k].live THEN 1 ELSE 0
    BY DEF HandlesOK
  <2>1. HeldBy(w2, k) = HeldBy(w, k) /\ (w2[k].home <=> w[k].home) /\ (w2[k].live <=> w[k].live)
    BY <1>8, <1>9, <1>13 DEF Alike
  <2> QED BY <2>1, <1>1 DEF HandlesOK
<1>15. FlagsOK(w2)
  <2>1. \A i \in IDs : w2[i].home => w2[i].live /\ ~is_embeded(w2[i])
    <3> SUFFICES ASSUME NEW i \in IDs, w2[i].home PROVE w2[i].live /\ ~is_embeded(w2[i])
      OBVIOUS
    <3>1. Alike(w2[i], w[i])
      BY <1>6, <1>8
    <3> QED BY <3>1, <1>1 DEF Alike, FlagsOK, is_embeded
  <2>2. \A k \in Named : Alike(w2[k], w[k])
    BY <1>8, <1>9
  <2>3. \A k \in Named : HeldBy(w2, k) # {} => w2[k].flag = {}
    BY <2>2, <1>1, <1>13 DEF FlagsOK, Alike
  <2>4. \A k \in Named : "frozen" \in w2[k].flag => w2[k].owner = SystemOwner /\ w2[k].home
    BY <2>2, <1>1 DEF FlagsOK, Alike
  <2>5. \A k \in Fields : ~w2[k].home /\ is_embeded(w2[k])
    <3> SUFFICES ASSUME NEW k \in Fields PROVE ~w2[k].home /\ is_embeded(w2[k])
      OBVIOUS
    <3>1. CASE k \in Below
      BY <3>1, <1>6 DEF is_embeded
    <3>2. CASE k \notin Below
      <4>1. Alike(w2[k], w[k])
        BY <3>2, <1>8, IdFacts
      <4> QED BY <4>1, <1>1 DEF Alike, FlagsOK, is_embeded
    <3> QED BY <3>1, <3>2
  <2> QED BY <2>1, <2>3, <2>4, <2>5 DEF FlagsOK
<1>16. RefsOK(w2, r)
  BY <1>1, <1>8, <1>9 DEF RefsOK, Alike
<1>17. \A k \in Named \cup {Root} : k # id => w2[k] = w[k]
  BY <1>3, <1>9
<1> QED BY <1>1, <1>5, <1>10, <1>11, <1>12, <1>14, <1>15, <1>16, <1>17 DEF WorldOK, w2

(* An object is removed with its fields.                                   *)
LEMMA WorldDrops ==
  ASSUME NEW w, NEW h, NEW r, WorldOK(w, h, r), NEW id \in Named, w[id].live, ~w[id].home,
         Droppable(w, id), h[id] > 0, w[Parent(id)].size > 0, NEW h2, HandOut(h2, h, id, w[id].value)
  PROVE  WorldOK(Dropped(w, id), h2, r)
<1> DEFINE u == Cleared(w, id)
<1>1. /\ WorldOK(u, h, r) /\ Kids(u, id) = {} /\ Alike(u[id], w[id])
      /\ \A k \in Named \cup {Root} : k # id => u[k] = w[k]
  BY WorldClears
<1>2. id \in IDs /\ Parent(id) # id /\ Parent(id) \in Named \cup {Root}
  BY IdFacts
<1> HIDE DEF u
<1>3. u[id].live /\ ~u[id].home /\ u[id].value = w[id].value /\ u[Parent(id)].size > 0
  BY <1>1, <1>2 DEF Alike
<1>4. HandOut(h2, h, id, u[id].value)
  BY <1>3
<1>5. WorldOK(Pruned(u, id), h2, r)
  BY <1>1, <1>2, <1>3, <1>4, WorldRemoves
<1> QED BY <1>5 DEF Dropped, u

(* What an existing object may be replaced by: same size, same handle in   *)
(* the value, flags that tell where its own handle is.                     *)
MayBecome(w, r, id, t) ==
  /\ t \in Things /\ t.live /\ t.value \in Values /\ t.size = w[id].size
  /\ \A k \in Named : t.value = k <=> w[id].value = k
  /\ t.home => ~is_embeded(t)
  /\ id \in Fields => ~t.home /\ is_embeded(t)
  /\ id \in Named =>
       /\ HeldBy(w, id) # {} => t.flag = {}
       /\ "frozen" \in t.flag => t.owner = SystemOwner /\ t.home
       /\ r[id] # "none" =>
            t.home /\ (r[id] \in {"mut", "argmut"} /\ "frozen" \in t.flag => "shared" \in t.flag)

(* Its own handle goes from the program to the store or back.              *)
HandleMoves(h2, h, id, t, o) ==
  /\ h2 \in [Named -> Nat] /\ \A k \in Named : k # id => h2[k] = h[k]
  /\ id \in Named => h2[id] + (IF t.home THEN 1 ELSE 0) = h[id] + (IF o.home THEN 1 ELSE 0)

(* Another object, or entry, at id.                                        *)
Put(w, id, t) == [w EXCEPT ![id] = t]

(* An object is replaced.                                                  *)
LEMMA WorldChanges ==
  ASSUME NEW w, NEW h, NEW r, WorldOK(w, h, r), NEW id \in IDs, w[id].live,
         NEW t, MayBecome(w, r, id, t), NEW h2, HandleMoves(h2, h, id, t, w[id])
  PROVE  WorldOK(Put(w, id, t), h2, r)
<1> DEFINE w2 == Put(w, id, t)
<1>0. /\ h2 \in [Named -> Nat] /\ (\A k \in Named : k # id => h2[k] = h[k])
      /\ id \in Named => h2[id] + (IF t.home THEN 1 ELSE 0) = h[id] + (IF w[id].home THEN 1 ELSE 0)
  BY DEF HandleMoves
<1>1. ThingsOK(w) /\ SizesOK(w) /\ HandlesOK(w, h) /\ FlagsOK(w) /\ RefsOK(w, r) /\ h \in [Named -> Nat]
  BY DEF WorldOK
<1>2. w \in [All -> Things] /\ id # Root /\ id \in All /\ t \in Things /\ t.live /\ t.size = w[id].size
  BY <1>1, IdFacts DEF ThingsOK, MayBecome
<1>3. w2[id] = t /\ (\A k \in All \ {id} : w2[k] = w[k]) /\ w2 \in [All -> Things]
  BY <1>2 DEF Put
<1> HIDE DEF w2
<1>4. \A k \in All : (w2[k].live <=> w[k].live) /\ w2[k].size = w[k].size
  BY <1>2, <1>3
<1>5. Alive(w2) = Alive(w) /\ \A p \in All : Kids(w2, p) = Kids(w, p)
  BY <1>4 DEF Alive, Kids
<1>6. ThingsOK(w2)
  <2>1. \A i \in IDs : IF w2[i].live THEN w2[i].value \in Values ELSE w2[i] = Gone
    BY <1>1, <1>2, <1>3 DEF ThingsOK, MayBecome
  <2>2. IsFiniteSet(Alive(w2))
    BY <1>1, <1>5 DEF ThingsOK
  <2>3. \A i \in IDs : w2[i].live => w2[Parent(i)].live
    BY <1>1, <1>4, IdFacts DEF ThingsOK
  <2>4. w2[Root].live /\ w2[Root].value = Nothing
    BY <1>1, <1>2, <1>3 DEF ThingsOK
  <2> QED BY <1>3, <2>1, <2>2, <2>3, <2>4 DEF ThingsOK
<1>7. SizesOK(w2)
  <2> SUFFICES ASSUME NEW p \in All PROVE w2[p].size = Cardinality(Kids(w2, p))
    BY DEF SizesOK
  <2>1. w[p].size = Cardinality(Kids(w, p)) /\ w2[p].size = w[p].size /\ Kids(w2, p) = Kids(w, p)
    BY <1>1, <1>4, <1>5 DEF SizesOK
  <2> QED BY <2>1, Zenon
<1>8. \A k \in Named : HeldBy(w2, k) = HeldBy(w, k)
  <2>1. \A k \in Named, i \in IDs : w2[i].value = k <=> w[i].value = k
    BY <1>3 DEF MayBecome
  <2> QED BY <2>1 DEF HeldBy
<1>9. HandlesOK(w2, h2)
  <2> SUFFICES ASSUME NEW k \in Named
               PROVE  h2[k] + Cardinality(HeldBy(w2, k)) + (IF w2[k].home THEN 1 ELSE 0) = IF w2[k].live THEN 1 ELSE 0
    BY DEF HandlesOK
  <2> DEFINE n == Cardinality(HeldBy(w, k))
             a == IF w[k].home THEN 1 ELSE 0
             b == IF w2[k].home THEN 1 ELSE 0
             e == IF w2[k].live THEN 1 ELSE 0
  <2>1. n \in Nat /\ Cardinality(HeldBy(w2, k)) = n
    <3>1. IsFiniteSet(HeldBy(w, k)) /\ HeldBy(w2, k) = HeldBy(w, k)
      BY <1>1, <1>8, CountedSets
    <3> QED BY <3>1, FS_CardinalityType
  <2>2. k \in All /\ h[k] \in Nat /\ h2[k] \in Nat /\ a \in Nat /\ b \in Nat /\ e \in Nat
    BY <1>0, <1>1, IdFacts
  <2>3. h[k] + n + a = e
    <3>1. h[k] + n + a = IF w[k].live THEN 1 ELSE 0
      BY <1>1 DEF HandlesOK
    <3>2. w2[k].live <=> w[k].live
      BY <1>4, <2>2
    <3> QED BY <3>1, <3>2
  <2>4. h2[k] + b = h[k] + a
    <3>1. CASE k = id
      BY <3>1, <1>0, <1>3
    <3>2. CASE k # id
      BY <3>2, <1>0, <1>3, <2>2
    <3> QED BY <3>1, <3>2
  <2> HIDE DEF n, a, b, e
  <2>5. h2[k] + n + b = e
    BY <2>1, <2>2, <2>3, <2>4
  <2> QED BY <2>1, <2>5 DEF b, e
<1>10. FlagsOK(w2)
  <2>1. \A i \in IDs : w2[i].home => w2[i].live /\ ~is_embeded(w2[i])
    BY <1>1, <1>2, <1>3 DEF FlagsOK, MayBecome
  <2>2. \A k \in Named : HeldBy(w2, k) # {} => w2[k].flag = {}
    <3> SUFFICES ASSUME NEW k \in Named, HeldBy(w, k) # {} PROVE w2[k].flag = {}
      BY <1>8
    <3>1. CASE k = id
      BY <3>1, <1>3 DEF MayBecome
    <3>2. CASE k # id
      BY <3>2, <1>1, <1>3, IdFacts DEF FlagsOK
    <3> QED BY <3>1, <3>2
  <2>3. \A k \in Named : "frozen" \in w2[k].flag => w2[k].owner = SystemOwner /\ w2[k].home
    BY <1>1, <1>3, IdFacts DEF FlagsOK, MayBecome
  <2>4. \A k \in Fields : ~w2[k].home /\ is_embeded(w2[k])
    BY <1>1, <1>3, IdFacts DEF FlagsOK, MayBecome
  <2> QED BY <2>1, <2>2, <2>3, <2>4 DEF FlagsOK
<1>11. RefsOK(w2, r)
  BY <1>1, <1>3, IdFacts DEF RefsOK, MayBecome
<1> QED BY <1>0, <1>6, <1>7, <1>9, <1>10, <1>11 DEF WorldOK, w2

(* A value without a handle is replaced by another one.                    *)
LEMMA WorldWrites ==
  ASSUME NEW w, NEW h, NEW r, WorldOK(w, h, r), NEW id \in IDs, w[id].live, w[id].value \in Plain,
         NEW v \in Plain, NEW w2, w2 = [w EXCEPT ![id] = Rewritten(w[id], v)]
  PROVE  WorldOK(w2, h, r) /\ w2[id].live /\ w2[id].home = w[id].home
<1> DEFINE t == Rewritten(w[id], v)
<1>1. FlagsOK(w) /\ RefsOK(w, r) /\ w[id] \in Things /\ w \in [All -> Things] /\ h \in [Named -> Nat]
  BY DEF WorldOK, ThingsOK
<1>2. /\ t.live /\ t.value = v /\ t.owner = w[id].owner /\ t.flag = w[id].flag /\ t.size = w[id].size
      /\ t.home = w[id].home
  BY DEF Rewritten, Thing
<1>3. t \in Things
  BY <1>1, ValueFacts DEF Rewritten, Thing, Things
<1> HIDE DEF t
<1>4. v \in Values /\ \A k \in Named : t.value = k <=> w[id].value = k
  BY <1>2, ValueFacts
<1>5. w[id].home = TRUE \/ w[id].home = FALSE
  BY <1>1 DEF Things
<1>6. MayBecome(w, r, id, t)
  <2>1. (t.home <=> w[id].home) /\ (is_embeded(t) <=> is_embeded(w[id]))
    BY <1>2, <1>5 DEF is_embeded
  <2>2. (t.home => ~is_embeded(t)) /\ (id \in Fields => ~t.home /\ is_embeded(t))
    BY <2>1, <1>1 DEF FlagsOK
  <2>3. id \in Named =>
          /\ HeldBy(w, id) # {} => t.flag = {}
          /\ "frozen" \in t.flag => t.owner = SystemOwner /\ t.home
    BY <2>1, <1>1, <1>2 DEF FlagsOK
  <2>4. id \in Named /\ r[id] # "none" =>
          t.home /\ (r[id] \in {"mut", "argmut"} /\ "frozen" \in t.flag => "shared" \in t.flag)
    BY <2>1, <1>1, <1>2 DEF RefsOK
  <2> QED BY <1>2, <1>3, <1>4, <2>2, <2>3, <2>4 DEF MayBecome
<1>7. (IF t.home THEN 1 ELSE 0) = (IF w[id].home THEN 1 ELSE 0)
  BY <1>2, <1>5
<1>8. w2 = Put(w, id, t) /\ w2 = [w EXCEPT ![id] = t]
  BY DEF t, Put
<1>9. WorldOK(w2, h, r)
  <2>1. HandleMoves(h, h, id, t, w[id])
    BY <1>1, <1>7 DEF HandleMoves
  <2>2. WorldOK(Put(w, id, t), h, r)
    BY <2>1, <1>6, WorldChanges, Zenon
  <2> QED BY <2>2, <1>8, Zenon
<1> QED BY <1>1, <1>2, <1>8, <1>9

(* A handle at home is taken: nobody borrows the object, and it is not     *)
(* frozen.                                                                 *)
LEMMA WorldTakes ==
  ASSUME NEW w, NEW h, NEW r, WorldOK(w, h, r), NEW id \in Named, w[id].home, r[id] = "none",
         "frozen" \notin w[id].flag, NEW w2, w2 = [w EXCEPT ![id] = Taken(w[id])],
         NEW h2, h2 = [h EXCEPT ![id] = @ + 1]
  PROVE  WorldOK(w2, h2, r)
<1> DEFINE t == Taken(w[id])
<1>1. /\ FlagsOK(w) /\ ThingsOK(w) /\ id \in IDs /\ id \notin Fields /\ w[id] \in Things
      /\ w \in [All -> Things] /\ h \in [Named -> Nat]
  BY IdFacts DEF WorldOK, ThingsOK
<1>2. /\ t.live /\ t.value = w[id].value /\ t.owner = w[id].owner /\ t.flag = w[id].flag
      /\ t.size = w[id].size /\ t.home = FALSE
  BY DEF Taken, Thing
<1>3. t \in Things
  BY <1>1 DEF Taken, Thing, Things
<1> HIDE DEF t
<1>4. w[id].live /\ w[id].value \in Values
  BY <1>1 DEF FlagsOK, ThingsOK
<1>6. MayBecome(w, r, id, t)
  <2>1. HeldBy(w, id) # {} => t.flag = {}
    BY <1>1, <1>2 DEF FlagsOK
  <2> QED BY <1>1, <1>2, <1>3, <1>4, <2>1 DEF MayBecome
<1>7. /\ h2 \in [Named -> Nat] /\ \A k \in Named : k # id => h2[k] = h[k]
  BY <1>1
<1>8. h2[id] + (IF t.home THEN 1 ELSE 0) = h[id] + (IF w[id].home THEN 1 ELSE 0)
  BY <1>1, <1>2
<1>9. w2 = Put(w, id, t)
  BY DEF t, Put
<1>10. HandleMoves(h2, h, id, t, w[id])
  BY <1>7, <1>8 DEF HandleMoves
<1>11. WorldOK(Put(w, id, t), h2, r)
  BY <1>1, <1>4, <1>6, <1>10, WorldChanges, Zenon
<1> QED BY <1>9, <1>11, Zenon

(* A handle is given back: the object gets an owner, or is shared or       *)
(* frozen.                                                                 *)
LEMMA WorldGives ==
  ASSUME NEW w, NEW h, NEW r, WorldOK(w, h, r), NEW id \in Named, w[id].live, h[id] > 0,
         NEW u \in Users \cup {SystemOwner}, NEW f \in SUBSET Flags,
         u \in Users \/ f # {}, "frozen" \in f => u = SystemOwner,
         NEW w2, w2 = [w EXCEPT ![id] = Given(w[id], u, w[id].flag \cup f)],
         NEW h2, h2 = [h EXCEPT ![id] = @ - 1]
  PROVE  WorldOK(w2, h2, r) /\ ~w[id].home /\ "frozen" \notin w[id].flag
<1> DEFINE g == w[id].flag \cup f
           t == Given(w[id], u, g)
<1>1. /\ FlagsOK(w) /\ ThingsOK(w) /\ RefsOK(w, r) /\ HandlesOK(w, h) /\ id \in IDs /\ id \notin Fields
      /\ w[id] \in Things /\ w \in [All -> Things] /\ h \in [Named -> Nat]
  BY IdFacts DEF WorldOK, ThingsOK
<1>2. /\ t.live /\ t.value = w[id].value /\ t.owner = u /\ t.flag = g
      /\ t.size = w[id].size /\ t.home = TRUE
  BY DEF Given, Thing
<1>3. t \in Things
  <2>1. g \in SUBSET Flags /\ u \in Anyone
    BY <1>1 DEF Things, Anyone
  <2> HIDE DEF g
  <2> QED BY <1>1, <2>1 DEF Given, Thing, Things
<1> HIDE DEF t
<1>4. w[id].value \in Values
  BY <1>1 DEF ThingsOK
<1>5. HeldBy(w, id) = {} /\ ~w[id].home
  <2>1. IsFiniteSet(HeldBy(w, id))
    BY <1>1, CountedSets
  <2>2. Cardinality(HeldBy(w, id)) \in Nat /\ (Cardinality(HeldBy(w, id)) = 0 <=> HeldBy(w, id) = {})
    BY <2>1, CountOne
  <2>3. h[id] + Cardinality(HeldBy(w, id)) + (IF w[id].home THEN 1 ELSE 0) = 1 /\ h[id] \in Nat
    BY <1>1 DEF HandlesOK
  <2>4. Cardinality(HeldBy(w, id)) = 0 /\ ~w[id].home
    BY <2>2, <2>3
  <2> QED BY <2>2, <2>4
<1>6. "frozen" \notin w[id].flag /\ r[id] = "none"
  BY <1>1, <1>5 DEF FlagsOK, RefsOK
<1>7. MayBecome(w, r, id, t)
  <2>1. ~is_embeded(t)
    BY <1>2, ObjectAssumption DEF is_embeded
  <2>2. "frozen" \in t.flag => t.owner = SystemOwner
    BY <1>2, <1>6
  <2> QED BY <1>1, <1>2, <1>3, <1>4, <1>5, <1>6, <2>1, <2>2 DEF MayBecome
<1>8. /\ h2 \in [Named -> Nat] /\ \A k \in Named : k # id => h2[k] = h[k]
  BY <1>1
<1>9. h2[id] + (IF t.home THEN 1 ELSE 0) = h[id] + (IF w[id].home THEN 1 ELSE 0)
  BY <1>1, <1>2, <1>5
<1>10. w2 = Put(w, id, t)
  BY DEF t, Put
<1>11. WorldOK(w2, h2, r)
  <2>1. HandleMoves(h2, h, id, t, w[id])
    BY <1>8, <1>9 DEF HandleMoves
  <2>2. WorldOK(Put(w, id, t), h2, r)
    BY <2>1, <1>1, <1>7, WorldChanges, Zenon
  <2> QED BY <2>2, <1>10, Zenon
<1> QED BY <1>5, <1>6, <1>11

(* A reference is taken to an object that is at home.                      *)
LEMMA WorldBorrows ==
  ASSUME NEW w, NEW h, NEW r, WorldOK(w, h, r), NEW id \in Named,
         NEW kind \in {"none", "ref", "mut", "arg", "argmut"},
         kind # "none" => w[id].home,
         kind \in {"mut", "argmut"} /\ "frozen" \in w[id].flag => "shared" \in w[id].flag,
         NEW r2, r2 = [r EXCEPT ![id] = kind]
  PROVE  WorldOK(w, h, r2)
<1>1. r \in [Named -> {"none", "ref", "mut", "arg", "argmut"}] /\ RefsOK(w, r)
  BY DEF WorldOK
<1>2. r2 \in [Named -> {"none", "ref", "mut", "arg", "argmut"}] /\ r2[id] = kind /\ \A k \in Named : k # id => r2[k] = r[k]
  BY <1>1
<1>3. RefsOK(w, r2)
  BY <1>1, <1>2 DEF RefsOK
<1> QED BY <1>2, <1>3 DEF WorldOK

(* What is frozen stays as it was when something else changes.             *)
LEMMA FrozenKept ==
  ASSUME NEW s, NEW w, FrozenOK(s, w), NEW id, NEW w2, \A k \in Named \ {id} : Alike(w2[k], w[k]),
         id \in Named /\ w[id].live => "frozen" \notin w[id].flag \/ "shared" \in w[id].flag
  PROVE  FrozenOK(s, w2)
BY DEF FrozenOK, Alike
--------------------------------------------------------------------------------
(* The operations on the cache are operations on the objects.              *)

(* What holds of a cache during a transaction.                             *)
StateOK(s, c, h, r) ==
  /\ TreeOK(s) /\ CacheOK(s, c) /\ Root \in DOMAIN c
  /\ WorldOK(View(s, c), h, r) /\ FrozenOK(s, View(s, c))

(* What an entry shows.                                                    *)
LEMMA ShownFacts ==
  ASSUME NEW o
  PROVE  /\ Shown(o).live <=> Exists(o.value)
         /\ ~Exists(o.value) => Shown(o) = Gone
         /\ Exists(o.value) =>
              /\ Shown(o).value = o.value.v /\ Shown(o).owner = o.owner /\ Shown(o).flag = o.flag
              /\ Shown(o).size = o.size /\ (Shown(o).home <=> Exists(o.pointer))
<1>1. CASE Exists(o.value)
  <2>1. Shown(o) = Thing(o.value.v, o.owner, o.flag, o.size, Exists(o.pointer))
    BY <1>1 DEF Shown
  <2>2. /\ Shown(o).live /\ Shown(o).value = o.value.v /\ Shown(o).owner = o.owner /\ Shown(o).flag = o.flag
        /\ Shown(o).size = o.size
    BY <2>1 DEF Thing
  <2>3. Shown(o).home <=> Exists(o.pointer)
    <3>1. CASE Exists(o.pointer)
      <4>1. Shown(o) = Thing(o.value.v, o.owner, o.flag, o.size, TRUE)
        <5>1. Exists(o.pointer) = TRUE
          BY <3>1 DEF Exists
        <5> QED BY <2>1, <5>1
      <4> QED BY <4>1, <3>1 DEF Thing
    <3>2. CASE ~Exists(o.pointer)
      <4>1. Shown(o) = Thing(o.value.v, o.owner, o.flag, o.size, FALSE)
        <5>1. Exists(o.pointer) = FALSE
          BY <3>2 DEF Exists
        <5> QED BY <2>1, <5>1
      <4> QED BY <4>1, <3>2 DEF Thing
    <3> QED BY <3>1, <3>2
  <2> QED BY <1>1, <2>2, <2>3
<1>2. CASE ~Exists(o.value)
  BY <1>2, GoneFacts DEF Shown
<1> QED BY <1>1, <1>2

(* The view at a loaded id is its entry, unless its container was dropped. *)
LEMMA ViewOfEntry ==
  ASSUME NEW s, NEW c, CacheOK(s, c), NEW id \in DOMAIN c, ~Lost(c, id)
  PROVE  id \in All /\ View(s, c)[id] = Shown(c[id])
BY DEF CacheOK, View, Now, Own

(* Objects are never lost.                                                 *)
LEMMA ViewOfNamed ==
  ASSUME NEW s, NEW c, CacheOK(s, c), NEW id \in DOMAIN c, id \notin Fields
  PROVE  id \in All /\ View(s, c)[id] = Shown(c[id])
BY DEF CacheOK, View, Now, Own, Lost

(* Nor is what lies below an existing object, or what exists.              *)
LEMMA NotLost ==
  ASSUME NEW s, NEW c, CacheOK(s, c), NEW id \in IDs, Parent(id) \in DOMAIN c,
         View(s, c)[Parent(id)].live
  PROVE  ~Lost(c, id) /\ IsLive(c[Parent(id)])
<1> DEFINE p == Parent(id)
<1>1. p \notin Fields
  BY IdFacts
<1>2. Exists(c[p].value)
  BY <1>1, ViewOfNamed, ShownFacts
<1>3. CASE p = Root
  BY <1>3 DEF CacheOK, IsLive, Lost
<1>4. CASE p # Root
  BY <1>2, <1>4, EntryFacts DEF Lost
<1> QED BY <1>3, <1>4

(* What exists is not lost.                                                *)
LEMMA LiveNotLost ==
  ASSUME NEW s, NEW c, NEW id \in All, View(s, c)[id].live
  PROVE  ~Lost(c, id)
BY GoneFacts DEF View, Now

(* Everything below an object that is gone was loaded and removed, when no *)
(* field is left there.                                                    *)
LEMMA NothingBelow ==
  ASSUME NEW s, NEW c, TreeOK(s), CacheOK(s, c), ThingsOK(View(s, c)), NEW id \in Named,
         ~View(s, c)[id].live, Emptied(s, c, id)
  PROVE  AllBelow(s, c, id)
<1> SUFFICES ASSUME NEW k \in DOMAIN s, Parent(k) = id, k \in All PROVE k \in DOMAIN c /\ c[k].meta # "Cached"
  BY DEF AllBelow, TreeOK
<1>1. k \in IDs /\ k # Root
  BY IdFacts
<1>2. ~Own(s, c, k).live
  <2>1. CASE k \in Fields
    BY <2>1, GoneFacts DEF Emptied
  <2>2. CASE k \notin Fields
    <3>1. ~View(s, c)[k].live
      BY <1>1 DEF ThingsOK
    <3> QED BY <2>2, <3>1 DEF View, Now, Lost
  <2> QED BY <2>1, <2>2
<1>3. k \in DOMAIN c
  <2> SUFFICES ASSUME k \notin DOMAIN c PROVE FALSE
    OBVIOUS
  <2>1. Own(s, c, k) = Stored(s[k])
    BY DEF Own
  <2> QED BY <2>1, <1>2 DEF Stored, Thing
<1>4. ~Exists(c[k].value)
  BY <1>2, <1>3, ShownFacts DEF Own
<1>5. ~IsLive(c[k])
  BY <1>1, <1>3, <1>4, EntryFacts
<1> QED BY <1>3, <1>5 DEF IsLive

(* A new entry for an id that is not the root.                             *)
LEMMA Replaces ==
  ASSUME NEW s, NEW c, CacheOK(s, c), NEW id \in DOMAIN c \ {Root}, NEW o, EntryOK(s, id, o),
         Forgotten(s, o, id) => AllBelow(s, c, id), o.meta = "Cached" => c[id].meta = "Cached",
         ~Lost(c, id), Emptied(s, c, id) \/ (IsLive(o) /\ IsLive(c[id]))
  PROVE  /\ CacheOK(s, Put(c, id, o)) /\ View(s, Put(c, id, o)) = Put(View(s, c), id, Shown(o))
         /\ DOMAIN Put(c, id, o) = DOMAIN c
BY EntryChanges DEF Put

(* move_to and the parent's size.                                          *)
LEMMA Created ==
  ASSUME NEW s, NEW c, NEW h, NEW r, StateOK(s, c, h, r), NEW id \in IDs, NEW p, p = Parent(id),
         id \in DOMAIN c, p \in DOMAIN c, NEW w, w = View(s, c), w[p].live,
         ~Exists(c[id].value), id \in Named => c[id].size = 0,
         NEW v \in Values, v \in Named => h[v] > 0 /\ v # id /\ w[v].flag = {},
         NEW h2, HandIn(h2, h, id, v),
         NEW d, d = Resize([c EXCEPT ![id] = move_to(@, v)], id, 1), NEW w2, w2 = Grown(w, id, v)
  PROVE  StateOK(s, d, h2, r) /\ View(s, d) = w2
<1>1. TreeOK(s) /\ CacheOK(s, c) /\ Root \in DOMAIN c /\ WorldOK(w, h, r) /\ FrozenOK(s, w)
  BY DEF StateOK
<1>2. id # Root /\ id \in All /\ p # id /\ p \in All
  BY IdFacts
<1> DEFINE q == move_to(c[id], v)
           e == Put(c, id, q)
<1>3. EntryOK(s, id, q) /\ Shown(q) = Infant(v) /\ q.meta # "Cached"
  BY <1>1, <1>2, EntryCreated
<1>a. ~Lost(c, id) /\ p \notin Fields
  BY <1>1, NotLost, IdFacts
<1>0. ~w[id].live
  BY <1>1, <1>a, ViewOfEntry, ShownFacts
<1>b. Emptied(s, c, id) /\ AllBelow(s, c, id)
  <2>1. CASE id \in Named
    <3>1. ~IsLive(c[id])
      BY <1>1, <1>2, EntryFacts
    <3>2. Emptied(s, c, id)
      BY <2>1, <3>1, <1>1, <1>2 DEF CacheOK
    <3>3. ThingsOK(View(s, c))
      BY <1>1 DEF WorldOK
    <3> QED BY <2>1, <3>2, <3>3, <1>0, <1>1, NothingBelow
  <2>2. CASE id \notin Named
    <3>1. \A k \in All : Parent(k) # id
      BY <2>2, <1>2, IdFacts
    <3> QED BY <3>1, <1>1, IdFacts DEF Emptied, AllBelow, TreeOK
  <2> QED BY <2>1, <2>2
<1>4. e = [c EXCEPT ![id] = move_to(@, v)]
  BY DEF Put
<1> HIDE DEF q
<1>5. CacheOK(s, e) /\ View(s, e) = Put(w, id, Infant(v)) /\ DOMAIN e = DOMAIN c
  <2>1. id \in DOMAIN c \ {Root}
    BY <1>2
  <2>2. CacheOK(s, e) /\ View(s, e) = Put(View(s, c), id, Shown(q)) /\ DOMAIN e = DOMAIN c
    BY <1>1, <1>3, <1>a, <1>b, <2>1, Replaces
  <2> QED BY <2>2, <1>3
<1>6. e[p] = c[p]
  BY <1>2 DEF Put
<1>7. w \in [All -> Things] /\ w[p] \in Things /\ w[p].size \in Nat
  BY <1>1, <1>2 DEF WorldOK, ThingsOK, Things
<1>8. c[p].size = w[p].size
  BY <1>1, <1>a, ViewOfNamed, ShownFacts
<1>9. View(s, e)[p] = w[p]
  BY <1>2, <1>5, <1>7 DEF Put
<1>10. d = Resize(e, id, 1)
  BY <1>4
<1> HIDE DEF e
<1>11. e[p].size + 1 = w[p].size + 1 /\ w[p].size + 1 \in Nat /\ 1 \in Int /\ View(s, e)[p].live /\ p \in DOMAIN e
  BY <1>5, <1>6, <1>7, <1>8, <1>9
<1>12. /\ CacheOK(s, d) /\ View(s, d) = [View(s, e) EXCEPT ![p] = Resized(@, e[p].size + 1)]
       /\ DOMAIN d = DOMAIN e
  BY <1>2, <1>5, <1>10, <1>11, SizeChanges
<1>13. View(s, d) = w2
  <2>1. View(s, d) = [View(s, e) EXCEPT ![p] = Resized(w[p], w[p].size + 1)]
    BY <1>12, <1>9, <1>11
  <2> QED BY <2>1, <1>5 DEF Put, Grown
<1>14. WorldOK(w2, h2, r)
  <2>1. WorldOK(Grown(w, id, v), h2, r)
    BY <1>0, <1>1, WorldCreates
  <2> QED BY <2>1
<1>15. FrozenOK(s, w2)
  <2>2. \A k \in Named \ {id} : Alike(w2[k], w[k])
    <3>1. w2[p] = Resized(w[p], w[p].size + 1) /\ (\A k \in All \ {id, p} : w2[k] = w[k])
      BY <1>2, <1>7 DEF Grown
    <3>2. Alike(w2[p], w[p])
      BY <3>1, <1>7, ResizedFacts
    <3> QED BY <3>1, <3>2, IdFacts DEF Alike
  <2> QED BY <1>0, <1>1, <2>2, FrozenKept
<1> QED BY <1>1, <1>5, <1>12, <1>13, <1>14, <1>15 DEF StateOK

(* An object whose handle the program holds is neither at home nor frozen  *)
(* nor in another object.                                                  *)
LEMMA HandFacts ==
  ASSUME NEW w, NEW h, NEW r, WorldOK(w, h, r), NEW id \in Named, h[id] > 0
  PROVE  /\ w[id].live /\ ~w[id].home /\ HeldBy(w, id) = {} /\ "frozen" \notin w[id].flag
         /\ h[id] = 1 /\ r[id] = "none" /\ w[id].value # id
<1>1. FlagsOK(w) /\ ThingsOK(w) /\ HandlesOK(w, h) /\ h \in [Named -> Nat] /\ RefsOK(w, r) /\ id \in IDs
  BY IdFacts DEF WorldOK
<1>2. IsFiniteSet(HeldBy(w, id))
  BY <1>1, CountedSets
<1> DEFINE n == Cardinality(HeldBy(w, id))
<1>3. n \in Nat /\ (n = 0 <=> HeldBy(w, id) = {})
  BY <1>2, CountOne
<1>4. h[id] + n + (IF w[id].home THEN 1 ELSE 0) = (IF w[id].live THEN 1 ELSE 0) /\ h[id] \in Nat
  BY <1>1 DEF HandlesOK
<1> HIDE DEF n
<1>5. w[id].live /\ ~w[id].home /\ n = 0 /\ h[id] = 1
  BY <1>3, <1>4
<1>6. HeldBy(w, id) = {}
  BY <1>3, <1>5
<1> QED BY <1>1, <1>5, <1>6 DEF FlagsOK, RefsOK, HeldBy

(* An object without fields has left none in the cache.                    *)
LEMMA KidsEmptied ==
  ASSUME NEW s, NEW c, NEW w, w = View(s, c), CacheOK(s, c), ThingsOK(w), NEW id \in DOMAIN c \ {Root},
         Exists(c[id].value), Kids(w, id) = {}
  PROVE  Emptied(s, c, id)
<1> SUFFICES ASSUME NEW k \in Fields, Parent(k) = id PROVE Own(s, c, k) = Gone
  BY DEF Emptied
<1>1. k \in IDs /\ IsLive(c[id])
  BY IdFacts, EntryFacts
<1>2. w[k] = Gone
  BY <1>1 DEF Kids, ThingsOK
<1> QED BY <1>1, <1>2 DEF View, Now, Lost

(* move_from and the parent's size.                                        *)
LEMMA Removed ==
  ASSUME NEW s, NEW c, NEW h, NEW r, StateOK(s, c, h, r), NEW id \in IDs, NEW p, p = Parent(id),
         id \in DOMAIN c, p \in DOMAIN c, NEW w, w = View(s, c),
         Exists(c[id].value), ~Lost(c, id), id \in Named => h[id] > 0, Kids(w, id) = {}, c[p].size > 0,
         ~(c[id].meta = "Fresh" /\ c[id].value.st = "Dirty"),
         NEW h2, HandOut(h2, h, id, c[id].value.v),
         NEW d, d = Resize([c EXCEPT ![id] = move_from(@)], id, -1), NEW w2, w2 = Pruned(w, id)
  PROVE  /\ StateOK(s, d, h2, r) /\ View(s, d) = w2 /\ w[id].live /\ ~w[id].home
         /\ w[id].value = c[id].value.v
<1>1. TreeOK(s) /\ CacheOK(s, c) /\ Root \in DOMAIN c /\ WorldOK(w, h, r) /\ FrozenOK(s, w)
  BY DEF StateOK
<1>2. id # Root /\ id \in All /\ p # id /\ p \in All /\ id \in DOMAIN c \ {Root}
  BY IdFacts
<1>3. w[id].live /\ w[id].value = c[id].value.v /\ (w[id].home <=> Exists(c[id].pointer))
  BY <1>1, ViewOfEntry, ShownFacts
<1>4. ~w[id].home /\ (id \in Named => "frozen" \notin w[id].flag)
  <2>1. CASE id \in Named
    BY <1>1, <2>1, HandFacts
  <2>2. CASE id \notin Named
    BY <1>1, <2>2, IdFacts DEF WorldOK, FlagsOK
  <2> QED BY <2>1, <2>2
<1>5. Emptied(s, c, id)
  BY <1>1, <1>2, KidsEmptied DEF WorldOK
<1> DEFINE q == move_from(c[id])
           e == Put(c, id, q)
<1>6. EntryOK(s, id, q) /\ Shown(q) = Gone /\ q.meta # "Cached" /\ ~Forgotten(s, q, id)
  BY <1>1, <1>2, <1>3, <1>4, EntryRemoved DEF Forgotten
<1>7. e = [c EXCEPT ![id] = move_from(@)]
  BY DEF Put
<1> HIDE DEF q
<1>8. CacheOK(s, e) /\ View(s, e) = Put(w, id, Gone) /\ DOMAIN e = DOMAIN c
  <2>2. CacheOK(s, e) /\ View(s, e) = Put(View(s, c), id, Shown(q)) /\ DOMAIN e = DOMAIN c
    BY <1>1, <1>2, <1>5, <1>6, Replaces
  <2> QED BY <2>2, <1>6
<1>9. e[p] = c[p]
  BY <1>2 DEF Put
<1>10. w \in [All -> Things] /\ w[p] \in Things /\ w[p].size \in Nat /\ w[p].live
  BY <1>1, <1>2, <1>3 DEF WorldOK, ThingsOK, Things
<1>11. c[p].size = w[p].size
  BY <1>1, <1>10, ViewOfNamed, ShownFacts, IdFacts
<1>12. View(s, e)[p] = w[p]
  BY <1>2, <1>8, <1>10 DEF Put
<1>13. d = Resize(e, id, -1)
  BY <1>7
<1> HIDE DEF e
<1>14. e[p].size + -1 = w[p].size - 1 /\ e[p].size + -1 \in Nat /\ -1 \in Int /\ View(s, e)[p].live /\ p \in DOMAIN e
  BY <1>8, <1>9, <1>10, <1>11, <1>12
<1>15. /\ CacheOK(s, d) /\ View(s, d) = [View(s, e) EXCEPT ![p] = Resized(@, e[p].size + -1)]
       /\ DOMAIN d = DOMAIN e
  BY <1>2, <1>8, <1>13, <1>14, SizeChanges
<1>16. View(s, d) = w2
  <2>1. View(s, d) = [View(s, e) EXCEPT ![p] = Resized(w[p], w[p].size - 1)]
    BY <1>15, <1>12, <1>14
  <2> QED BY <2>1, <1>8 DEF Put, Pruned
<1>17. WorldOK(w2, h2, r)
  <2>1. HandOut(h2, h, id, w[id].value) /\ w[Parent(id)].size > 0
    BY <1>3, <1>11
  <2>2. WorldOK(Pruned(w, id), h2, r)
    BY <1>1, <1>3, <1>4, <2>1, WorldRemoves
  <2> QED BY <2>2
<1>18. FrozenOK(s, w2)
  <2>2. \A k \in Named \ {id} : Alike(w2[k], w[k])
    <3>1. w2[p] = Resized(w[p], w[p].size - 1) /\ (\A k \in All \ {id, p} : w2[k] = w[k])
      BY <1>2, <1>10 DEF Pruned
    <3>2. w[p].size - 1 \in Nat
      BY <1>10, <1>11
    <3>3. Alike(w2[p], w[p])
      BY <3>1, <3>2, <1>10, ResizedFacts
    <3> QED BY <3>1, <3>3, IdFacts DEF Alike
  <2> QED BY <1>1, <1>4, <2>2, FrozenKept
<1> QED BY <1>1, <1>3, <1>4, <1>8, <1>15, <1>16, <1>17, <1>18 DEF StateOK

(* move_from of a container whose fields stay where they are.              *)
LEMMA DroppedFrom ==
  ASSUME NEW s, NEW c, NEW h, NEW r, StateOK(s, c, h, r), NEW id \in Named, NEW p, p = Parent(id),
         id \in DOMAIN c, p \in DOMAIN c, NEW w, w = View(s, c),
         Exists(c[id].value), h[id] > 0, Droppable(w, id), c[p].size > 0,
         ~(c[id].meta = "Fresh" /\ c[id].value.st = "Dirty"),
         NEW h2, HandOut(h2, h, id, c[id].value.v),
         NEW d, d = Resize([c EXCEPT ![id] = move_from(@)], id, -1), NEW w2, w2 = Dropped(w, id)
  PROVE  StateOK(s, d, h2, r) /\ View(s, d) = w2 /\ w[id].live /\ ~w[id].home
<1>1. TreeOK(s) /\ CacheOK(s, c) /\ Root \in DOMAIN c /\ WorldOK(w, h, r) /\ FrozenOK(s, w)
  BY DEF StateOK
<1>2. /\ id # Root /\ id \in All /\ id \in IDs /\ p # id /\ p \in Named \cup {Root} /\ id \in DOMAIN c \ {Root}
      /\ p \in All /\ p \notin Fields /\ id \notin Fields /\ ~Lost(c, id)
  BY IdFacts DEF Lost
<1>3. /\ w[id].live /\ w[id].value = c[id].value.v /\ (w[id].home <=> Exists(c[id].pointer))
      /\ w[id].size = c[id].size
  BY <1>1, <1>2, ViewOfEntry, ShownFacts
<1>4. ~w[id].home /\ "frozen" \notin w[id].flag
  BY <1>1, HandFacts
<1> DEFINE q == move_from(c[id])
           e == Put(c, id, q)
           u == Cleared(w, id)
<1>5. /\ EntryOK(s, id, q) /\ Shown(q) = Gone /\ q.meta # "Cached" /\ ~Forgotten(s, q, id) /\ ~IsLive(q)
      /\ q.size = c[id].size
  BY <1>1, <1>2, <1>3, <1>4, EntryRemoved DEF Forgotten, IsLive
<1>6. e = [c EXCEPT ![id] = move_from(@)] /\ e = [c EXCEPT ![id] = q]
  BY DEF Put
<1> HIDE DEF q
<1>7. q.size = 0 => Emptied(s, c, id)
  <2> SUFFICES ASSUME q.size = 0 PROVE Emptied(s, c, id)
    OBVIOUS
  <2>1. ThingsOK(w) /\ SizesOK(w)
    BY <1>1 DEF WorldOK
  <2>2. IsFiniteSet(Kids(w, id)) /\ Cardinality(Kids(w, id)) = 0
    BY <2>1, <1>2, <1>3, <1>5, CountedSets DEF SizesOK
  <2>3. Kids(w, id) = {}
    BY <2>2, CountOne
  <2> QED BY <2>1, <2>3, <1>1, <1>2, KidsEmptied
<1>8. CacheOK(s, e) /\ DOMAIN e = DOMAIN c /\ NowPut(s, c, e, id, q)
  BY <1>1, <1>2, <1>5, <1>6, <1>7, EntryPut
<1>9. View(s, e) = Put(u, id, Gone)
  <2>1. \A k \in All : Now(s, e, k) = IF k = id \/ (k \in Fields /\ Parent(k) = id) THEN Gone ELSE w[k]
    BY <1>5, <1>8 DEF NowPut, View
  <2>2. \A k \in All : Put(u, id, Gone)[k] = IF k = id \/ (k \in Fields /\ Parent(k) = id) THEN Gone ELSE w[k]
    BY <1>2 DEF Put, Cleared
  <2>3. Put(u, id, Gone) = [k \in All |-> Put(u, id, Gone)[k]]
    BY DEF Put, Cleared
  <2> HIDE DEF u, e
  <2> QED BY <2>1, <2>2, <2>3 DEF View
<1>10. e[p] = c[p]
  BY <1>2 DEF Put
<1>11. w \in [All -> Things] /\ w[p] \in Things /\ w[p].size \in Nat /\ w[p].live
  BY <1>1, <1>2, <1>3 DEF WorldOK, ThingsOK, Things
<1>12. c[p].size = w[p].size
  BY <1>1, <1>2, <1>11, ViewOfNamed, ShownFacts
<1>13. /\ Kids(u, id) = {} /\ Alike(u[id], w[id])
       /\ \A k \in Named \cup {Root} : k # id => u[k] = w[k]
  BY <1>1, <1>3, WorldClears
<1>a. u = [k \in All |-> u[k]] /\ u[p] = w[p]
  BY <1>2, <1>13 DEF Cleared
<1> HIDE DEF u
<1>14. View(s, e)[p] = w[p]
  BY <1>2, <1>9, <1>a DEF Put
<1>15. d = Resize(e, id, -1)
  BY <1>6
<1> HIDE DEF e
<1>16. e[p].size + -1 = w[p].size - 1 /\ e[p].size + -1 \in Nat /\ -1 \in Int /\ View(s, e)[p].live /\ p \in DOMAIN e
  BY <1>8, <1>10, <1>11, <1>12, <1>14
<1>17. /\ CacheOK(s, d) /\ View(s, d) = [View(s, e) EXCEPT ![p] = Resized(@, e[p].size + -1)]
       /\ DOMAIN d = DOMAIN e
  BY <1>2, <1>8, <1>15, <1>16, SizeChanges
<1>18. View(s, d) = w2
  <2>1. View(s, d) = [View(s, e) EXCEPT ![p] = Resized(w[p], w[p].size - 1)]
    BY <1>14, <1>16, <1>17
  <2>2. w2 = [[u EXCEPT ![id] = Gone] EXCEPT ![p] = Resized(w[p], w[p].size - 1)]
    BY <1>a DEF Dropped, Pruned, u
  <2> QED BY <2>1, <2>2, <1>9 DEF Put
<1>19. WorldOK(w2, h2, r)
  <2>1. HandOut(h2, h, id, w[id].value) /\ w[Parent(id)].size > 0
    BY <1>3, <1>12
  <2>2. WorldOK(Dropped(w, id), h2, r)
    BY <1>1, <1>3, <1>4, <2>1, WorldDrops
  <2> QED BY <2>2
<1>20. FrozenOK(s, w2)
  <2>1. \A k \in Named \ {id} : Alike(w2[k], w[k])
    <3>1. w2 = [[u EXCEPT ![id] = Gone] EXCEPT ![p] = Resized(w[p], w[p].size - 1)]
      BY <1>a DEF Dropped, Pruned, u
    <3>2. w2[p] = Resized(w[p], w[p].size - 1) /\ (\A k \in Named \ {id, p} : w2[k] = w[k])
      BY <3>1, <1>2, <1>13, <1>a, IdFacts
    <3>3. w[p].size - 1 \in Nat
      BY <1>11, <1>12
    <3>4. Alike(w2[p], w[p])
      BY <3>2, <3>3, <1>11, ResizedFacts
    <3> QED BY <3>2, <3>4 DEF Alike
  <2> QED BY <1>1, <1>4, <2>1, FrozenKept
<1> QED BY <1>1, <1>3, <1>4, <1>8, <1>17, <1>18, <1>19, <1>20 DEF StateOK

(* What writes, takes and returns do to the cache and to the hand.         *)
WriteIn(c, id, v) == [c EXCEPT ![id].value = WriteRef(@, v)]
TakeFrom(c, id) == [c EXCEPT ![id].pointer = MoveFrom(@)]
ReturnTo(c, id, u, f) == [c EXCEPT ![id] = return_pointer(c[id], u, c[id].flag \cup f)]
MayReturn(u, f) ==
  /\ u \in Users \cup {SystemOwner} /\ f \in SUBSET Flags
  /\ u \in Users \/ f # {}
  /\ "frozen" \in f => u = SystemOwner
OneMore(h, id) == [h EXCEPT ![id] = @ + 1]
OneLess(h, id) == [h EXCEPT ![id] = @ - 1]

(* A write through a reference to a value without a handle.                *)
LEMMA WrittenTo ==
  ASSUME NEW s, NEW c, NEW h, NEW r, StateOK(s, c, h, r), NEW id \in IDs, id \in DOMAIN c,
         NEW w, w = View(s, c), Exists(c[id].value), ~Lost(c, id), c[id].value.v \in Plain, NEW v \in Plain,
         id \in Named => "frozen" \notin w[id].flag \/ "shared" \in w[id].flag,
         NEW d, d = WriteIn(c, id, v)
  PROVE  /\ StateOK(s, d, h, r) /\ View(s, d) = Put(w, id, Rewritten(w[id], v))
         /\ w[id].live /\ w[id].value \in Plain
<1>1. TreeOK(s) /\ CacheOK(s, c) /\ Root \in DOMAIN c /\ WorldOK(w, h, r) /\ FrozenOK(s, w)
  BY DEF StateOK
<1>2. id # Root /\ id \in All /\ id \in DOMAIN c \ {Root} /\ v \in Values
  BY IdFacts, ValueFacts
<1>3. w[id] = Shown(c[id]) /\ w[id].live /\ w[id].value \in Plain
  BY <1>1, ViewOfEntry, ShownFacts
<1> DEFINE q == WithValue(c[id], WriteRef(c[id].value, v))
           w2 == Put(w, id, Rewritten(w[id], v))
<1>4. EntryOK(s, id, q) /\ Shown(q) = Rewritten(w[id], v) /\ q.meta = c[id].meta /\ (Forgotten(s, q, id) => AllBelow(s, c, id))
  BY <1>1, <1>2, <1>3, EntryWritten
<1>a. IsLive(q) /\ IsLive(c[id])
  BY <1>1, <1>2, <1>4, EntryFacts DEF IsLive
<1>5. d = Put(c, id, q)
  <2>1. c = [k \in DOMAIN c |-> c[k]] /\ c[id] \in RuntimeObjects
    BY <1>1, <1>2, EntryFacts DEF CacheOK
  <2> QED BY <2>1 DEF Put, WithValue, WriteIn
<1> HIDE DEF q
<1>6. CacheOK(s, d) /\ View(s, d) = Put(w, id, Shown(q)) /\ DOMAIN d = DOMAIN c
  <2>1. q.meta = "Cached" => c[id].meta = "Cached"
    BY <1>4
  <2>2. /\ CacheOK(s, Put(c, id, q)) /\ View(s, Put(c, id, q)) = Put(View(s, c), id, Shown(q))
        /\ DOMAIN Put(c, id, q) = DOMAIN c
    BY <1>1, <1>2, <1>4, <1>a, <2>1, Replaces
  <2> QED BY <2>2, <1>5
<1>7. View(s, d) = w2
  BY <1>4, <1>6
<1>8. WorldOK(w2, h, r)
  BY <1>1, <1>3, WorldWrites DEF Put
<1>9. FrozenOK(s, w2)
  <2>1. w \in [All -> Things]
    BY <1>1 DEF WorldOK, ThingsOK
  <2>2. \A k \in Named \ {id} : Alike(w2[k], w[k])
    BY <2>1, IdFacts DEF Put, Alike
  <2> HIDE DEF w2
  <2> QED BY <1>1, <2>2, FrozenKept
<1> QED BY <1>1, <1>3, <1>6, <1>7, <1>8, <1>9 DEF StateOK

(* A pointer that was loaded or given back to its home is taken.           *)
LEMMA TakenOut ==
  ASSUME NEW s, NEW c, NEW h, NEW r, StateOK(s, c, h, r), NEW id \in Named, id \in DOMAIN c,
         NEW w, w = View(s, c), Exists(c[id].pointer), c[id].pointer.st # "Fresh", r[id] = "none",
         "frozen" \notin w[id].flag,
         NEW d, d = TakeFrom(c, id), NEW h2, h2 = OneMore(h, id)
  PROVE  /\ StateOK(s, d, h2, r) /\ View(s, d) = Put(w, id, Taken(w[id])) /\ w[id].home /\ w[id].live
<1>1. TreeOK(s) /\ CacheOK(s, c) /\ Root \in DOMAIN c /\ WorldOK(w, h, r) /\ FrozenOK(s, w)
  BY DEF StateOK
<1>2. id # Root /\ id \in All /\ id \in DOMAIN c \ {Root}
  BY IdFacts
<1>0. ~Lost(c, id)
  BY IdFacts DEF Lost
<1>3. w[id] = Shown(c[id]) /\ w[id].live /\ w[id].home
  BY <1>0, <1>1, <1>2, EntryFacts, ViewOfEntry, ShownFacts
<1> DEFINE q == WithPointer(c[id], MoveFrom(c[id].pointer))
           w2 == Put(w, id, Taken(w[id]))
<1>4. EntryOK(s, id, q) /\ Shown(q) = Taken(w[id]) /\ q.meta = c[id].meta /\ (Forgotten(s, q, id) => AllBelow(s, c, id))
  BY <1>1, <1>2, <1>3, EntryTaken
<1>a. IsLive(q) /\ IsLive(c[id])
  BY <1>1, <1>2, <1>4, EntryFacts DEF IsLive
<1>5. d = Put(c, id, q)
  <2>1. c = [k \in DOMAIN c |-> c[k]] /\ c[id] \in RuntimeObjects
    BY <1>1, <1>2, EntryFacts DEF CacheOK
  <2> QED BY <2>1 DEF Put, WithPointer, TakeFrom
<1> HIDE DEF q
<1>6. CacheOK(s, d) /\ View(s, d) = Put(w, id, Shown(q)) /\ DOMAIN d = DOMAIN c
  <2>1. q.meta = "Cached" => c[id].meta = "Cached"
    BY <1>4
  <2>2. /\ CacheOK(s, Put(c, id, q)) /\ View(s, Put(c, id, q)) = Put(View(s, c), id, Shown(q))
        /\ DOMAIN Put(c, id, q) = DOMAIN c
    BY <1>0, <1>1, <1>2, <1>4, <1>a, <2>1, Replaces
  <2> QED BY <2>2, <1>5
<1>7. View(s, d) = w2
  BY <1>4, <1>6
<1>8. WorldOK(w2, h2, r)
  BY <1>1, <1>3, WorldTakes DEF Put, OneMore
<1>9. FrozenOK(s, w2)
  <2>1. w \in [All -> Things]
    BY <1>1 DEF WorldOK, ThingsOK
  <2>2. \A k \in Named \ {id} : Alike(w2[k], w[k])
    BY <2>1, IdFacts DEF Put, Alike
  <2> HIDE DEF w2
  <2> QED BY <1>1, <2>2, FrozenKept
<1> QED BY <1>1, <1>3, <1>6, <1>7, <1>8, <1>9 DEF StateOK

(* return_pointer with a new owner and more flags.                         *)
LEMMA GivenBack ==
  ASSUME NEW s, NEW c, NEW h, NEW r, StateOK(s, c, h, r), NEW id \in Named, id \in DOMAIN c,
         NEW w, w = View(s, c), IsLive(c[id]), ~Exists(c[id].pointer), h[id] > 0,
         NEW u, NEW f, MayReturn(u, f),
         NEW d, d = ReturnTo(c, id, u, f), NEW h2, h2 = OneLess(h, id)
  PROVE  /\ StateOK(s, d, h2, r) /\ View(s, d) = Put(w, id, Given(w[id], u, w[id].flag \cup f))
         /\ w[id].live /\ ~w[id].home
<1>0. /\ u \in Users \cup {SystemOwner} /\ f \in SUBSET Flags
      /\ u \in Users \/ f # {}
      /\ "frozen" \in f => u = SystemOwner
  BY DEF MayReturn
<1>1. TreeOK(s) /\ CacheOK(s, c) /\ Root \in DOMAIN c /\ WorldOK(w, h, r) /\ FrozenOK(s, w)
  BY DEF StateOK
<1>2. id # Root /\ id \in All /\ id \in DOMAIN c \ {Root}
  BY IdFacts
<1>b. ~Lost(c, id)
  BY IdFacts DEF Lost
<1>3. w[id] = Shown(c[id]) /\ w[id].live /\ w[id].flag = c[id].flag /\ ~w[id].home
  BY <1>1, <1>2, <1>b, EntryFacts, ViewOfEntry, ShownFacts
<1>4. c[id].flag \cup f \in SUBSET Flags /\ u \in Anyone /\ c[id] \in RuntimeObjects
  <2>1. c[id] \in RuntimeObjects
    BY <1>1, <1>2, EntryFacts
  <2> QED BY <2>1, <1>0 DEF RuntimeObjects, Anyone
<1> DEFINE g == w[id].flag \cup f
           q == return_pointer(c[id], u, c[id].flag \cup f)
           w2 == Put(w, id, Given(w[id], u, g))
<1>5. EntryOK(s, id, q) /\ Shown(q) = Given(w[id], u, g) /\ q.meta = c[id].meta /\ (Forgotten(s, q, id) => AllBelow(s, c, id))
  BY <1>1, <1>2, <1>3, <1>4, EntryGiven
<1>a. IsLive(q) /\ IsLive(c[id])
  BY <1>5 DEF IsLive
<1>6. d = Put(c, id, q)
  BY DEF Put, ReturnTo
<1> HIDE DEF q
<1>7. CacheOK(s, d) /\ View(s, d) = Put(w, id, Shown(q)) /\ DOMAIN d = DOMAIN c
  <2>1. q.meta = "Cached" => c[id].meta = "Cached"
    BY <1>5
  <2>2. /\ CacheOK(s, Put(c, id, q)) /\ View(s, Put(c, id, q)) = Put(View(s, c), id, Shown(q))
        /\ DOMAIN Put(c, id, q) = DOMAIN c
    BY <1>1, <1>2, <1>5, <1>a, <1>b, <2>1, Replaces
  <2> QED BY <2>2, <1>6
<1>8. View(s, d) = w2
  BY <1>5, <1>7
<1>9. WorldOK(w2, h2, r) /\ "frozen" \notin w[id].flag
  BY <1>0, <1>1, <1>3, WorldGives DEF Put, OneLess
<1>10. FrozenOK(s, w2)
  <2>1. w \in [All -> Things]
    BY <1>1 DEF WorldOK, ThingsOK
  <2>2. \A k \in Named \ {id} : Alike(w2[k], w[k])
    BY <2>1, IdFacts DEF Put, Alike
  <2> HIDE DEF w2
  <2> QED BY <1>1, <1>9, <2>2, FrozenKept
<1> QED BY <1>1, <1>3, <1>7, <1>8, <1>9, <1>10 DEF StateOK
--------------------------------------------------------------------------------
(* The actions of a transaction.                                           *)

(* A change one operation makes to the objects: none, or one of six.       *)
Changed(w, w2) ==
  \/ w2 = w
  \/ \E id \in IDs, v \in Values : ~w[id].live /\ w[Parent(id)].live /\ w2 = Grown(w, id, v)
  \/ \E id \in IDs : w[id].live /\ ~w[id].home /\ Kids(w, id) = {} /\ w2 = Pruned(w, id)
  \/ \E id \in Named : w[id].live /\ ~w[id].home /\ Droppable(w, id) /\ w2 = Dropped(w, id)
  \/ \E id \in IDs, v \in Plain : w[id].live /\ w2 = Put(w, id, Rewritten(w[id], v))
  \/ \E id \in Named : w[id].live /\ w[id].home /\ w2 = Put(w, id, Taken(w[id]))
  \/ \E id \in Named, u \in Users \cup {SystemOwner}, f \in SUBSET Flags :
       w[id].live /\ ~w[id].home /\ w2 = Put(w, id, Given(w[id], u, w[id].flag \cup f))

(* A loaded cache is as good as the one before.                            *)
LEMMA LoadedState ==
  ASSUME ObjectsInv, phase # "idle", NEW id \in All, NEW d, d = load_object(id)
  PROVE  /\ StateOK(store, d, hand, refs) /\ View(store, d) = View(store, rt)
         /\ id \in DOMAIN d /\ Parent(id) \in DOMAIN d /\ Root \in DOMAIN d
         /\ Untouched(rt) => Untouched(d)
<1>1. /\ TreeOK(store) /\ CacheOK(store, rt) /\ Root \in DOMAIN rt
      /\ WorldOK(View(store, rt), hand, refs) /\ FrozenOK(store, View(store, rt))
  BY DEF ObjectsInv
<1>2. /\ CacheOK(store, d) /\ View(store, d) = View(store, rt)
      /\ {id, Parent(id), Root} \subseteq DOMAIN d /\ (Untouched(rt) => Untouched(d))
  BY <1>1, ObjectLoads
<1> QED BY <1>1, <1>2 DEF StateOK

(* Who has a mutable Object<T> has an object that is there, and that is    *)
(* not frozen unless it is shared.                                         *)
LEMMA MutableFacts ==
  ASSUME ObjectsInv, NEW w, w = View(store, rt), NEW id \in Named \cup {Root}, HasMut(id)
  PROVE  /\ w[id].live
         /\ id \in Named => "frozen" \notin w[id].flag \/ "shared" \in w[id].flag
<1>1. WorldOK(w, hand, refs)
  BY DEF ObjectsInv
<1>2. ThingsOK(w) /\ FlagsOK(w) /\ RefsOK(w, refs)
  BY <1>1 DEF WorldOK
<1>3. CASE id \in Named /\ hand[id] > 0
  BY <1>1, <1>3, HandFacts
<1>4. CASE id \in Named /\ refs[id] \in {"mut", "argmut"}
  <2>1. w[id].home /\ ("frozen" \notin w[id].flag \/ "shared" \in w[id].flag)
    BY <1>2, <1>4 DEF RefsOK
  <2> QED BY <2>1, <1>2, <1>4, IdFacts DEF FlagsOK
<1>5. CASE id = Root /\ id \notin Named
  BY <1>2, <1>5 DEF ThingsOK
<1> QED BY <1>3, <1>4, <1>5 DEF HasMut

(* The flags a program sees are those of the object.                       *)
LEMMA SeenFlags ==
  ASSUME ObjectsInv, NEW w, w = View(store, rt), NEW id \in IDs, w[id].live
  PROVE  /\ Seen(id).flag = w[id].flag /\ Seen(id).owner = w[id].owner /\ Seen(id).value = w[id].value
<1>1. CacheOK(store, rt)
  BY DEF ObjectsInv
<1>2. CASE id \in DOMAIN rt
  <2>1. w[id] = Shown(rt[id])
    BY <1>1, <1>2, LiveNotLost, ViewOfEntry
  <2>2. Exists(rt[id].value)
    BY <2>1, ShownFacts
  <2>3. w[id].value = rt[id].value.v /\ w[id].owner = rt[id].owner /\ w[id].flag = rt[id].flag
    BY <2>1, <2>2, ShownFacts
  <2> QED BY <2>3, <1>2 DEF Seen
<1>3. CASE id \notin DOMAIN rt
  <2>1. w[id] = IF id \in DOMAIN store THEN Stored(store[id]) ELSE Gone
    BY <1>3, LiveNotLost DEF View, Now, Own
  <2>2. w[id] = Stored(store[id])
    BY <2>1, GoneFacts
  <2>3. w[id].value = store[id].value /\ w[id].owner = store[id].owner /\ w[id].flag = store[id].flag
    BY <2>2 DEF Stored, Thing
  <2> QED BY <2>3, <1>3 DEF Seen
<1> QED BY <1>2, <1>3

(* What exists for a program exists in the view.                           *)
LEMMA LiveFacts ==
  ASSUME ObjectsInv, NEW w, w = View(store, rt), NEW id \in IDs
  PROVE  Live(id) <=> w[id].live
<1>1. CacheOK(store, rt) /\ TreeOK(store) /\ ThingsOK(w)
  BY DEF ObjectsInv, WorldOK
<1> DEFINE p == Parent(id)
<1>2. p \in DOMAIN rt => rt[p] \in RuntimeObjects /\ (p = Root => rt[p].meta = "Cached")
  BY <1>1 DEF CacheOK, EntryOK
<1>3. w[id].live => w[p].live
  BY <1>1 DEF ThingsOK
<1>4. w[id].live /\ p \in DOMAIN rt => IsLive(rt[p])
  BY <1>1, <1>3, NotLost
<1>5. CASE id \in DOMAIN rt
  <2>1. p \in DOMAIN rt
    BY <1>1, <1>5 DEF CacheOK
  <2>2. Live(id) <=> Exists(rt[id].value) /\ IsLive(rt[p])
    BY <1>5 DEF Live
  <2>3. CASE Lost(rt, id)
    <3>1. ~w[id].live
      BY <2>3, LiveNotLost
    <3> QED BY <2>2, <2>3, <3>1 DEF Lost
  <2>4. CASE ~Lost(rt, id)
    <3>1. w[id].live <=> Exists(rt[id].value)
      BY <2>4, <1>1, <1>5, ViewOfEntry, ShownFacts
    <3> QED BY <2>1, <2>2, <3>1, <1>4, <1>1 DEF Live
  <2> QED BY <2>3, <2>4
<1>6. CASE id \notin DOMAIN rt
  <2>1. Live(id) <=> InTree(id)
    BY <1>6 DEF Live
  <2>2. w[id] = IF Lost(rt, id) \/ id \notin DOMAIN store THEN Gone ELSE Stored(store[id])
    BY <1>6 DEF View, Now, Own
  <2>3. Stored(store[id]).live
    BY DEF Stored, Thing
  <2>4. ASSUME InTree(id) PROVE w[id].live
    <3>1. id \in DOMAIN store /\ (p \in DOMAIN rt => IsLive(rt[p]))
      BY <2>4, <1>2 DEF InTree, IsLive, RuntimeObjects
    <3> QED BY <3>1, <2>2, <2>3 DEF Lost
  <2>5. ASSUME w[id].live PROVE InTree(id)
    <3>1. id \in DOMAIN store
      BY <2>2, <2>5, GoneFacts
    <3> SUFFICES ASSUME p \in DOMAIN rt PROVE rt[p].meta = "Cached"
      BY <3>1 DEF InTree
    <3>2. IsLive(rt[p])
      BY <2>5, <1>4
    <3>3. rt[p].meta # "Fresh"
      <4> SUFFICES ASSUME rt[p].meta = "Fresh" PROVE FALSE
        OBVIOUS
      <4>1. p # Root /\ p \in DOMAIN store
        BY <3>1, <1>1, <1>2 DEF TreeOK
      <4>2. AllBelow(store, rt, p)
        BY <4>1, <1>1 DEF CacheOK, Forgotten
      <4> QED BY <4>2, <3>1, <1>6 DEF AllBelow
    <3> QED BY <3>2, <3>3 DEF IsLive
  <2> QED BY <2>1, <2>4, <2>5
<1> QED BY <1>5, <1>6

(* New and AddField, but for the handle of the new object.                 *)
LEMMA AddsOne ==
  ASSUME ObjectsInv, Restrained, NEW id \in IDs, NEW v \in Values, CanAdd(id, v),
         id \in Named => load_object(id)[id].size = 0,
         NEW h2, HandIn(h2, hand, id, v),
         NEW d, d = Resize([load_object(id) EXCEPT ![id] = move_to(@, v)], id, 1)
  PROVE  StateOK(store, d, h2, refs) /\ Changed(View(store, rt), View(store, d))
<1> DEFINE w == View(store, rt)
           c == load_object(id)
           p == Parent(id)
<1>1. /\ phase # "idle" /\ HasMut(p) /\ ~Exists(c[id].value)
      /\ v \in Named => hand[v] > 0 /\ v # id /\ "shared" \notin Seen(v).flag
  BY DEF CanAdd, InTx, Restrained
<1>2. StateOK(store, c, hand, refs) /\ View(store, c) = w /\ id \in DOMAIN c /\ p \in DOMAIN c
  BY <1>1, LoadedState
<1>3. d = Resize([c EXCEPT ![id] = move_to(@, v)], id, 1) /\ (id \in Named => c[id].size = 0)
  OBVIOUS
<1> HIDE DEF c
<1>4. w[p].live
  BY <1>1, IdFacts, MutableFacts
<1>5. v \in Named => w[v].flag = {}
  <2> SUFFICES ASSUME v \in Named PROVE w[v].flag = {}
    OBVIOUS
  <2>1. WorldOK(w, hand, refs)
    BY DEF ObjectsInv
  <2>2. w[v].live /\ "frozen" \notin w[v].flag
    BY <1>1, <2>1, HandFacts
  <2>3. "shared" \notin w[v].flag
    BY <1>1, <2>2, IdFacts, SeenFlags
  <2>4. w[v].flag \in SUBSET Flags
    BY <2>1, IdFacts DEF WorldOK, ThingsOK, Things
  <2> QED BY <2>2, <2>3, <2>4 DEF Flags
<1>6. StateOK(store, d, h2, refs) /\ View(store, d) = Grown(w, id, v)
  BY <1>1, <1>2, <1>3, <1>4, <1>5, Created
<1>7. ~w[id].live
  <2>1. CacheOK(store, c)
    BY <1>2 DEF StateOK
  <2>2. ~Lost(c, id)
    BY <1>2, <1>4, <2>1, NotLost
  <2> QED BY <1>1, <1>2, <2>1, <2>2, ViewOfEntry, ShownFacts
<1> QED BY <1>4, <1>6, <1>7 DEF Changed

(* Remove and RemoveField.                                                 *)
LEMMA RemovesOne ==
  ASSUME ObjectsInv, Restrained, NEW id \in IDs, CanRemove(id),
         id \in Named => hand[id] > 0 /\ load_object(id)[id].size = 0,
         id \in Fields => HasMut(Parent(id)),
         NEW h2, HandOut(h2, hand, id, load_object(id)[id].value.v),
         NEW d, d = Resize([load_object(id) EXCEPT ![id] = move_from(@)], id, -1)
  PROVE  StateOK(store, d, h2, refs) /\ Changed(View(store, rt), View(store, d))
<1> DEFINE w == View(store, rt)
           c == load_object(id)
           p == Parent(id)
<1>1. /\ phase # "idle" /\ Exists(c[id].value) /\ c[p].size > 0
      /\ ~(c[id].meta = "Fresh" /\ c[id].value.st = "Dirty")
  BY DEF CanRemove, InTx, Restrained
<1>2. StateOK(store, c, hand, refs) /\ View(store, c) = w /\ id \in DOMAIN c /\ p \in DOMAIN c
  BY <1>1, LoadedState
<1>3. /\ d = Resize([c EXCEPT ![id] = move_from(@)], id, -1) /\ HandOut(h2, hand, id, c[id].value.v)
      /\ id \in Named => hand[id] > 0 /\ c[id].size = 0
  OBVIOUS
<1> HIDE DEF c
<1>4. CacheOK(store, c) /\ WorldOK(w, hand, refs)
  BY <1>2 DEF StateOK
<1>a. ~Lost(c, id)
  <2>1. CASE id \in Fields
    BY <2>1, <1>2, <1>4, IdFacts, MutableFacts, NotLost
  <2>2. CASE id \notin Fields
    BY <2>2 DEF Lost
  <2> QED BY <2>1, <2>2
<1>5. Kids(w, id) = {}
  <2>1. CASE id \in Named
    <3>1. w[id].size = c[id].size
      BY <1>1, <1>2, <1>4, <1>a, ViewOfEntry, ShownFacts
    <3>2. Cardinality(Kids(w, id)) = 0
      BY <3>1, <2>1, <1>3, <1>4 DEF WorldOK, SizesOK
    <3>3. IsFiniteSet(Kids(w, id))
      BY <1>4, CountedSets DEF WorldOK
    <3> QED BY <3>2, <3>3, CountOne
  <2>2. CASE id \notin Named
    BY <2>2, IdFacts DEF Kids
  <2> QED BY <2>1, <2>2
<1>6. /\ StateOK(store, d, h2, refs) /\ View(store, d) = Pruned(w, id) /\ w[id].live /\ ~w[id].home
  BY <1>1, <1>2, <1>3, <1>5, <1>a, Removed, SMTT(30)
<1> QED BY <1>5, <1>6 DEF Changed

(* Gain gives or takes one handle.                                         *)
LEMMA GainFacts ==
  ASSUME NEW h \in [Named -> Nat], NEW v, NEW n \in Int
  PROVE  /\ Gain(h, v, n) \in [Named -> Int]
         /\ \A k \in Named : Gain(h, v, n)[k] = h[k] + (IF k = v THEN n ELSE 0)
<1>1. CASE v \in Named
  <2>1. Gain(h, v, n) = [h EXCEPT ![v] = h[v] + n]
    BY <1>1 DEF Gain
  <2> QED BY <2>1, <1>1
<1>2. CASE v \notin Named
  <2>1. Gain(h, v, n) = h
    BY <1>2 DEF Gain
  <2> QED BY <2>1, <1>2
<1> QED BY <1>1, <1>2

(* What an operation of a transaction establishes.                         *)
Operates ==
  /\ StateOK(store, rt', hand', refs') /\ Changed(View(store, rt), View(store, rt'))
  /\ UNCHANGED <<store, phase, sender>>
  /\ phase = "args" => Untouched(rt')

(* New: the program gets the handle of the object it creates.              *)
LEMMA NewOperates ==
  ASSUME ObjectsInv, Restrained, NEW id \in Named, NEW v \in Values, New(id, v)
  PROVE  Operates
<1>1. hand \in [Named -> Nat] /\ id \in IDs
  BY IdFacts DEF ObjectsInv, WorldOK
<1> DEFINE g == [hand EXCEPT ![id] = hand[id] + 1]
<1>2. g \in [Named -> Nat] /\ \A k \in Named : g[k] = hand[k] + (IF k = id THEN 1 ELSE 0)
  BY <1>1
<1>3. hand' = Gain(g, v, -1)
  BY DEF New
<1> HIDE DEF g
<1>4. HandIn(hand', hand, id, v)
  <2>1. /\ hand' \in [Named -> Int]
        /\ \A k \in Named : hand'[k] = g[k] + (IF k = v THEN -1 ELSE 0)
    BY <1>2, <1>3, GainFacts
  <2>2. \A k \in Named : hand'[k] = hand[k] + (IF k = id THEN 1 ELSE 0) - (IF k = v THEN 1 ELSE 0)
    <3> SUFFICES ASSUME NEW k \in Named
                 PROVE  hand'[k] = hand[k] + (IF k = id THEN 1 ELSE 0) - (IF k = v THEN 1 ELSE 0)
      OBVIOUS
    <3>1. hand'[k] = g[k] + (IF k = v THEN -1 ELSE 0) /\ g[k] = hand[k] + (IF k = id THEN 1 ELSE 0) /\ hand[k] \in Nat
      BY <1>1, <1>2, <2>1
    <3> QED BY <3>1
  <2> QED BY <2>1, <2>2 DEF HandIn
<1>5. /\ CanAdd(id, v) /\ rt' = Resize([load_object(id) EXCEPT ![id] = move_to(@, v)], id, 1)
      /\ load_object(id)[id].size = 0
      /\ UNCHANGED <<store, phase, sender, refs>> /\ phase = "run"
  BY DEF New, Step, CanAdd, InTx
<1>6. StateOK(store, rt', hand', refs) /\ Changed(View(store, rt), View(store, rt'))
  BY <1>1, <1>4, <1>5, AddsOne
<1> QED BY <1>5, <1>6 DEF Operates

(* AddField: the handle of a dynamic field is dropped.                     *)
LEMMA AddFieldOperates ==
  ASSUME ObjectsInv, Restrained, NEW id \in Fields, NEW v \in Values, AddField(id, v)
  PROVE  Operates
<1>1. hand \in [Named -> Nat] /\ id \in IDs /\ id \notin Named
  BY IdFacts DEF ObjectsInv, WorldOK
<1>2. hand' = Gain(hand, v, -1)
  BY DEF AddField
<1>3. HandIn(hand', hand, id, v)
  <2>1. /\ hand' \in [Named -> Int]
        /\ \A k \in Named : hand'[k] = hand[k] + (IF k = v THEN -1 ELSE 0)
    BY <1>1, <1>2, GainFacts
  <2>2. \A k \in Named : hand'[k] = hand[k] + (IF k = id THEN 1 ELSE 0) - (IF k = v THEN 1 ELSE 0)
    BY <1>1, <2>1
  <2> QED BY <2>1, <2>2 DEF HandIn
<1>4. /\ CanAdd(id, v) /\ rt' = Resize([load_object(id) EXCEPT ![id] = move_to(@, v)], id, 1)
      /\ UNCHANGED <<store, phase, sender, refs>> /\ phase = "run"
  BY DEF AddField, Step, CanAdd, InTx
<1>5. StateOK(store, rt', hand', refs) /\ Changed(View(store, rt), View(store, rt'))
  BY <1>1, <1>3, <1>4, AddsOne
<1> QED BY <1>4, <1>5 DEF Operates

(* RemoveField: the program gets the handle that was in the field.         *)
LEMMA RemoveFieldOperates ==
  ASSUME ObjectsInv, Restrained, NEW id \in Fields, RemoveField(id)
  PROVE  Operates
<1> DEFINE v == load_object(id)[id].value.v
<1>1. hand \in [Named -> Nat] /\ id \in IDs /\ id \notin Named
  BY IdFacts DEF ObjectsInv, WorldOK
<1>2. hand' = Gain(hand, v, 1)
  BY DEF RemoveField
<1>3. HandOut(hand', hand, id, v)
  <2> HIDE DEF v
  <2>1. /\ hand' \in [Named -> Int]
        /\ \A k \in Named : hand'[k] = hand[k] + (IF k = v THEN 1 ELSE 0)
    BY <1>1, <1>2, GainFacts
  <2>2. \A k \in Named : hand'[k] = hand[k] - (IF k = id THEN 1 ELSE 0) + (IF k = v THEN 1 ELSE 0)
    BY <1>1, <2>1
  <2> QED BY <2>1, <2>2 DEF HandOut
<1>4. /\ CanRemove(id) /\ rt' = Resize([load_object(id) EXCEPT ![id] = move_from(@)], id, -1)
      /\ HasMut(Parent(id)) /\ UNCHANGED <<store, phase, sender, refs>> /\ phase = "run"
  BY DEF RemoveField, Step, CanRemove, InTx
<1>5. StateOK(store, rt', hand', refs) /\ Changed(View(store, rt), View(store, rt'))
  BY <1>1, <1>3, <1>4, RemovesOne
<1> QED BY <1>4, <1>5 DEF Operates

(* Remove: no field is left, and the handle is consumed.                   *)
LEMMA RemoveOperates ==
  ASSUME ObjectsInv, Restrained, NEW id \in Named, Remove(id)
  PROVE  Operates
<1> DEFINE v == load_object(id)[id].value.v
           g == [hand EXCEPT ![id] = hand[id] - 1]
<1>1. /\ hand \in [Named -> Nat] /\ id \in IDs /\ id \notin Fields /\ hand[id] > 0
      /\ load_object(id)[id].size = 0
  BY IdFacts DEF ObjectsInv, WorldOK, Remove
<1>2. g \in [Named -> Nat] /\ \A k \in Named : g[k] = hand[k] - (IF k = id THEN 1 ELSE 0)
  BY <1>1
<1>3. hand' = Gain(g, v, 1)
  BY DEF Remove
<1>4. HandOut(hand', hand, id, v)
  <2> HIDE DEF v, g
  <2>1. /\ hand' \in [Named -> Int]
        /\ \A k \in Named : hand'[k] = g[k] + (IF k = v THEN 1 ELSE 0)
    BY <1>2, <1>3, GainFacts
  <2>2. \A k \in Named : hand'[k] = hand[k] - (IF k = id THEN 1 ELSE 0) + (IF k = v THEN 1 ELSE 0)
    <3> SUFFICES ASSUME NEW k \in Named
                 PROVE  hand'[k] = hand[k] - (IF k = id THEN 1 ELSE 0) + (IF k = v THEN 1 ELSE 0)
      OBVIOUS
    <3>1. hand'[k] = g[k] + (IF k = v THEN 1 ELSE 0) /\ g[k] = hand[k] - (IF k = id THEN 1 ELSE 0) /\ hand[k] \in Nat
      BY <1>1, <1>2, <2>1
    <3> QED BY <3>1
  <2> QED BY <2>1, <2>2 DEF HandOut
<1>5. /\ CanRemove(id) /\ rt' = Resize([load_object(id) EXCEPT ![id] = move_from(@)], id, -1)
      /\ UNCHANGED <<store, phase, sender, refs>> /\ phase = "run"
  BY DEF Remove, Step, CanRemove, InTx
<1>6. StateOK(store, rt', hand', refs) /\ Changed(View(store, rt), View(store, rt'))
  BY <1>1, <1>4, <1>5, RemovesOne
<1> QED BY <1>5, <1>6 DEF Operates

(* DropContainer: what is below the container goes with it, and no handle  *)
(* lies there.                                                             *)
LEMMA DropContainerOperates ==
  ASSUME ObjectsInv, Restrained, NEW id \in Named, DropContainer(id)
  PROVE  Operates
<1> DEFINE w == View(store, rt)
           c == load_object(id)
           p == Parent(id)
<1>1. /\ phase = "run" /\ Exists(c[id].value) /\ c[p].size > 0 /\ hand[id] > 0
      /\ ~(c[id].meta = "Fresh" /\ c[id].value.st = "Dirty")
      /\ rt' = Resize([c EXCEPT ![id] = move_from(@)], id, -1) /\ hand' = OneLess(hand, id)
      /\ UNCHANGED <<store, phase, sender, refs>>
  BY DEF DropContainer, CanRemove, InTx, Step, Restrained, OneLess
<1>2. /\ Seen(id).value \in Plain
      /\ \A k \in LiveIDs : Parent(k) = id => k \in Fields /\ Seen(k).value \in Plain
  BY DEF DropContainer, MayDrop
<1>3. /\ StateOK(store, c, hand, refs) /\ View(store, c) = w /\ id \in DOMAIN c /\ p \in DOMAIN c
      /\ id \in IDs /\ id \notin Fields
  BY <1>1, LoadedState, IdFacts
<1> HIDE DEF c
<1>4. CacheOK(store, c) /\ WorldOK(w, hand, refs) /\ hand \in [Named -> Nat]
  BY <1>3 DEF StateOK, WorldOK
<1>5. w[id].live /\ w[id].value = c[id].value.v
  BY <1>1, <1>3, <1>4, ViewOfNamed, ShownFacts
<1>6. c[id].value.v \notin Named
  BY <1>2, <1>3, <1>5, SeenFlags, ValueFacts
<1>7. HandOut(hand', hand, id, c[id].value.v)
  BY <1>1, <1>4, <1>6 DEF HandOut, OneLess
<1>8. Droppable(w, id)
  <2> SUFFICES ASSUME NEW k \in IDs, w[k].live, Parent(k) = id PROVE k \in Fields /\ w[k].value \in Plain
    BY DEF Droppable, Kids
  <2>1. k \in LiveIDs
    BY LiveFacts DEF LiveIDs
  <2> QED BY <2>1, <1>2, SeenFlags
<1>9. StateOK(store, rt', hand', refs) /\ View(store, rt') = Dropped(w, id) /\ ~w[id].home
  BY <1>1, <1>3, <1>7, <1>8, DroppedFrom
<1> QED BY <1>1, <1>5, <1>8, <1>9 DEF Operates, Changed

(* Read: objects are loaded and nothing else happens.                      *)
LEMMA ReadOperates ==
  ASSUME ObjectsInv, NEW id \in IDs, Read(id)
  PROVE  Operates
<1>1. phase = "run" /\ rt' = load_object(id) /\ UNCHANGED <<store, phase, sender, hand, refs>>
  BY DEF Read, InTx, Step
<1>2. StateOK(store, rt', hand, refs) /\ View(store, rt') = View(store, rt)
  BY <1>1, LoadedState
<1> QED BY <1>1, <1>2 DEF Operates, Changed

(* WriteValue: who may write has a mutable object that is not frozen.      *)
LEMMA WriteOperates ==
  ASSUME ObjectsInv, NEW id \in IDs, NEW v \in Plain, WriteValue(id, v)
  PROVE  Operates
<1> DEFINE w == View(store, rt)
           c == load_object(id)
<1>1. /\ phase = "run" /\ UNCHANGED <<store, phase, sender, hand, refs>>
      /\ Exists(c[id].value) /\ c[id].value.v \in Plain
      /\ rt' = WriteIn(c, id, v)
      /\ IF id \in Named THEN HasMut(id) ELSE HasMut(Parent(id))
  BY DEF WriteValue, InTx, Step, WriteIn
<1>2. /\ StateOK(store, c, hand, refs) /\ View(store, c) = w /\ id \in DOMAIN c /\ Parent(id) \in DOMAIN c
      /\ CacheOK(store, c)
  BY <1>1, LoadedState DEF StateOK
<1>3. id \in Named => "frozen" \notin w[id].flag \/ "shared" \in w[id].flag
  BY <1>1, MutableFacts
<1> HIDE DEF c
<1>a. ~Lost(c, id)
  <2>1. CASE id \in Fields
    BY <2>1, <1>1, <1>2, IdFacts, MutableFacts, NotLost
  <2>2. CASE id \notin Fields
    BY <2>2 DEF Lost
  <2> QED BY <2>1, <2>2
<1>4. StateOK(store, rt', hand, refs) /\ View(store, rt') = Put(w, id, Rewritten(w[id], v)) /\ w[id].live
  BY <1>1, <1>2, <1>3, <1>a, WrittenTo
<1> QED BY <1>1, <1>4 DEF Operates, Changed

(* A reference may be made to an object whose pointer is free.             *)
LEMMA Borrows ==
  ASSUME ObjectsInv, phase # "idle", NEW id \in Named, NEW kind \in {"ref", "mut", "arg", "argmut"},
         NEW c, c = load_object(id), Exists(c[id].pointer),
         kind \in {"mut", "argmut"} =>
           "frozen" \notin View(store, rt)[id].flag \/ "shared" \in View(store, rt)[id].flag,
         NEW r2, r2 = [refs EXCEPT ![id] = kind]
  PROVE  StateOK(store, c, hand, r2) /\ View(store, c) = View(store, rt) /\ (Untouched(rt) => Untouched(c))
<1> DEFINE w == View(store, rt)
<1>1. /\ StateOK(store, c, hand, refs) /\ View(store, c) = w /\ id \in DOMAIN c /\ (Untouched(rt) => Untouched(c))
      /\ id \in IDs /\ id \in DOMAIN c \ {Root}
  BY LoadedState, IdFacts
<1>2. CacheOK(store, c) /\ WorldOK(w, hand, refs)
  BY <1>1 DEF StateOK
<1>3. w[id].home
  <2>1. Exists(c[id].value)
    BY <1>1, <1>2, EntryFacts
  <2> QED BY <2>1, <1>1, <1>2, ViewOfNamed, ShownFacts, IdFacts
<1>4. WorldOK(w, hand, r2)
  BY <1>2, <1>3, WorldBorrows
<1> QED BY <1>1, <1>4 DEF StateOK

(* BorrowObject: a mutable reference is not to a frozen object, unless it  *)
(* is shared: nobody owns a frozen object.                                 *)
LEMMA BorrowOperates ==
  ASSUME ObjectsInv, NEW id \in Named, NEW kind \in {"ref", "mut"}, BorrowObject(id, kind)
  PROVE  Operates
<1> DEFINE w == View(store, rt)
           c == load_object(id)
<1>1. /\ phase = "run" /\ UNCHANGED <<store, phase, sender, hand>>
      /\ Exists(c[id].value) /\ Exists(c[id].pointer) /\ rt' = c /\ refs' = [refs EXCEPT ![id] = kind]
      /\ kind = "mut" => c[id].owner = sender \/ "frozen" \notin c[id].flag \/ "shared" \in c[id].flag
  BY DEF BorrowObject, CanBorrow, InTx, Step, PointerFree
<1>2. StateOK(store, c, hand, refs) /\ View(store, c) = w /\ id \in DOMAIN c /\ id \in IDs
  BY <1>1, LoadedState, IdFacts
<1> HIDE DEF c
<1>3. CacheOK(store, c) /\ WorldOK(w, hand, refs)
  BY <1>2 DEF StateOK
<1>4. w[id].owner = c[id].owner /\ w[id].flag = c[id].flag
  BY <1>1, <1>2, <1>3, ViewOfNamed, ShownFacts, IdFacts
<1>5. kind = "mut" => "frozen" \notin w[id].flag \/ "shared" \in w[id].flag
  <2>1. sender # SystemOwner
    BY ObjectAssumption DEF ObjectsInv
  <2> QED BY <2>1, <1>1, <1>3, <1>4 DEF WorldOK, FlagsOK
<1>6. StateOK(store, c, hand, refs') /\ View(store, c) = w
  BY <1>1, <1>5, Borrows DEF c
<1> QED BY <1>1, <1>6 DEF Operates, Changed

(* DropReference.                                                          *)
LEMMA DropOperates ==
  ASSUME ObjectsInv, NEW id \in Named, DropReference(id)
  PROVE  Operates
<1>1. phase = "run" /\ UNCHANGED <<store, rt, phase, sender, hand>> /\ refs' = [refs EXCEPT ![id] = "none"]
  BY DEF DropReference
<1>2. WorldOK(View(store, rt), hand, refs')
  BY <1>1, WorldBorrows DEF ObjectsInv
<1>3. StateOK(store, rt, hand, refs')
  BY <1>1, <1>2 DEF ObjectsInv, StateOK
<1> QED BY <1>1, <1>3 DEF Operates, Changed

(* TakeObject: a frozen object has no owner who could take it.             *)
LEMMA TakeOperates ==
  ASSUME ObjectsInv, Restrained, NEW id \in Named, TakeObject(id)
  PROVE  Operates
<1> DEFINE w == View(store, rt)
           c == load_object(id)
<1>1. /\ phase = "run" /\ UNCHANGED <<store, phase, sender, refs>> /\ refs[id] = "none"
      /\ Exists(c[id].pointer) /\ c[id].pointer.st # "Fresh" /\ (c[id].owner = sender \/ "frozen" \notin c[id].flag)
      /\ rt' = TakeFrom(c, id) /\ hand' = OneMore(hand, id)
  BY DEF TakeObject, CanTake, InTx, Step, PointerFree, Borrowed, Restrained, TakeFrom, OneMore
<1>2. StateOK(store, c, hand, refs) /\ View(store, c) = w /\ id \in DOMAIN c /\ id \in IDs /\ id \in DOMAIN c \ {Root}
  BY <1>1, LoadedState, IdFacts
<1> HIDE DEF c
<1>3. CacheOK(store, c) /\ WorldOK(w, hand, refs)
  BY <1>2 DEF StateOK
<1>4. w[id].owner = c[id].owner /\ w[id].flag = c[id].flag
  <2>1. Exists(c[id].value)
    BY <1>1, <1>2, <1>3, EntryFacts
  <2> QED BY <2>1, <1>2, <1>3, ViewOfNamed, ShownFacts, IdFacts
<1>5. "frozen" \notin w[id].flag
  <2>1. sender # SystemOwner
    BY ObjectAssumption DEF ObjectsInv
  <2> QED BY <2>1, <1>1, <1>3, <1>4 DEF WorldOK, FlagsOK
<1>6. StateOK(store, rt', hand', refs) /\ View(store, rt') = Put(w, id, Taken(w[id])) /\ w[id].home /\ w[id].live
  BY <1>1, <1>2, <1>5, TakenOut
<1> QED BY <1>1, <1>6 DEF Operates, Changed

(* ReturnPointer, with the owners and flags of its three callers.          *)
LEMMA ReturnOperates ==
  ASSUME ObjectsInv, NEW id \in Named, NEW u, NEW f, MayReturn(u, f), ReturnPointer(id, u, f)
  PROVE  Operates
<1> DEFINE w == View(store, rt)
           c == load_object(id)
<1>1. /\ phase = "run" /\ UNCHANGED <<store, phase, sender, refs>> /\ hand[id] > 0
      /\ IsLive(c[id]) /\ ~Exists(c[id].pointer)
      /\ rt' = ReturnTo(c, id, u, f)
      /\ hand' = OneLess(hand, id)
  BY DEF ReturnPointer, InTx, Step, ReturnTo, OneLess
<1>2. StateOK(store, c, hand, refs) /\ View(store, c) = w /\ id \in DOMAIN c /\ id \in IDs
  BY <1>1, LoadedState, IdFacts
<1> HIDE DEF c
<1>3. /\ StateOK(store, rt', hand', refs) /\ View(store, rt') = Put(w, id, Given(w[id], u, w[id].flag \cup f))
      /\ w[id].live /\ ~w[id].home
  BY <1>1, <1>2, GivenBack
<1>4. u \in Users \cup {SystemOwner} /\ f \in SUBSET Flags
  BY DEF MayReturn
<1> QED BY <1>1, <1>3, <1>4 DEF Operates, Changed

(* LoadArgument: the tree, which it asks, still says what the cache says.  *)
LEMMA ArgumentOperates ==
  ASSUME ObjectsInv, NEW id \in Named, NEW kind \in {"arg", "argmut", "value"}, LoadArgument(id, kind)
  PROVE  Operates
<1> DEFINE w == View(store, rt)
           c == load_object(id)
<1>1. /\ phase = "args" /\ UNCHANGED <<store, phase, sender>> /\ refs[id] = "none" /\ id \in DOMAIN store
      /\ Exists(c[id].pointer) /\ (kind # "arg" => "frozen" \notin store[id].flag)
  BY DEF LoadArgument, PointerFree, Borrowed
<1>2. /\ StateOK(store, c, hand, refs) /\ View(store, c) = w /\ id \in DOMAIN c /\ id \in IDs
      /\ id \in DOMAIN c \ {Root} /\ Untouched(c)
  BY <1>1, LoadedState, IdFacts DEF ObjectsInv
<1>3. CacheOK(store, c) /\ WorldOK(w, hand, refs)
  BY <1>2 DEF StateOK
<1>4. w[id].flag = store[id].flag
  <2> HIDE DEF c
  <2>1. Exists(c[id].value) /\ EntryOK(store, id, c[id]) /\ c[id].meta \in {"None", "Cached"} /\ ~c[id].dirty /\ IsLive(c[id])
    BY <1>1, <1>2, <1>3, EntryFacts DEF Untouched
  <2>2. c[id].flag = store[id].flag
    BY <2>1, <1>1 DEF EntryOK, OldEntry, IsLive
  <2> QED BY <2>1, <2>2, <1>2, <1>3, ViewOfNamed, ShownFacts, IdFacts
<1>5. CASE kind = "value"
  <2>1. rt' = TakeFrom(c, id) /\ hand' = OneMore(hand, id) /\ refs' = refs
    BY <1>5 DEF LoadArgument, TakeFrom, OneMore
  <2> HIDE DEF c
  <2>2. c[id].pointer.st # "Fresh" /\ "frozen" \notin w[id].flag
    BY <1>1, <1>2, <1>4, <1>5 DEF Untouched
  <2>3. StateOK(store, rt', hand', refs) /\ View(store, rt') = Put(w, id, Taken(w[id])) /\ w[id].home /\ w[id].live
    BY <1>1, <1>2, <2>1, <2>2, TakenOut
  <2>4. Untouched(rt')
    <3>1. c = [k \in DOMAIN c |-> c[k]] /\ c[id] \in RuntimeObjects
      BY <1>2, <1>3, EntryFacts DEF CacheOK
    <3> DEFINE q == WithPointer(c[id], MoveFrom(c[id].pointer))
    <3>2. rt' = Put(c, id, q)
      BY <3>1, <2>1 DEF Put, WithPointer, TakeFrom
    <3>3. q.meta = c[id].meta /\ q.dirty = c[id].dirty /\ q.pointer.st # "Fresh"
      BY <3>1 DEF WithPointer, RuntimeObjects, MoveFrom
    <3> HIDE DEF q
    <3>4. DOMAIN rt' = DOMAIN c /\ rt'[id] = q /\ \A k \in DOMAIN c : k # id => rt'[k] = c[k]
      <4> DEFINE d == Put(c, id, q)
      <4>1. DOMAIN d = DOMAIN c /\ d[id] = q /\ \A k \in DOMAIN c : k # id => d[k] = c[k]
        BY <1>2 DEF Put
      <4> QED BY <4>1, <3>2
    <3> QED BY <3>3, <3>4, <1>2 DEF Untouched
  <2> QED BY <1>1, <2>1, <2>3, <2>4 DEF Operates, Changed
<1>6. CASE kind # "value"
  <2>1. rt' = c /\ hand' = hand /\ refs' = [refs EXCEPT ![id] = kind]
    BY <1>6 DEF LoadArgument
  <2>2. kind \in {"mut", "argmut"} => "frozen" \notin w[id].flag \/ "shared" \in w[id].flag
    BY <1>1, <1>4
  <2>3. StateOK(store, c, hand, refs') /\ View(store, c) = w
    BY <1>1, <1>6, <2>1, <2>2, Borrows
  <2> QED BY <1>1, <1>2, <2>1, <2>3 DEF Operates, Changed
<1> QED BY <1>5, <1>6
--------------------------------------------------------------------------------
(* The change set.                                                         *)

(* The objects after a commit: who is not at home belongs to the system.   *)
Settle(t) == IF t.live /\ ~t.home THEN Thing(t.value, SystemOwner, t.flag, t.size, FALSE) ELSE t

(* What the tree o must say for object t.                                  *)
Records(o, t) ==
  /\ o \in TreeObjects /\ o.value = t.value /\ o.flag = t.flag /\ o.size = t.size
  /\ o.owner = (IF t.home THEN t.owner ELSE SystemOwner)
  /\ t.home <=> ~is_embeded(o)

(* It says Settle(t).                                                      *)
LEMMA RecordsSettle ==
  ASSUME NEW o, NEW t \in Things, t.live, Records(o, t)
  PROVE  Stored(o) = Settle(t)
<1>1. /\ o.value = t.value /\ o.flag = t.flag /\ o.size = t.size
      /\ o.owner = (IF t.home THEN t.owner ELSE SystemOwner) /\ (t.home <=> ~is_embeded(o))
  BY DEF Records
<1>2. CASE t.home
  <2>1. Settle(t) = t /\ is_embeded(o) = FALSE /\ t.home = TRUE /\ o.owner = t.owner
    BY <1>1, <1>2 DEF Settle, is_embeded, Things
  <2>2. Stored(o) = Thing(t.value, t.owner, t.flag, t.size, TRUE)
    <3>1. Stored(o) = Thing(o.value, o.owner, o.flag, o.size, ~is_embeded(o)) /\ (~is_embeded(o)) = TRUE
      BY <2>1 DEF Stored
    <3> QED BY <3>1, <1>1, <2>1
  <2>3. t = Thing(t.value, t.owner, t.flag, t.size, TRUE)
    BY <2>1 DEF Thing, Things
  <2> QED BY <2>1, <2>2, <2>3
<1>3. CASE ~t.home
  <2>1. o.owner = SystemOwner /\ (~is_embeded(o)) = FALSE
    BY <1>1, <1>3 DEF is_embeded
  <2>2. Stored(o) = Thing(o.value, o.owner, o.flag, o.size, ~is_embeded(o))
    BY DEF Stored
  <2>3. Settle(t) = Thing(t.value, SystemOwner, t.flag, t.size, FALSE)
    BY <1>3 DEF Settle
  <2> QED BY <1>1, <2>1, <2>2, <2>3
<1> QED BY <1>2, <1>3

(* An object that exists, whose handle is in another object, has no flags. *)
LEMMA EmbeddedFlags ==
  ASSUME NEW w, NEW h, NEW r, WorldOK(w, h, r), NEW id \in IDs, w[id].live, ~w[id].home,
         \A k \in Named : h[k] = 0
  PROVE  w[id].flag = {}
<1>1. FlagsOK(w) /\ HandlesOK(w, h) /\ ThingsOK(w)
  BY DEF WorldOK
<1>2. CASE id \in Named
  <2>1. IsFiniteSet(HeldBy(w, id))
    BY <1>1, <1>2, CountedSets
  <2> DEFINE n == Cardinality(HeldBy(w, id))
  <2>2. n \in Nat /\ (n = 0 <=> HeldBy(w, id) = {})
    BY <2>1, CountOne
  <2>3. h[id] + n + (IF w[id].home THEN 1 ELSE 0) = (IF w[id].live THEN 1 ELSE 0) /\ h[id] = 0
    BY <1>1, <1>2 DEF HandlesOK
  <2> HIDE DEF n
  <2>4. n = 1
    BY <2>2, <2>3
  <2> QED BY <2>2, <2>4, <1>1, <1>2 DEF FlagsOK
<1>3. CASE id \in Fields
  BY <1>1, <1>3 DEF FlagsOK, is_embeded
<1> QED BY <1>2, <1>3, IdFacts

(* Deleted are the loaded objects of the tree that were removed; what is   *)
(* written exists.                                                         *)
LEMMA DeletedFacts ==
  ASSUME CacheOK(store, rt)
  PROVE  /\ \A id : id \in Deleted <=> id \in DOMAIN rt \ {Root} /\ rt[id].meta = "Deleted"
         /\ \A id \in DOMAIN rt \ {Root} : HasChange(id) /\ id \notin Deleted => Exists(rt[id].value)
         /\ \A id \in Deleted : ~Exists(rt[id].value)
<1>1. \A id \in DOMAIN rt \ {Root} : rt[id].meta = "Deleted" <=> rt[id].value.st = "Deleted"
  <2> SUFFICES ASSUME NEW id \in DOMAIN rt \ {Root} PROVE rt[id].meta = "Deleted" <=> rt[id].value.st = "Deleted"
    OBVIOUS
  <2>1. EntryOK(store, id, rt[id])
    BY DEF CacheOK
  <2> QED BY <2>1 DEF EntryOK, OldEntry, NewEntry, None
<1>2. \A g : Effect(g) = "Delete" <=> g.st = "Deleted"
  BY DEF Effect
<1>3. \A id \in DOMAIN rt \ {Root} : rt[id].meta = "Deleted" => HasChange(id)
  BY DEF HasChange, HasOwnChange
<1>4. \A id : id \in Deleted <=> id \in DOMAIN rt \ {Root} /\ rt[id].meta = "Deleted"
  BY <1>1, <1>2, <1>3 DEF Deleted
<1>5. \A id \in DOMAIN rt \ {Root} : HasChange(id) /\ id \notin Deleted => Exists(rt[id].value)
  <2> SUFFICES ASSUME NEW id \in DOMAIN rt \ {Root}, HasChange(id), id \notin Deleted PROVE Exists(rt[id].value)
    OBVIOUS
  <2>1. rt[id].meta # "None" /\ rt[id].meta # "Deleted" /\ rt[id] \in RuntimeObjects
    BY <1>4, EntryFacts DEF HasChange, HasOwnChange
  <2>2. IsLive(rt[id])
    BY <2>1 DEF IsLive, RuntimeObjects
  <2> QED BY <2>2, EntryFacts
<1>6. \A id \in Deleted : ~Exists(rt[id].value)
  BY <1>1, <1>4 DEF Exists
<1> QED BY <1>4, <1>5, <1>6

(* What is applied to the tree for an object that exists.                  *)
LEMMA AppliedRecords ==
  ASSUME StateOK(store, rt, hand, refs), \A k \in Named : hand[k] = 0, NEW id \in DOMAIN rt \ {Root},
         Exists(rt[id].value), ~Lost(rt, id)
  PROVE  Records(Applied(id), View(store, rt)[id])
<1> DEFINE w == View(store, rt)
           o == rt[id]
           a == Applied(id)
<1>1. /\ CacheOK(store, rt) /\ WorldOK(w, hand, refs) /\ id \in All /\ id \in IDs
  BY IdFacts DEF StateOK, CacheOK
<1>2. /\ w[id].live /\ w[id].value = o.value.v /\ w[id].owner = o.owner /\ w[id].flag = o.flag
      /\ w[id].size = o.size /\ (w[id].home <=> Exists(o.pointer))
  BY <1>1, ViewOfEntry, ShownFacts
<1>3. EntryOK(store, id, o) /\ o \in RuntimeObjects /\ IsLive(o)
  BY <1>1, EntryFacts
<1>4. w \in [All -> Things] /\ FlagsOK(w)
  BY <1>1 DEF WorldOK, ThingsOK
<1>5. /\ a.value = (IF Effect(o.value) = "None" THEN store[id].value ELSE o.value.v)
      /\ a.owner = (IF Embeds(o) THEN SystemOwner ELSE o.owner) /\ a.flag = o.flag /\ a.size = o.size
      /\ a = [value |-> a.value, owner |-> a.owner, flag |-> a.flag, size |-> a.size]
  BY DEF Applied
<1> HIDE DEF a, o
<1>6. a.value = o.value.v
  <2> SUFFICES ASSUME Effect(o.value) = "None" PROVE store[id].value = o.value.v
    BY <1>5
  <2>1. o.value.st # "Fresh" /\ o.value.st # "Dirty" /\ Exists(o.value)
    BY DEF Effect, o
  <2>2. o.value.st = "Clean"
    BY <2>1 DEF Exists
  <2> QED BY <2>2, <1>3 DEF EntryOK, OldEntry, NewEntry, None
<1>7. Embeds(o) <=> o.pointer.st = "Deleted"
  <2>1. o.value.st # "Deleted"
    BY DEF Exists, o
  <2> QED BY <2>1 DEF Embeds, Effect
<1>8. a.owner = (IF w[id].home THEN w[id].owner ELSE SystemOwner)
  <2>1. CASE Exists(o.pointer)
    BY <2>1, <1>2, <1>5, <1>7 DEF Exists
  <2>2. CASE ~Exists(o.pointer)
    <3>1. o.pointer.st = "Deleted" \/ o.pointer.st = "None"
      BY <2>2, <1>3 DEF Exists, RuntimeObjects
    <3>2. o.pointer.st = "None" => o.owner = SystemOwner
      BY <1>3 DEF EntryOK, is_embeded
    <3> QED BY <2>2, <3>1, <3>2, <1>2, <1>5, <1>7
  <2> QED BY <2>1, <2>2
<1>9. w[id].home <=> ~is_embeded(a)
  <2>1. CASE w[id].home
    <3>1. ~is_embeded(w[id])
      BY <2>1, <1>1, <1>4 DEF FlagsOK
    <3>2. a.owner = w[id].owner /\ a.flag = w[id].flag
      BY <2>1, <1>2, <1>5, <1>8
    <3> QED BY <2>1, <3>1, <3>2 DEF is_embeded
  <2>2. CASE ~w[id].home
    <3>1. w[id].flag = {}
      BY <2>2, <1>1, <1>2, EmbeddedFlags
    <3> QED BY <2>2, <3>1, <1>2, <1>5, <1>8 DEF is_embeded
  <2> QED BY <2>1, <2>2
<1>10. a \in TreeObjects
  <2>1. w[id] \in Things
    BY <1>1, <1>4
  <2>2. a.value \in Values \cup {Nothing} /\ a.flag \in SUBSET Flags /\ a.size \in Nat /\ a.owner \in Anyone
    BY <2>1, <1>2, <1>5, <1>6, <1>8 DEF Things, Anyone
  <2> QED BY <2>2, <1>5 DEF TreeObjects
<1> QED BY <1>2, <1>5, <1>6, <1>8, <1>9, <1>10 DEF Records, a

(* What is loaded, exists and has no change is in the tree as it is.       *)
LEMMA UnchangedRecords ==
  ASSUME StateOK(store, rt, hand, refs), \A k \in Named : hand[k] = 0, NEW id \in DOMAIN rt \ {Root},
         Exists(rt[id].value), ~Lost(rt, id), ~HasChange(id)
  PROVE  id \in DOMAIN store /\ rt[id].meta = "Cached" /\ Records(store[id], View(store, rt)[id])
<1> DEFINE w == View(store, rt)
           o == rt[id]
           a == store[id]
<1>1. /\ CacheOK(store, rt) /\ WorldOK(w, hand, refs) /\ id \in All /\ id \in IDs /\ TreeOK(store)
  BY IdFacts DEF StateOK, CacheOK
<1>2. /\ w[id].live /\ w[id].value = o.value.v /\ w[id].owner = o.owner /\ w[id].flag = o.flag
      /\ w[id].size = o.size /\ (w[id].home <=> Exists(o.pointer))
  BY <1>1, ViewOfEntry, ShownFacts
<1>3. EntryOK(store, id, o) /\ o \in RuntimeObjects /\ IsLive(o)
  BY <1>1, EntryFacts
<1>4. ~o.dirty /\ o.meta = "Cached" /\ Effect(o.value) = "None" /\ ~Embeds(o)
  BY <1>3 DEF HasChange, HasOwnChange, IsLive
<1>5. Exists(o.value)
  OBVIOUS
<1> HIDE DEF o
<1>6. o.value.st = "Clean"
  BY <1>4, <1>5 DEF Effect, Exists
<1>7. id \in DOMAIN store /\ o.owner = a.owner /\ o.flag = a.flag /\ o.size = a.size /\ o.value.v = a.value
  BY <1>3, <1>4, <1>6 DEF EntryOK, OldEntry, NewEntry
<1>8. w[id].home <=> ~is_embeded(w[id])
  <2>1. o.pointer.st # "Deleted"
    BY <1>4, <1>6 DEF Embeds, Effect
  <2>2. CASE Exists(o.pointer)
    BY <2>2, <1>1, <1>2 DEF WorldOK, FlagsOK
  <2>3. CASE ~Exists(o.pointer)
    <3>1. o.pointer.st = "None"
      BY <2>1, <2>3, <1>3 DEF Exists, RuntimeObjects
    <3>2. is_embeded(o)
      BY <3>1, <1>3 DEF EntryOK
    <3> QED BY <3>2, <2>3, <1>2 DEF is_embeded
  <2> QED BY <2>2, <2>3
<1>9. a \in TreeObjects
  BY <1>1, <1>7 DEF TreeOK
<1>10. is_embeded(a) <=> is_embeded(w[id])
  BY <1>2, <1>7 DEF is_embeded
<1>11. a.owner = (IF w[id].home THEN w[id].owner ELSE SystemOwner)
  BY <1>2, <1>7, <1>8 DEF is_embeded
<1> HIDE DEF a
<1>12. Records(a, w[id])
  BY <1>2, <1>7, <1>8, <1>9, <1>10, <1>11 DEF Records
<1> QED BY <1>4, <1>7, <1>12 DEF a, o

(* An object of the tree that is as it was loaded, or was never loaded, is *)
(* not cut off while its parent is there.                                  *)
LEMMA NotCut ==
  ASSUME TreeOK(store), CacheOK(store, rt), NEW id \in IDs, id \in DOMAIN store,
         id \in DOMAIN rt => rt[id].meta = "Cached",
         Parent(id) \in DOMAIN rt => IsLive(rt[Parent(id)])
  PROVE  id \notin Cut
<1>1. id \notin Deleted
  BY DeletedFacts
<1>2. Parent(id) \in DOMAIN store
  BY DEF TreeOK
<1>3. ASSUME Parent(id) \in DOMAIN rt \ {Root} PROVE ~Forgotten(store, rt[Parent(id)], Parent(id))
  BY <1>3 DEF CacheOK, AllBelow
<1>4. Parent(id) \notin Deleted
  BY DeletedFacts DEF IsLive
<1>5. ~(Parent(id) \in DOMAIN rt /\ rt[Parent(id)].meta = "Fresh")
  <2> SUFFICES ASSUME Parent(id) \in DOMAIN rt, rt[Parent(id)].meta = "Fresh" PROVE FALSE
    OBVIOUS
  <2>1. Parent(id) # Root
    BY DEF CacheOK
  <2> QED BY <2>1, <1>2, <1>3 DEF Forgotten
<1> QED BY <1>1, <1>4, <1>5 DEF Cut

(* The tree after the commit holds the objects that exist, settled.        *)
LEMMA CommitEntry ==
  ASSUME StateOK(store, rt, hand, refs), \A k \in Named : hand[k] = 0, NEW id \in IDs,
         NEW s, s = apply_change_set, NEW w, w = View(store, rt)
  PROVE  /\ id \in DOMAIN s <=> w[id].live
         /\ id \in DOMAIN s => Records(s[id], w[id])
<1>1. /\ TreeOK(store) /\ CacheOK(store, rt) /\ WorldOK(w, hand, refs) /\ ThingsOK(w) /\ id # Root
  BY IdFacts DEF StateOK, WorldOK
<1>2. /\ DOMAIN s = (DOMAIN store \ Cut) \cup Written
      /\ \A k \in DOMAIN s : s[k] = IF k \in Written THEN Applied(k) ELSE store[k]
  BY DEF apply_change_set
<1>3. Written \subseteq DOMAIN rt
  BY DEF Written
<1>a. w[id].live /\ Parent(id) \in DOMAIN rt => IsLive(rt[Parent(id)])
  BY <1>1, NotLost DEF ThingsOK
<1>b. CASE Lost(rt, id)
  <2> DEFINE p == Parent(id)
  <2>1. ~w[id].live
    BY <1>b, LiveNotLost
  <2>2. p \in DOMAIN rt \ {Root} /\ ~IsLive(rt[p])
    BY <1>1, <1>b DEF Lost, CacheOK, IsLive
  <2>3. EntryOK(store, p, rt[p]) /\ rt[p].meta \in {"None", "Deleted"}
    <3> DEFINE o == rt[p]
    <3>1. EntryOK(store, p, o) /\ o \in RuntimeObjects
      BY <2>2, <1>1, EntryFacts
    <3>2. ~IsLive(o)
      BY <2>2
    <3> HIDE DEF o
    <3>3. o.meta \in {"None", "Fresh", "Cached", "Deleted"}
      BY <3>1 DEF RuntimeObjects
    <3>4. o.meta \in {"None", "Deleted"}
      BY <3>2, <3>3 DEF IsLive
    <3> QED BY <3>1, <3>4 DEF o
  <2>4. CASE rt[p].meta = "Deleted"
    <3>1. p \in Deleted
      BY <2>2, <2>4, <1>1, DeletedFacts
    <3> QED BY <3>1, <2>1, <1>2 DEF Written, Cut
  <2>5. CASE rt[p].meta = "None"
    <3>1. p \notin DOMAIN store
      BY <2>3, <2>5 DEF EntryOK, OldEntry
    <3>2. id \notin DOMAIN store
      BY <3>1, <1>1 DEF TreeOK
    <3> QED BY <3>2, <2>1, <2>5, <1>2 DEF Written
  <2> QED BY <2>3, <2>4, <2>5
<1>4. CASE id \in DOMAIN rt /\ Exists(rt[id].value) /\ ~Lost(rt, id)
  <2>1. w[id].live
    BY <1>1, <1>4, ViewOfEntry, ShownFacts
  <2>a. Parent(id) \in DOMAIN rt /\ IsLive(rt[Parent(id)])
    BY <2>1, <1>1, <1>4, <1>a DEF CacheOK
  <2>2. CASE HasChange(id)
    <3>1. id \notin Deleted
      BY <1>1, <1>4, DeletedFacts
    <3>2. Parent(id) \notin Deleted /\ rt[Parent(id)].meta # "None"
      BY <1>1, <2>a, DeletedFacts DEF IsLive
    <3>3. id \in Written
      BY <3>1, <3>2, <2>2, <1>4 DEF Written
    <3>4. Records(Applied(id), w[id])
      BY <1>1, <1>4, AppliedRecords
    <3> QED BY <3>3, <3>4, <1>2, <2>1
  <2>3. CASE ~HasChange(id)
    <3>1. id \in DOMAIN store /\ rt[id].meta = "Cached" /\ Records(store[id], w[id])
      BY <1>1, <1>4, <2>3, UnchangedRecords
    <3>2. id \notin Cut
      BY <3>1, <2>a, <1>1, NotCut
    <3>3. id \notin Written
      BY <2>3 DEF Written
    <3> QED BY <3>1, <3>2, <3>3, <1>2, <2>1
  <2> QED BY <2>2, <2>3
<1>5. CASE id \in DOMAIN rt /\ ~Exists(rt[id].value) /\ ~Lost(rt, id)
  <2>1. ~w[id].live
    BY <1>1, <1>5, ViewOfEntry, ShownFacts
  <2>2. id \notin Written
    <3>1. HasChange(id) => id \in Deleted
      BY <1>1, <1>5, DeletedFacts
    <3> QED BY <3>1 DEF Written
  <2>3. id \in DOMAIN store => id \in Cut
    <3> SUFFICES ASSUME id \in DOMAIN store PROVE id \in Cut
      OBVIOUS
    <3>1. EntryOK(store, id, rt[id]) /\ ~IsLive(rt[id])
      BY <1>1, <1>5, EntryFacts
    <3>2. rt[id].meta = "Deleted"
      BY <3>1 DEF EntryOK, OldEntry, IsLive
    <3>3. id \in Deleted
      BY <3>2, <1>1, <1>5, DeletedFacts
    <3> QED BY <3>3 DEF Cut
  <2> QED BY <2>1, <2>2, <2>3, <1>2
<1>6. CASE id \notin DOMAIN rt /\ id \in DOMAIN store /\ ~Lost(rt, id)
  <2>1. w[id] = Stored(store[id])
    BY <1>6 DEF View, Now, Own
  <2>a. w[id].live
    BY <2>1 DEF Stored, Thing
  <2>2. id \notin Written /\ id \notin Cut
    BY <1>1, <1>3, <1>6, <1>a, <2>a, NotCut
  <2>3. id \in DOMAIN s /\ s[id] = store[id]
    BY <2>2, <1>2, <1>6
  <2>4. store[id] \in TreeObjects
    BY <1>1, <1>6 DEF TreeOK
  <2> DEFINE t == store[id]
  <2>5. w[id].live /\ w[id].value = t.value /\ w[id].owner = t.owner /\ w[id].flag = t.flag /\ w[id].size = t.size
    BY <2>1 DEF Stored, Thing
  <2>6. w[id].home <=> ~is_embeded(t)
    <3>1. CASE is_embeded(t)
      <4>1. (~is_embeded(t)) = FALSE
        BY <3>1 DEF is_embeded
      <4>2. w[id] = Thing(t.value, t.owner, t.flag, t.size, FALSE)
        BY <4>1, <2>1 DEF Stored
      <4> QED BY <4>2, <3>1 DEF Thing
    <3>2. CASE ~is_embeded(t)
      <4>1. (~is_embeded(t)) = TRUE
        BY <3>2 DEF is_embeded
      <4>2. w[id] = Thing(t.value, t.owner, t.flag, t.size, TRUE)
        BY <4>1, <2>1 DEF Stored
      <4> QED BY <4>2, <3>2 DEF Thing
    <3> QED BY <3>1, <3>2
  <2>7. Records(t, w[id])
    <3>1. t.owner = (IF w[id].home THEN w[id].owner ELSE SystemOwner)
      BY <2>5, <2>6 DEF is_embeded
    <3> HIDE DEF t
    <3> QED BY <2>4, <2>5, <2>6, <3>1 DEF Records, t
  <2> QED BY <2>3, <2>5, <2>7
<1>7. CASE id \notin DOMAIN rt /\ id \notin DOMAIN store
  <2>1. w[id] = Gone
    BY <1>7 DEF View, Now, Own
  <2> QED BY <2>1, <1>2, <1>3, <1>7, GoneFacts
<1> QED BY <1>b, <1>4, <1>5, <1>6, <1>7

(* The root of the tree after the commit.                                  *)
LEMMA CommitRoot ==
  ASSUME StateOK(store, rt, hand, refs), NEW s, s = apply_change_set, NEW w, w = View(store, rt)
  PROVE  /\ Root \in DOMAIN s /\ Records(s[Root], w[Root]) /\ w[Root].live
         /\ s[Root].value = Nothing /\ s[Root].owner = "moveos_std" /\ s[Root].flag = {"shared"}
<1>1. TreeOK(store) /\ CacheOK(store, rt) /\ Root \in DOMAIN rt
  BY DEF StateOK
<1> DEFINE o == rt[Root]
<1>2. /\ o.meta = "Cached" /\ o.owner = "moveos_std" /\ o.flag = {"shared"} /\ o \in RuntimeObjects
      /\ o.value = CachedValue(Nothing) /\ o.pointer = CachedValue(TRUE) /\ (~o.dirty => o.size = store[Root].size)
  BY <1>1 DEF CacheOK
<1>3. /\ DOMAIN s = (DOMAIN store \ Cut) \cup Written
      /\ \A k \in DOMAIN s : s[k] = IF k \in Written THEN Applied(k) ELSE store[k]
  BY DEF apply_change_set
<1>4. Exists(o.value) /\ Exists(o.pointer) /\ o.value.v = Nothing /\ Effect(o.value) = "None" /\ ~Embeds(o)
  BY <1>2 DEF Exists, CachedValue, Effect, Embeds
<1>5. Root \notin Cut
  BY IdFacts DEF Cut
<1>6. /\ w[Root].live /\ w[Root].value = Nothing /\ w[Root].owner = "moveos_std" /\ w[Root].flag = {"shared"}
      /\ w[Root].size = o.size /\ w[Root].home
  <2>1. w[Root] = Shown(o)
    BY <1>1, ViewOfNamed, IdFacts
  <2> HIDE DEF o
  <2>2. /\ Shown(o).live /\ Shown(o).value = o.value.v /\ Shown(o).owner = o.owner /\ Shown(o).flag = o.flag
        /\ Shown(o).size = o.size /\ Shown(o).home
    BY <1>4, ShownFacts
  <2> QED BY <2>1, <2>2, <1>2, <1>4
<1>7. /\ store[Root] \in TreeObjects /\ store[Root].value = Nothing /\ store[Root].owner = "moveos_std"
      /\ store[Root].flag = {"shared"} /\ Root \in DOMAIN store
  BY <1>1 DEF TreeOK
<1>8. /\ s[Root] \in TreeObjects /\ s[Root].value = Nothing /\ s[Root].owner = "moveos_std"
      /\ s[Root].flag = {"shared"} /\ s[Root].size = o.size /\ Root \in DOMAIN s
  <2>1. CASE Root \in Written
    <3>1. s[Root] = Applied(Root) /\ Root \in DOMAIN s
      BY <2>1, <1>3
    <3>2. Applied(Root) = [value |-> Nothing, owner |-> "moveos_std", flag |-> {"shared"}, size |-> o.size]
      BY <1>2, <1>4, <1>7 DEF Applied
    <3>3. o.size \in Nat
      BY <1>2 DEF RuntimeObjects
    <3>4. Applied(Root) \in TreeObjects
      BY <3>2, <3>3 DEF TreeObjects, Anyone, Flags
    <3> QED BY <3>1, <3>2, <3>4
  <2>2. CASE Root \notin Written
    <3>1. ~HasChange(Root)
      BY <2>2, <1>1, <1>2, IdFacts DEF Written, Deleted
    <3>2. ~o.dirty
      BY <3>1, <1>2 DEF HasChange, HasOwnChange
    <3> QED BY <3>2, <2>2, <1>2, <1>3, <1>5, <1>7
  <2> QED BY <2>1, <2>2
<1>9. ~is_embeded(s[Root])
  BY <1>8 DEF is_embeded
<1> QED BY <1>6, <1>8, <1>9 DEF Records

(* What an object of the tree says.                                        *)
LEMMA StoredFacts ==
  ASSUME NEW o
  PROVE  /\ Stored(o).live /\ Stored(o).value = o.value /\ Stored(o).owner = o.owner /\ Stored(o).flag = o.flag
         /\ Stored(o).size = o.size /\ (Stored(o).home <=> ~is_embeded(o))
<1>1. Stored(o) = Thing(o.value, o.owner, o.flag, o.size, ~is_embeded(o))
  BY DEF Stored
<1>2. /\ Stored(o).live /\ Stored(o).value = o.value /\ Stored(o).owner = o.owner /\ Stored(o).flag = o.flag
      /\ Stored(o).size = o.size
  BY <1>1 DEF Thing
<1>3. CASE is_embeded(o)
  <2>1. (~is_embeded(o)) = FALSE
    BY <1>3 DEF is_embeded
  <2>2. Stored(o) = Thing(o.value, o.owner, o.flag, o.size, FALSE)
    BY <2>1, <1>1
  <2>3. ~Stored(o).home
    BY <2>2 DEF Thing
  <2> QED BY <2>3, <1>2, <1>3
<1>4. CASE ~is_embeded(o)
  <2>1. (~is_embeded(o)) = TRUE
    BY <1>4 DEF is_embeded
  <2>2. Stored(o) = Thing(o.value, o.owner, o.flag, o.size, TRUE)
    BY <2>1, <1>1
  <2>3. Stored(o).home
    BY <2>2 DEF Thing
  <2> QED BY <2>3, <1>2, <1>4
<1> QED BY <1>3, <1>4

(* The view of a tree with nothing loaded.                                 *)
LEMMA BareView ==
  ASSUME NEW s
  PROVE  \A id \in All : View(s, << >>)[id] = IF id \in DOMAIN s THEN Stored(s[id]) ELSE Gone
<1>1. \A id : id \notin DOMAIN << >>
  OBVIOUS
<1> QED BY <1>1 DEF View, Now, Own, Lost

(* A settled object differs in its owner, when its handle is not at home.  *)
LEMMA SettleFacts ==
  ASSUME NEW t \in Things
  PROVE  LET q == Settle(t)
         IN /\ q \in Things /\ q.live = t.live /\ q.value = t.value /\ q.flag = t.flag /\ q.size = t.size
            /\ q.home = t.home /\ (t.home => q = t) /\ (~t.live => q = t)
            /\ t.live /\ ~t.home => q.owner = SystemOwner
<1>1. CASE t.live /\ ~t.home
  <2> DEFINE q == Thing(t.value, SystemOwner, t.flag, t.size, FALSE)
  <2>1. Settle(t) = q
    BY <1>1 DEF Settle
  <2>2. q \in Things /\ q.live /\ q.value = t.value /\ q.flag = t.flag /\ q.size = t.size /\ ~q.home /\ q.owner = SystemOwner
    BY DEF Thing, Things, Anyone
  <2>3. t.live \in BOOLEAN /\ t.home \in BOOLEAN /\ q.live \in BOOLEAN /\ q.home \in BOOLEAN
    BY <2>2 DEF Things
  <2> HIDE DEF q
  <2> QED BY <1>1, <2>1, <2>2, <2>3
<1>2. CASE ~(t.live /\ ~t.home)
  BY <1>2 DEF Settle
<1> QED BY <1>1, <1>2

(* The tree after the commit.                                              *)
LEMMA CommitTree ==
  ASSUME StateOK(store, rt, hand, refs), \A k \in Named : hand[k] = 0,
         NEW s, s = apply_change_set, NEW w, w = View(store, rt)
  PROVE  TreeOK(s) /\ View(s, << >>) = [id \in All |-> Settle(w[id])]
<1>1. /\ TreeOK(store) /\ CacheOK(store, rt) /\ WorldOK(w, hand, refs) /\ ThingsOK(w)
  BY DEF StateOK, WorldOK
<1>2. \A id \in IDs : (id \in DOMAIN s <=> w[id].live) /\ (id \in DOMAIN s => Records(s[id], w[id]))
  BY CommitEntry
<1>3. /\ Root \in DOMAIN s /\ Records(s[Root], w[Root]) /\ w[Root].live
      /\ s[Root].value = Nothing /\ s[Root].owner = "moveos_std" /\ s[Root].flag = {"shared"}
  BY CommitRoot
<1>4. DOMAIN s \subseteq DOMAIN store \cup DOMAIN rt /\ s = [id \in DOMAIN s |-> s[id]]
  BY DEF apply_change_set, Written
<1>5. DOMAIN s \subseteq All
  BY <1>1, <1>4 DEF TreeOK, CacheOK
<1>6. IsFiniteSet(DOMAIN s)
  <2>1. IsFiniteSet(DOMAIN store \cup DOMAIN rt)
    BY <1>1, FS_Union DEF TreeOK, CacheOK
  <2> QED BY <2>1, <1>4, FS_Subset
<1>7. \A id \in DOMAIN s : w[id].live /\ Records(s[id], w[id]) /\ s[id] \in TreeObjects
  BY <1>2, <1>3, <1>5 DEF Records
<1>8. \A id \in DOMAIN s : Parent(id) \in DOMAIN s
  <2> SUFFICES ASSUME NEW id \in DOMAIN s PROVE Parent(id) \in DOMAIN s
    OBVIOUS
  <2>1. CASE id = Root
    BY <2>1, <1>3, IdFacts
  <2>2. CASE id \in IDs
    <3>1. w[Parent(id)].live
      BY <2>2, <1>1, <1>7 DEF ThingsOK
    <3> QED BY <3>1, <2>2, <1>2, <1>3, IdFacts
  <2> QED BY <2>1, <2>2, <1>5
<1>9. TreeOK(s)
  BY <1>3, <1>4, <1>5, <1>6, <1>7, <1>8 DEF TreeOK
<1>10. \A id \in All : View(s, << >>)[id] = Settle(w[id])
  <2> SUFFICES ASSUME NEW id \in All PROVE View(s, << >>)[id] = Settle(w[id])
    OBVIOUS
  <2>1. w[id] \in Things
    BY <1>1 DEF ThingsOK
  <2>2. CASE id \in DOMAIN s
    <3>1. View(s, << >>)[id] = Stored(s[id])
      BY <2>2, BareView
    <3> QED BY <2>1, <2>2, <3>1, <1>7, RecordsSettle
  <2>3. CASE id \notin DOMAIN s
    <3>1. View(s, << >>)[id] = Gone
      BY <2>3, BareView
    <3>2. id \in IDs /\ ~w[id].live
      BY <2>3, <1>2, <1>3
    <3>3. w[id] = Gone
      BY <3>2, <1>1 DEF ThingsOK
    <3> QED BY <2>1, <3>1, <3>2, <3>3, SettleFacts
  <2> QED BY <2>2, <2>3
<1>11. View(s, << >>) = [id \in All |-> Settle(w[id])]
  <2>1. View(s, << >>) = [id \in All |-> View(s, << >>)[id]]
    BY DEF View
  <2> QED BY <2>1, <1>10
<1> QED BY <1>9, <1>11

(* Settled objects are in order without a program.                         *)
LEMMA WorldSettles ==
  ASSUME NEW w, NEW h, NEW r, WorldOK(w, h, r), \A k \in Named : h[k] = 0,
         NEW w2, w2 = [id \in All |-> Settle(w[id])]
  PROVE  WorldOK(w2, NoHands, NoRefs)
<1>1. ThingsOK(w) /\ SizesOK(w) /\ HandlesOK(w, h) /\ FlagsOK(w)
  BY DEF WorldOK
<1>2. \A id \in All : w[id] \in Things /\ w2[id] = Settle(w[id])
  BY <1>1 DEF ThingsOK
<1>3. \A id \in All :
        /\ w2[id] \in Things /\ w2[id].live = w[id].live /\ w2[id].value = w[id].value /\ w2[id].flag = w[id].flag
        /\ w2[id].size = w[id].size /\ w2[id].home = w[id].home
        /\ (w[id].home => w2[id] = w[id]) /\ (~w[id].live => w2[id] = w[id])
        /\ (w[id].live /\ ~w[id].home => w2[id].owner = SystemOwner)
  BY <1>2, SettleFacts
<1>4. Alive(w2) = Alive(w) /\ (\A p : Kids(w2, p) = Kids(w, p)) /\ (\A k : HeldBy(w2, k) = HeldBy(w, k))
  BY <1>3 DEF Alive, Kids, HeldBy
<1>5. ThingsOK(w2)
  <2>1. w2 \in [All -> Things]
    BY <1>3
  <2>2. \A id \in IDs : IF w2[id].live THEN w2[id].value \in Values ELSE w2[id] = Gone
    BY <1>1, <1>3, SMTT(30) DEF ThingsOK
  <2>3. \A id \in IDs : w2[id].live => w2[Parent(id)].live
    BY <1>1, <1>3, IdFacts DEF ThingsOK
  <2> QED BY <2>1, <2>2, <2>3, <1>1, <1>3, <1>4 DEF ThingsOK
<1>6. SizesOK(w2)
  BY <1>1, <1>3, <1>4 DEF SizesOK
<1>7. HandlesOK(w2, NoHands)
  <2> SUFFICES ASSUME NEW id \in Named
               PROVE  NoHands[id] + Cardinality(HeldBy(w2, id)) + (IF w2[id].home THEN 1 ELSE 0)
                        = IF w2[id].live THEN 1 ELSE 0
    BY DEF HandlesOK
  <2>1. NoHands[id] = h[id] /\ w2[id].home = w[id].home /\ w2[id].live = w[id].live /\ HeldBy(w2, id) = HeldBy(w, id)
    BY <1>3, <1>4, IdFacts DEF NoHands
  <2> QED BY <2>1, <1>1 DEF HandlesOK
<1>8. FlagsOK(w2)
  <2>1. \A id \in IDs : w2[id].home => w2[id].live /\ ~is_embeded(w2[id])
    BY <1>1, <1>3 DEF FlagsOK
  <2>2. \A id \in Named : HeldBy(w2, id) # {} => w2[id].flag = {}
    BY <1>1, <1>3, <1>4, IdFacts DEF FlagsOK
  <2>3. \A id \in Named : "frozen" \in w2[id].flag => w2[id].owner = SystemOwner /\ w2[id].home
    <3> SUFFICES ASSUME NEW id \in Named, "frozen" \in w2[id].flag PROVE w2[id].owner = SystemOwner /\ w2[id].home
      OBVIOUS
    <3>1. id \in All /\ "frozen" \in w[id].flag
      BY <1>3, IdFacts
    <3>2. w[id].owner = SystemOwner /\ w[id].home
      BY <3>1, <1>1 DEF FlagsOK
    <3>3. w2[id] = w[id]
      BY <3>1, <3>2, <1>3
    <3> QED BY <3>2, <3>3
  <2>4. \A id \in Fields : ~w2[id].home /\ is_embeded(w2[id])
    <3> SUFFICES ASSUME NEW id \in Fields PROVE ~w2[id].home /\ is_embeded(w2[id])
      OBVIOUS
    <3>1. id \in All /\ ~w[id].home /\ is_embeded(w[id])
      BY <1>1, IdFacts DEF FlagsOK
    <3> QED BY <3>1, <1>3 DEF is_embeded
  <2> QED BY <2>1, <2>2, <2>3, <2>4 DEF FlagsOK
<1>9. RefsOK(w2, NoRefs) /\ NoHands \in [Named -> Nat] /\ NoRefs \in [Named -> {"none", "ref", "mut", "arg", "argmut"}]
  BY DEF RefsOK, NoRefs, NoHands
<1> QED BY <1>5, <1>6, <1>7, <1>8, <1>9 DEF WorldOK
--------------------------------------------------------------------------------
(* Transactions.                                                           *)

(* Nothing is loaded.                                                      *)
LEMMA EmptyCache ==
  ASSUME NEW s
  PROVE  CacheOK(s, << >>) /\ FrozenOK(s, View(s, << >>))
<1>1. DOMAIN << >> = {} /\ << >> = [id \in {} |-> << >>[id]]
  OBVIOUS
<1>2. CacheOK(s, << >>)
  <2>1. IsFiniteSet(DOMAIN << >>)
    BY <1>1, FS_EmptySet
  <2> QED BY <1>1, <2>1 DEF CacheOK
<1>3. FrozenOK(s, View(s, << >>))
  <2>1. \A id \in Named \cap DOMAIN s : View(s, << >>)[id] = Stored(s[id])
    BY BareView, IdFacts
  <2> QED BY <2>1, StoredFacts DEF FrozenOK
<1> QED BY <1>2, <1>3

(* The state between transactions.                                         *)
LEMMA IdleState ==
  ASSUME NEW s, TreeOK(s), WorldOK(View(s, << >>), NoHands, NoRefs),
         store' = s, rt' = << >>, hand' = NoHands, refs' = NoRefs, phase' = "idle", sender' \in Users
  PROVE  ObjectsInv'
BY EmptyCache DEF ObjectsInv

(* EndTx after an abort.                                                   *)
LEMMA AbortOK ==
  ASSUME ObjectsInv, Abort
  PROVE  ObjectsInv'
<1>1. /\ store' = store /\ rt' = << >> /\ hand' = NoHands /\ refs' = NoRefs /\ phase' = "idle" /\ sender' = sender
  BY DEF Abort, EndTx, NoHands, NoRefs
<1>2. TreeOK(store) /\ WorldOK(View(store, << >>), NoHands, NoRefs) /\ sender \in Users
  BY DEF ObjectsInv
<1> QED BY <1>1, <1>2, IdleState

(* What a commit does to the tree.                                         *)
LEMMA CommitFacts ==
  ASSUME ObjectsInv, Commit
  PROVE  /\ TreeOK(store') /\ View(store', << >>) = [id \in All |-> Settle(View(store, rt)[id])]
         /\ WorldOK(View(store', << >>), NoHands, NoRefs) /\ StateOK(store, rt, hand, refs)
         /\ \A k \in Named : hand[k] = 0
<1>1. /\ store' = apply_change_set /\ phase = "run" /\ \A k \in Named : hand[k] = 0
  BY DEF Commit, Returned
<1>2. StateOK(store, rt, hand, refs)
  BY <1>1 DEF ObjectsInv, StateOK
<1>3. TreeOK(store') /\ View(store', << >>) = [id \in All |-> Settle(View(store, rt)[id])]
  BY <1>1, <1>2, CommitTree
<1>4. WorldOK(View(store, rt), hand, refs)
  BY <1>2 DEF StateOK
<1>5. WorldOK(View(store', << >>), NoHands, NoRefs)
  BY <1>1, <1>3, <1>4, WorldSettles
<1> QED BY <1>1, <1>2, <1>3, <1>5

(* EndTx after a commit.                                                   *)
LEMMA CommitOK ==
  ASSUME ObjectsInv, Commit
  PROVE  ObjectsInv'
<1>1. /\ rt' = << >> /\ hand' = NoHands /\ refs' = NoRefs /\ phase' = "idle" /\ sender' = sender
  BY DEF Commit, EndTx, NoHands, NoRefs
<1>2. TreeOK(store') /\ WorldOK(View(store', << >>), NoHands, NoRefs) /\ sender \in Users
  BY CommitFacts DEF ObjectsInv
<1> QED BY <1>1, <1>2, IdleState

(* A transaction begins with the root object loaded.                       *)
LEMMA NewRuntimeOK ==
  ASSUME TreeOK(store)
  PROVE  /\ CacheOK(store, NewRuntime) /\ Root \in DOMAIN NewRuntime /\ Untouched(NewRuntime)
         /\ View(store, NewRuntime) = View(store, << >>)
<1> DEFINE c == NewRuntime
           o == c[Root]
<1>1. /\ DOMAIN c = {Root} /\ c = [id \in DOMAIN c |-> c[id]]
      /\ o = [meta |-> "Cached", dirty |-> FALSE, owner |-> "moveos_std", flag |-> {"shared"},
              size |-> store[Root].size, value |-> CachedValue(Nothing), pointer |-> CachedValue(TRUE)]
  BY DEF NewRuntime
<1>2. /\ Root \in DOMAIN store /\ store[Root] \in TreeObjects
      /\ store[Root].value = Nothing /\ store[Root].owner = "moveos_std" /\ store[Root].flag = {"shared"}
  BY DEF TreeOK
<1>3. store[Root].size \in Nat
  BY <1>2 DEF TreeObjects
<1> HIDE DEF c
<1>4. o \in RuntimeObjects
  BY <1>1, <1>3 DEF RuntimeObjects, CachedValue, Flags
<1>5. /\ o.meta = "Cached" /\ o.dirty = FALSE /\ o.owner = "moveos_std" /\ o.flag = {"shared"}
      /\ o.size = store[Root].size /\ o.value = CachedValue(Nothing) /\ o.pointer = CachedValue(TRUE)
  BY <1>1
<1>6. Exists(o.value) /\ Exists(o.pointer) /\ o.value.v = Nothing /\ o.pointer.st = "Clean"
  BY <1>5 DEF Exists, CachedValue
<1> HIDE DEF o
<1>7. CacheOK(store, c)
  <2>1. IsFiniteSet(DOMAIN c) /\ DOMAIN c \subseteq All /\ \A id \in DOMAIN c : Parent(id) \in DOMAIN c
    <3>1. IsFiniteSet({Root})
      BY FS_Singleton
    <3> QED BY <3>1, <1>1, IdFacts, Zenon
  <2> QED BY <2>1, <1>1, <1>4, <1>5 DEF CacheOK, o
<1>8. View(store, c) = View(store, << >>)
  <2>1. Shown(o) = Stored(store[Root])
    <3>1. Shown(o) = Thing(o.value.v, o.owner, o.flag, o.size, Exists(o.pointer))
      BY <1>6 DEF Shown
    <3>2. Exists(o.pointer) = TRUE /\ (~is_embeded(store[Root])) = TRUE
      BY <1>2, <1>6 DEF Exists, is_embeded
    <3>3. Stored(store[Root])
            = Thing(store[Root].value, store[Root].owner, store[Root].flag, store[Root].size, ~is_embeded(store[Root]))
      BY DEF Stored
    <3> QED BY <3>1, <3>2, <3>3, <1>2, <1>5, <1>6
  <2>2. \A id \in All : Now(store, c, id) = IF id \in DOMAIN store THEN Stored(store[id]) ELSE Gone
    <3>1. \A id : ~Lost(c, id)
      BY <1>1, <1>5 DEF Lost, IsLive, o
    <3> QED BY <2>1, <3>1, <1>1, <1>2 DEF Now, Own, o
  <2>3. \A id \in All : Now(store, << >>, id) = IF id \in DOMAIN store THEN Stored(store[id]) ELSE Gone
    BY BareView DEF View
  <2> QED BY <2>2, <2>3 DEF View
<1>9. Untouched(c)
  BY <1>1, <1>5, <1>6 DEF Untouched, o
<1> QED BY <1>1, <1>7, <1>8, <1>9 DEF c

(* BeginTx.                                                                *)
LEMMA BeginTxOK ==
  ASSUME ObjectsInv, BeginTx
  PROVE  ObjectsInv' /\ View(store', rt') = View(store, rt) /\ UNCHANGED store
<1>1. /\ phase = "idle" /\ sender' \in Users /\ phase' = "args" /\ rt' = NewRuntime /\ store' = store
      /\ hand' = hand /\ refs' = refs
  BY DEF BeginTx
<1>2. /\ TreeOK(store) /\ WorldOK(View(store, << >>), NoHands, NoRefs) /\ rt = << >>
      /\ hand = NoHands /\ refs = NoRefs
  BY <1>1 DEF ObjectsInv
<1>3. /\ CacheOK(store, NewRuntime) /\ Root \in DOMAIN NewRuntime /\ Untouched(NewRuntime)
      /\ View(store, NewRuntime) = View(store, << >>)
  BY <1>2, NewRuntimeOK
<1>4. FrozenOK(store, View(store, << >>))
  BY EmptyCache
<1> QED BY <1>1, <1>2, <1>3, <1>4 DEF ObjectsInv

(* Execute.                                                                *)
LEMMA ExecuteOK ==
  ASSUME ObjectsInv, Execute
  PROVE  ObjectsInv' /\ View(store', rt') = View(store, rt) /\ UNCHANGED store
BY DEF ObjectsInv, Execute

(* The empty tree.                                                         *)
LEMMA InitOK ==
  ASSUME InitRuntime
  PROVE  ObjectsInv
<1> DEFINE o == [value |-> Nothing, owner |-> "moveos_std", flag |-> {"shared"}, size |-> 0]
           w == View(store, << >>)
<1>1. store = [id \in {Root} |-> o] /\ rt = << >> /\ hand = NoHands /\ refs = NoRefs /\ phase = "idle" /\ sender \in Users
  BY DEF InitRuntime, NoHands, NoRefs
<1>2. DOMAIN store = {Root} /\ store[Root] = o
  BY <1>1
<1>3. o \in TreeObjects /\ o.value = Nothing /\ o.owner = "moveos_std" /\ o.flag = {"shared"} /\ o.size = 0
  BY DEF TreeObjects, Anyone, Flags
<1> HIDE DEF o
<1>4. TreeOK(store)
  <2>1. IsFiniteSet(DOMAIN store)
    BY <1>2, FS_Singleton
  <2> QED BY <2>1, <1>1, <1>2, <1>3, IdFacts DEF TreeOK
<1>5. (\A id \in IDs : w[id] = Gone) /\ w[Root] = Stored(o) /\ w = [id \in All |-> w[id]]
  BY <1>2, BareView, IdFacts DEF View
<1>6. w[Root].live /\ w[Root].value = Nothing /\ w[Root].size = 0 /\ w[Root] \in Things
  <2>1. Stored(o) \in Things
    <3>1. (~is_embeded(o)) = TRUE
      BY <1>3 DEF is_embeded
    <3>2. Stored(o) = Thing(o.value, o.owner, o.flag, o.size, TRUE)
      BY <3>1 DEF Stored
    <3> QED BY <3>2, <1>3 DEF Thing, Things, Anyone, Flags
  <2> QED BY <2>1, <1>3, <1>5, StoredFacts
<1> HIDE DEF w
<1>7. \A id \in IDs : ~w[id].live /\ w[id].value = Nothing /\ w[id].size = 0 /\ ~w[id].home /\ w[id] \in Things
  BY <1>5, GoneFacts
<1>8. Alive(w) = {} /\ (\A p : Kids(w, p) = {}) /\ (\A k \in Named : HeldBy(w, k) = {})
  BY <1>7, ValueFacts DEF Alive, Kids, HeldBy
<1>9. ThingsOK(w)
  <2>1. w \in [All -> Things]
    BY <1>5, <1>6, <1>7
  <2> QED BY <2>1, <1>5, <1>6, <1>7, <1>8, FS_EmptySet DEF ThingsOK
<1>10. SizesOK(w)
  BY <1>6, <1>7, <1>8, FS_EmptySet DEF SizesOK
<1>11. HandlesOK(w, NoHands)
  <2> SUFFICES ASSUME NEW id \in Named
               PROVE  NoHands[id] + Cardinality(HeldBy(w, id)) + (IF w[id].home THEN 1 ELSE 0)
                        = IF w[id].live THEN 1 ELSE 0
    BY DEF HandlesOK
  <2>1. NoHands[id] = 0 /\ Cardinality(HeldBy(w, id)) = 0 /\ ~w[id].home /\ ~w[id].live
    BY <1>7, <1>8, FS_EmptySet, IdFacts DEF NoHands
  <2> QED BY <2>1
<1>12. FlagsOK(w)
  BY <1>5, <1>7, <1>8, GoneFacts, IdFacts DEF FlagsOK, is_embeded
<1>13. RefsOK(w, NoRefs) /\ NoHands \in [Named -> Nat] /\ NoRefs \in [Named -> {"none", "ref", "mut", "arg", "argmut"}]
  BY DEF RefsOK, NoRefs, NoHands
<1>14. WorldOK(w, NoHands, NoRefs)
  BY <1>9, <1>10, <1>11, <1>12, <1>13 DEF WorldOK
<1> QED BY <1>1, <1>4, <1>14, EmptyCache DEF ObjectsInv, w

(* The operations that give a handle back.                                 *)
LEMMA ReturnsOperate ==
  ASSUME ObjectsInv, NEW id \in Named,
         (\E u \in Users : Transfer(id, u)) \/ ToShared(id) \/ ToFrozen(id)
  PROVE  Operates
<1>1. CASE \E u \in Users : Transfer(id, u)
  <2>1. PICK u \in Users : Transfer(id, u)
    BY <1>1
  <2>2. MayReturn(u, {}) /\ ReturnPointer(id, u, {})
    BY <2>1, ObjectAssumption DEF MayReturn, Transfer
  <2> QED BY <2>2, ReturnOperates
<1>2. CASE ToShared(id)
  <2>1. MayReturn(SystemOwner, {"shared"}) /\ ReturnPointer(id, SystemOwner, {"shared"})
    BY <1>2 DEF MayReturn, ToShared, Flags
  <2> QED BY <2>1, ReturnOperates
<1>3. CASE ToFrozen(id)
  <2>1. MayReturn(SystemOwner, {"frozen"}) /\ ReturnPointer(id, SystemOwner, {"frozen"})
    BY <1>3 DEF MayReturn, ToFrozen, Flags
  <2> QED BY <2>1, ReturnOperates
<1> QED BY <1>1, <1>2, <1>3

(* Every step is the beginning or the end of a transaction, or an          *)
(* operation.                                                              *)
LEMMA AllOperate ==
  ASSUME Restrained, ObjectsInv, NextRuntime
  PROVE  BeginTx \/ Execute \/ Commit \/ Abort \/ (Operates /\ phase # "idle")
<1>1. ASSUME NEW id \in Named, NEW kind \in {"arg", "argmut", "value"}, LoadArgument(id, kind)
      PROVE  Operates /\ phase # "idle"
  BY <1>1, ArgumentOperates DEF LoadArgument
<1>2. ASSUME NEW id \in IDs, Read(id) PROVE Operates /\ phase # "idle"
  BY <1>2, ReadOperates DEF Read, InTx
<1>3. ASSUME NEW id \in Named, NEW v \in Values, New(id, v) PROVE Operates /\ phase # "idle"
  BY <1>3, NewOperates DEF New, CanAdd, InTx
<1>4. ASSUME NEW id \in Fields, NEW v \in Values, AddField(id, v) PROVE Operates /\ phase # "idle"
  BY <1>4, AddFieldOperates DEF AddField, CanAdd, InTx
<1>5. ASSUME NEW id \in Fields, RemoveField(id) PROVE Operates /\ phase # "idle"
  BY <1>5, RemoveFieldOperates DEF RemoveField, CanRemove, InTx
<1>6. ASSUME NEW id \in Named, Remove(id) PROVE Operates /\ phase # "idle"
  BY <1>6, RemoveOperates DEF Remove, CanRemove, InTx
<1>7. ASSUME NEW id \in Named, DropContainer(id) PROVE Operates /\ phase # "idle"
  BY <1>7, DropContainerOperates DEF DropContainer, CanRemove, InTx
<1>8. ASSUME NEW id \in IDs, NEW v \in Plain, WriteValue(id, v) PROVE Operates /\ phase # "idle"
  BY <1>8, WriteOperates DEF WriteValue, InTx
<1>9. ASSUME NEW id \in Named, NEW kind \in {"ref", "mut"}, BorrowObject(id, kind) PROVE Operates /\ phase # "idle"
  BY <1>9, BorrowOperates DEF BorrowObject, InTx
<1>10. ASSUME NEW id \in Named, DropReference(id) PROVE Operates /\ phase # "idle"
  BY <1>10, DropOperates DEF DropReference
<1>11. ASSUME NEW id \in Named, TakeObject(id) PROVE Operates /\ phase # "idle"
  BY <1>11, TakeOperates DEF TakeObject, InTx
<1>12. ASSUME NEW id \in Named, (\E u \in Users : Transfer(id, u)) \/ ToShared(id) \/ ToFrozen(id)
       PROVE  Operates /\ phase # "idle"
  <2>1. phase = "run"
    BY <1>12 DEF Transfer, ToShared, ToFrozen, ReturnPointer, InTx
  <2> QED BY <2>1, <1>12, ReturnsOperate
<1> QED BY <1>1, <1>2, <1>3, <1>4, <1>5, <1>6, <1>7, <1>8, <1>9, <1>10, <1>11, <1>12, Zenon DEF NextRuntime

(* An operation keeps the invariant.                                       *)
LEMMA OperatesOK ==
  ASSUME ObjectsInv, Operates, phase # "idle"
  PROVE  ObjectsInv'
BY DEF ObjectsInv, Operates, StateOK

(* The view of the cache and the tree is in order in every reachable state *)
(* of a restrained program: each operation of moveos_std::object keeps it  *)
(* so, and so do apply_change_set and an abort.                            *)
THEOREM ObjectsInvariant == ASSUME Restrained PROVE SpecRuntime => []ObjectsInv
<1>1. InitRuntime => ObjectsInv
  BY InitOK
<1>2. ObjectsInv /\ [NextRuntime]_vars => ObjectsInv'
  <2> SUFFICES ASSUME ObjectsInv, [NextRuntime]_vars PROVE ObjectsInv'
    OBVIOUS
  <2>1. CASE NextRuntime
    BY <2>1, AllOperate, BeginTxOK, ExecuteOK, CommitOK, AbortOK, OperatesOK
  <2>2. CASE UNCHANGED vars
    BY <2>2 DEF ObjectsInv, vars
  <2> QED BY <2>1, <2>2
<1> QED BY <1>1, <1>2, PTL DEF SpecRuntime
--------------------------------------------------------------------------------
(* What the properties say of a state is what the view says.               *)

(* The definitions of ObjectRuntime and the view.                          *)
LEMMA ViewFacts ==
  ASSUME ObjectsInv, NEW w, w = View(store, rt)
  PROVE  /\ \A id \in IDs : Live(id) <=> w[id].live
         /\ LiveIDs = Alive(w)
         /\ \A id \in Alive(w) \cup {Root} : SizeOf(id) = w[id].size
         /\ \A id \in Alive(w) : AtHome(id) <=> w[id].home
         /\ \A id \in Named : Holders(id) = HeldBy(w, id)
<1>1. CacheOK(store, rt) /\ TreeOK(store) /\ ThingsOK(w)
  BY DEF ObjectsInv, WorldOK
<1>2. \A id \in IDs : Live(id) <=> w[id].live
  BY LiveFacts
<1>3. LiveIDs = Alive(w)
  BY <1>2 DEF LiveIDs, Alive
<1>4. \A id \in Alive(w) \cup {Root} : SizeOf(id) = w[id].size /\ (AtHome(id) <=> w[id].home)
  <2> SUFFICES ASSUME NEW id \in Alive(w) \cup {Root} PROVE SizeOf(id) = w[id].size /\ (AtHome(id) <=> w[id].home)
    OBVIOUS
  <2>1. w[id].live /\ id \in All
    BY <1>1 DEF Alive, ThingsOK
  <2>2. CASE id \in DOMAIN rt
    <3>1. w[id] = Shown(rt[id])
      BY <2>1, <2>2, <1>1, LiveNotLost, ViewOfEntry
    <3>2. Exists(rt[id].value)
      BY <3>1, <2>1, ShownFacts
    <3>3. w[id].size = rt[id].size /\ (w[id].home <=> Exists(rt[id].pointer))
      BY <3>1, <3>2, ShownFacts
    <3> QED BY <2>2, <3>3 DEF SizeOf, AtHome
  <2>3. CASE id \notin DOMAIN rt
    <3>1. w[id] = IF id \in DOMAIN store THEN Stored(store[id]) ELSE Gone
      BY <2>1, <2>3, LiveNotLost DEF View, Now, Own
    <3>2. w[id] = Stored(store[id])
      BY <3>1, <2>1, GoneFacts
    <3> QED BY <2>3, <3>2, StoredFacts DEF SizeOf, AtHome
  <2> QED BY <2>2, <2>3
<1>5. \A id \in Named : Holders(id) = HeldBy(w, id)
  <2> SUFFICES ASSUME NEW id \in Named PROVE Holders(id) = HeldBy(w, id)
    OBVIOUS
  <2>1. HeldBy(w, id) \subseteq Alive(w)
    BY <1>1, CountedSets
  <2>2. \A k \in Alive(w) : Seen(k).value = w[k].value
    BY SeenFlags DEF Alive
  <2> QED BY <2>1, <2>2, <1>3 DEF Holders, HeldBy, Alive
<1> QED BY <1>2, <1>3, <1>4, <1>5

(* No change of the cache is lost.                                         *)
LEMMA NothingLost == ObjectsInv => ChangesKept
<1> SUFFICES ASSUME ObjectsInv, NEW id \in DOMAIN rt
             PROVE  /\ rt[id].meta = "None" => /\ Effect(rt[id].value) = "None"
                                               /\ rt[id].size = 0 => \A c \in FieldChanges(id) : ~HasOwnChange(c)
                    /\ Effect(rt[id].value) \in {"New", "Modify"} \/ Embeds(rt[id]) => IsLive(rt[id]) \/ rt[id].meta = "None"
                    /\ HasChange(id) /\ Effect(rt[id].value) = "None" => id \in DOMAIN store
  BY DEF ChangesKept
<1> DEFINE w == View(store, rt)
<1>1. CacheOK(store, rt) /\ TreeOK(store) /\ ThingsOK(w)
  BY DEF ObjectsInv, WorldOK
<1>2. CASE id = Root
  <2>1. rt[Root].meta = "Cached" /\ Root \in DOMAIN store
    BY <1>1, <1>2 DEF CacheOK, TreeOK
  <2> QED BY <1>2, <2>1 DEF IsLive
<1>3. CASE id # Root
  <2>1. EntryOK(store, id, rt[id]) /\ id \in IDs
    BY <1>1, <1>3 DEF CacheOK
  <2>2. ASSUME rt[id].meta = "None"
        PROVE  Effect(rt[id].value) = "None" /\ (rt[id].size = 0 => \A c \in FieldChanges(id) : ~HasOwnChange(c))
    <3>1. id \notin DOMAIN store /\ rt[id].value = None
      BY <2>1, <2>2 DEF EntryOK, OldEntry, NewEntry
    <3>2. Effect(rt[id].value) = "None" /\ ~Exists(rt[id].value)
      BY <3>1 DEF None, Effect, Exists
    <3>3. ASSUME NEW c \in IDs, Parent(c) = id PROVE ~w[id].live
      <4>1. id \notin Fields
        BY <3>3, IdFacts
      <4> QED BY <4>1, <3>2, <1>1, ViewOfNamed, ShownFacts
    <3>4. ASSUME rt[id].size = 0, NEW c \in FieldChanges(id) PROVE rt[c].meta = "None"
      <4>1. c \in DOMAIN rt \ {Root} /\ Parent(c) = id
        BY <3>4 DEF FieldChanges
      <4>2. c \notin DOMAIN store /\ EntryOK(store, c, rt[c]) /\ c \in IDs
        BY <4>1, <3>1, <1>1 DEF TreeOK, CacheOK
      <4>3. ~w[c].live
        BY <4>1, <4>2, <3>3, <1>1 DEF ThingsOK
      <4>4. ~Exists(rt[c].value)
        <5>1. CASE c \in Fields
          <6>1. Emptied(store, rt, id)
            BY <1>1, <1>3, <2>2, <3>4 DEF CacheOK, IsLive
          <6>2. Shown(rt[c]) = Gone
            BY <6>1, <4>1, <5>1 DEF Emptied, Own
          <6> QED BY <6>2, GoneFacts, ShownFacts
        <5>2. CASE c \notin Fields
          BY <4>1, <4>3, <5>2, <1>1, ViewOfNamed, ShownFacts
        <5> QED BY <5>1, <5>2
      <4> QED BY <4>2, <4>4 DEF EntryOK, NewEntry, Exists
    <3> QED BY <3>2, <3>4 DEF HasOwnChange
  <2>3. Effect(rt[id].value) \in {"New", "Modify"} \/ Embeds(rt[id]) => rt[id].meta # "Deleted"
    <3> SUFFICES ASSUME rt[id].meta = "Deleted"
                 PROVE  Effect(rt[id].value) = "Delete" /\ ~Embeds(rt[id])
      BY Zenon
    <3>1. rt[id].value.st = "Deleted"
      BY <2>1 DEF EntryOK, OldEntry, NewEntry
    <3>2. Effect(rt[id].value) = "Delete"
      BY <3>1 DEF Effect
    <3> QED BY <3>2 DEF Embeds
  <2>4. rt[id].meta # "Deleted" => IsLive(rt[id]) \/ rt[id].meta = "None"
    BY <2>1 DEF EntryOK, RuntimeObjects, IsLive
  <2>5. HasChange(id) /\ Effect(rt[id].value) = "None" => id \in DOMAIN store
    <3> SUFFICES ASSUME HasChange(id), id \notin DOMAIN store PROVE Effect(rt[id].value) # "None"
      OBVIOUS
    <3>1. rt[id].meta # "None"
      BY DEF HasChange, HasOwnChange
    <3>2. rt[id].value.st = "Fresh"
      BY <3>1, <2>1 DEF EntryOK, NewEntry
    <3> QED BY <3>2 DEF Effect
  <2> QED BY <2>2, <2>3, <2>4, <2>5
<1> QED BY <1>2, <1>3

(* Types.                                                                  *)
LEMMA Typed == ObjectsInv => TypeOKRuntime
<1> SUFFICES ASSUME ObjectsInv PROVE TypeOKRuntime
  OBVIOUS
<1>1. CacheOK(store, rt) /\ TreeOK(store) /\ WorldOK(View(store, rt), hand, refs)
  BY DEF ObjectsInv
<1>2. \A id \in DOMAIN store : store[id].size \in Nat
  BY <1>1 DEF TreeOK, TreeObjects
<1>3. \A id \in DOMAIN rt : rt[id] \in RuntimeObjects /\ Parent(id) \in DOMAIN rt
  BY <1>1 DEF CacheOK, EntryOK
<1>4. hand \in [Named -> Nat] /\ refs \in [Named -> {"none", "ref", "mut", "arg", "argmut"}]
  BY <1>1 DEF WorldOK
<1>5. Root \in DOMAIN store /\ DOMAIN store \subseteq IDs \cup {Root}
  BY <1>1 DEF TreeOK
<1> QED BY <1>2, <1>3, <1>4, <1>5 DEF ObjectsInv, TypeOKRuntime

(* Sizes.                                                                  *)
LEMMA Counted == ObjectsInv => SizeIsFieldCount
<1> SUFFICES ASSUME ObjectsInv, NEW id \in LiveIDs \cup {Root}
             PROVE  SizeOf(id) = Cardinality({c \in LiveIDs : Parent(c) = id})
  BY DEF SizeIsFieldCount
<1> DEFINE w == View(store, rt)
<1>1. LiveIDs = Alive(w) /\ SizeOf(id) = w[id].size /\ id \in All
  BY ViewFacts DEF Alive
<1>2. {c \in LiveIDs : Parent(c) = id} = Kids(w, id)
  BY <1>1 DEF Alive, Kids
<1>3. SizesOK(w)
  BY DEF ObjectsInv, WorldOK
<1> QED BY <1>1, <1>2, <1>3 DEF SizesOK

(* Handles.                                                                *)
LEMMA Handled == ObjectsInv => OneHandle
<1> SUFFICES ASSUME ObjectsInv, NEW id \in Named
             PROVE  hand[id] + Cardinality(Holders(id)) + (IF Live(id) /\ AtHome(id) THEN 1 ELSE 0)
                      = IF Live(id) THEN 1 ELSE 0
  BY DEF OneHandle
<1> DEFINE w == View(store, rt)
<1>1. WorldOK(w, hand, refs) /\ id \in IDs
  BY IdFacts DEF ObjectsInv
<1>2. Holders(id) = HeldBy(w, id) /\ (Live(id) <=> w[id].live)
  BY <1>1, ViewFacts
<1>3. Live(id) /\ AtHome(id) <=> w[id].home
  <2>1. w[id].home => w[id].live
    BY <1>1 DEF WorldOK, FlagsOK
  <2>2. w[id].live => (AtHome(id) <=> w[id].home)
    BY <1>1, ViewFacts DEF Alive
  <2> QED BY <1>2, <2>1, <2>2
<1>4. hand[id] + Cardinality(HeldBy(w, id)) + (IF w[id].home THEN 1 ELSE 0) = IF w[id].live THEN 1 ELSE 0
  BY <1>1 DEF WorldOK, HandlesOK
<1> QED BY <1>2, <1>3, <1>4

(* The size object::remove tests is the number of fields, at every point   *)
(* of every transaction, the cache is well-formed, and into_change_set     *)
(* loses no change of a restrained program.                                *)
THEOREM RuntimeIsSound == ASSUME Restrained PROVE SpecRuntime => []RuntimeInv
<1>1. ObjectsInv => RuntimeInv
  BY Typed, Counted, NothingLost DEF RuntimeInv
<1> QED BY <1>1, ObjectsInvariant, PTL

(* Every object has exactly one handle: in the store, in the program's     *)
(* hand or in the value of one other object.                               *)
THEOREM HandlesAreUnique == ASSUME Restrained PROVE SpecRuntime => []OneHandle
<1>1. ObjectsInv => OneHandle
  BY Handled
<1> QED BY <1>1, ObjectsInvariant, PTL

(* What to_frozen froze keeps value, owner and flags for ever.             *)
THEOREM FrozenStays == ASSUME Restrained PROVE SpecRuntime => FrozenForEver
<1> DEFINE Kept == \A id \in Named \cap DOMAIN store :
                     "frozen" \in store[id].flag /\ "shared" \notin store[id].flag =>
                       /\ id \in DOMAIN store'
                       /\ store'[id].value = store[id].value
                       /\ store'[id].owner = store[id].owner /\ store'[id].flag = store[id].flag
<1>1. ASSUME ObjectsInv, Commit PROVE Kept
  <2> SUFFICES ASSUME NEW id \in Named \cap DOMAIN store, "frozen" \in store[id].flag, "shared" \notin store[id].flag
               PROVE  /\ id \in DOMAIN store' /\ store'[id].value = store[id].value
                      /\ store'[id].owner = store[id].owner /\ store'[id].flag = store[id].flag
    OBVIOUS
  <2> DEFINE w == View(store, rt)
             w2 == View(store', << >>)
  <2>1. WorldOK(w, hand, refs) /\ FrozenOK(store, w) /\ id \in All
    BY <1>1, IdFacts DEF ObjectsInv
  <2>2. w2 = [k \in All |-> Settle(w[k])]
    BY <1>1, CommitFacts
  <2>3. w[id].live /\ w[id].value = store[id].value /\ w[id].owner = store[id].owner /\ w[id].flag = store[id].flag
    BY <2>1 DEF FrozenOK
  <2>4. w[id].home /\ w[id] \in Things
    BY <2>1, <2>3 DEF WorldOK, FlagsOK, ThingsOK
  <2>5. w2[id] = w[id]
    BY <2>1, <2>2, <2>4, SettleFacts
  <2>6. w2[id] = IF id \in DOMAIN store' THEN Stored(store'[id]) ELSE Gone
    BY <2>1, BareView
  <2> HIDE DEF w, w2
  <2>7. id \in DOMAIN store' /\ w[id] = Stored(store'[id])
    BY <2>3, <2>5, <2>6, GoneFacts
  <2> QED BY <2>3, <2>7, StoredFacts
<1>2. ASSUME ObjectsInv, [NextRuntime]_vars PROVE [Kept]_vars
  <2>1. CASE UNCHANGED vars
    BY <2>1
  <2>2. CASE NextRuntime /\ ~Commit
    <3>1. store' = store
      BY <1>2, <2>2, AllOperate DEF BeginTx, Execute, Abort, Operates
    <3> QED BY <3>1
  <2>3. CASE Commit
    BY <1>1, <1>2, <2>3
  <2> QED BY <1>2, <2>1, <2>2, <2>3
<1> QED BY <1>2, ObjectsInvariant, PTL DEF SpecRuntime, FrozenForEver
--------------------------------------------------------------------------------
(* The runtime implements ObjectStore.                                     *)

(* The record ObjectStore has of an object; the private copy, the handles  *)
(* at home and the published objects.                                      *)
Entry(o) == [value |-> o.value, owner |-> o.owner, flag |-> o.flag]
Draft(w) == [id \in Alive(w) |-> Entry(w[id])]
Home(w) == {id \in Alive(w) : w[id].home}
Published(s) == [id \in DOMAIN s \ {Root} |-> Entry(s[id])]

(* The published objects whose handle can be reached.                      *)
Reached(d) == {id \in DOMAIN d : d[id].owner # SystemOwner \/ d[id].flag # {}}

(* The refinement mapping in terms of the view.                            *)
Mapped ==
  /\ [id \in LiveIDs |-> Seen(id)] = Draft(View(store, rt))
  /\ {id \in LiveIDs : AtHome(id)} = Home(View(store, rt))

(* The mapping is the view's.                                              *)
LEMMA MappingFacts == ObjectsInv => Mapped
<1> SUFFICES ASSUME ObjectsInv PROVE Mapped
  OBVIOUS
<1> DEFINE w == View(store, rt)
<1>1. LiveIDs = Alive(w) /\ \A id \in Alive(w) : AtHome(id) <=> w[id].home
  BY ViewFacts
<1>2. \A id \in Alive(w) : Seen(id) = Entry(w[id])
  <2> SUFFICES ASSUME NEW id \in Alive(w) PROVE Seen(id) = Entry(w[id])
    OBVIOUS
  <2>1. Seen(id).flag = w[id].flag /\ Seen(id).owner = w[id].owner /\ Seen(id).value = w[id].value
    BY SeenFlags DEF Alive
  <2>2. Seen(id) = [value |-> Seen(id).value, owner |-> Seen(id).owner, flag |-> Seen(id).flag]
    BY DEF Seen
  <2> QED BY <2>1, <2>2 DEF Entry
<1> QED BY <1>1, <1>2 DEF Mapped, Draft, Home

(* What the private copy is like when nothing is loaded.                   *)
LEMMA BareDraft ==
  ASSUME NEW s, TreeOK(s), NEW w, w = View(s, << >>), WorldOK(w, NoHands, NoRefs)
  PROVE  /\ Draft(w) = Published(s)
         /\ Home(w) = Reached(Published(s))
<1>1. \A id \in IDs : w[id] = IF id \in DOMAIN s THEN Stored(s[id]) ELSE Gone
  BY BareView
<1>2. Alive(w) = DOMAIN s \ {Root}
  BY <1>1, StoredFacts, GoneFacts, IdFacts DEF Alive, TreeOK
<1>3. \A id \in Alive(w) : Entry(w[id]) = Entry(s[id]) /\ (w[id].home <=> ~is_embeded(s[id]))
  <2> SUFFICES ASSUME NEW id \in Alive(w) PROVE Entry(w[id]) = Entry(s[id]) /\ (w[id].home <=> ~is_embeded(s[id]))
    OBVIOUS
  <2>1. w[id] = Stored(s[id])
    BY <1>1, <1>2 DEF Alive
  <2> QED BY <2>1, StoredFacts DEF Entry
<1>4. Draft(w) = Published(s)
  BY <1>2, <1>3 DEF Draft, Published
<1>5. \A id \in Alive(w) : w[id].home <=> Published(s)[id].owner # SystemOwner \/ Published(s)[id].flag # {}
  <2>1. \A id \in Alive(w) : Published(s)[id].owner = s[id].owner /\ Published(s)[id].flag = s[id].flag
    BY <1>2 DEF Published, Entry
  <2> QED BY <2>1, <1>3 DEF is_embeded
<1>6. DOMAIN Published(s) = Alive(w)
  BY <1>2 DEF Published
<1> QED BY <1>4, <1>5, <1>6 DEF Home, Reached

(* Another object t at id.                                                 *)
DraftPut(w, w2, id, t) ==
  /\ Alive(w2) = Alive(w) /\ id \in Alive(w)
  /\ Draft(w2) = [k \in Alive(w) |-> IF k = id THEN Entry(t) ELSE Draft(w)[k]]
  /\ Home(w2) = (IF t.home THEN Home(w) \cup {id} ELSE Home(w) \ {id})

(* A view that differs from another at one object only.                    *)
LEMMA DraftOfPut ==
  ASSUME NEW w \in [All -> Things], NEW id \in IDs, w[id].live, NEW t, t.live
  PROVE  DraftPut(w, Put(w, id, t), id, t)
<1> DEFINE w2 == Put(w, id, t)
<1>1. w2[id] = t /\ \A k \in IDs : k # id => w2[k] = w[k]
  BY DEF Put
<1> HIDE DEF w2
<1>2. Alive(w2) = Alive(w) /\ id \in Alive(w)
  BY <1>1 DEF Alive
<1>3. \A k \in Alive(w) : Entry(w2[k]) = IF k = id THEN Entry(t) ELSE Draft(w)[k]
  BY <1>1 DEF Draft, Alive
<1>4. Draft(w2) = [k \in Alive(w) |-> IF k = id THEN Entry(t) ELSE Draft(w)[k]]
  BY <1>2, <1>3 DEF Draft
<1>5. Home(w2) = (IF t.home THEN Home(w) \cup {id} ELSE Home(w) \ {id})
  BY <1>1, <1>2 DEF Home, Alive
<1> QED BY <1>2, <1>4, <1>5 DEF DraftPut, w2

(* Draft and home of a resized object are as before.                       *)
LEMMA DraftAlike ==
  ASSUME NEW a, NEW b, Alike(a, b)
  PROVE  Entry(a) = Entry(b) /\ (a.home <=> b.home) /\ (a.live <=> b.live)
BY DEF Alike, Entry

(* An object more or less in the private copy.                             *)
DraftGrown(w, w2, id, v) ==
  /\ id \notin Alive(w) /\ Home(w2) = Home(w)
  /\ Draft(w2) = [k \in Alive(w) \cup {id} |-> IF k = id THEN Entry(Infant(v)) ELSE Draft(w)[k]]
DraftPruned(w, w2, id) ==
  /\ id \in Alive(w) \ Home(w) /\ Home(w2) = Home(w)
  /\ Draft(w2) = [k \in Alive(w) \ {id} |-> Draft(w)[k]]

(* An object less, and what is below it.                                   *)
DraftDropped(w, w2, id) ==
  /\ id \in Alive(w) \ Home(w) /\ Kids(w, id) \cap Home(w) = {} /\ Home(w2) = Home(w)
  /\ Draft(w2) = [k \in Alive(w) \ ({id} \cup Kids(w, id)) |-> Draft(w)[k]]

(* Creating.                                                               *)
LEMMA DraftOfGrown ==
  ASSUME NEW w \in [All -> Things], NEW id \in IDs, NEW v \in Values, ~w[id].live, w[Parent(id)].live
  PROVE  DraftGrown(w, Grown(w, id, v), id, v)
<1> DEFINE w2 == Grown(w, id, v)
           p == Parent(id)
<1>1. p \in All /\ p # id /\ w[p] \in Things
  BY IdFacts
<1>2. w[p].size + 1 \in Nat
  BY <1>1 DEF Things
<1>3. /\ w2[id] = Infant(v) /\ w2[p] = Resized(w[p], w[p].size + 1)
      /\ \A k \in IDs : k # id /\ k # p => w2[k] = w[k]
  BY <1>1 DEF Grown
<1> HIDE DEF w2
<1>4. \A k \in IDs : k # id => Entry(w2[k]) = Entry(w[k]) /\ (w2[k].home <=> w[k].home) /\ (w2[k].live <=> w[k].live)
  BY <1>1, <1>2, <1>3, ResizedFacts, DraftAlike, SMTT(30)
<1>5. w2[id].live /\ ~w2[id].home
  BY <1>3, InfantFacts
<1>6. Alive(w2) = Alive(w) \cup {id} /\ id \notin Alive(w)
  BY <1>4, <1>5 DEF Alive
<1>7. Home(w2) = Home(w)
  BY <1>4, <1>5, <1>6 DEF Home, Alive
<1>8. Draft(w2) = [k \in Alive(w) \cup {id} |-> IF k = id THEN Entry(Infant(v)) ELSE Draft(w)[k]]
  <2>1. \A k \in Alive(w) \cup {id} : Entry(w2[k]) = IF k = id THEN Entry(Infant(v)) ELSE Draft(w)[k]
    BY <1>3, <1>4, <1>6 DEF Draft, Alive
  <2> QED BY <2>1, <1>6 DEF Draft
<1> QED BY <1>6, <1>7, <1>8 DEF DraftGrown, w2

(* The private copy without the object at id.                              *)
LEMMA DraftOfPruned ==
  ASSUME NEW w, ThingsOK(w), NEW id \in IDs, w[id].live, ~w[id].home, w[Parent(id)].size - 1 \in Nat
  PROVE  DraftPruned(w, Pruned(w, id), id)
<1> DEFINE w2 == Pruned(w, id)
           p == Parent(id)
<1>1. p \in All /\ p # id /\ w[p] \in Things /\ w[p].live /\ w \in [All -> Things]
  BY IdFacts DEF ThingsOK
<1>2. /\ w2[id] = Gone /\ w2[p] = Resized(w[p], w[p].size - 1)
      /\ \A k \in IDs : k # id /\ k # p => w2[k] = w[k]
  BY <1>1 DEF Pruned
<1> HIDE DEF w2
<1>3. \A k \in IDs : k # id => Entry(w2[k]) = Entry(w[k]) /\ (w2[k].home <=> w[k].home) /\ (w2[k].live <=> w[k].live)
  <2>1. Alike(w2[p], w[p])
    BY <1>1, <1>2, ResizedFacts
  <2>2. \A k \in IDs : k # id => Alike(w2[k], w[k])
    BY <2>1, <1>2 DEF Alike
  <2> QED BY <2>2, DraftAlike
<1>4. ~w2[id].live
  BY <1>2, GoneFacts
<1>5. Alive(w2) = Alive(w) \ {id} /\ id \in Alive(w) \ Home(w)
  BY <1>3, <1>4 DEF Alive, Home
<1>6. Home(w2) = Home(w)
  BY <1>3, <1>4, <1>5 DEF Home, Alive
<1>7. Draft(w2) = [k \in Alive(w) \ {id} |-> Draft(w)[k]]
  <2>1. \A k \in Alive(w) \ {id} : Entry(w2[k]) = Draft(w)[k]
    BY <1>2, <1>3, <1>5 DEF Draft, Alive
  <2> QED BY <2>1, <1>5 DEF Draft
<1> QED BY <1>5, <1>6, <1>7 DEF DraftPruned, w2

(* The private copy without a container and its fields.                    *)
LEMMA DraftOfDropped ==
  ASSUME NEW w, ThingsOK(w), FlagsOK(w), NEW id \in Named, w[id].live, ~w[id].home, Droppable(w, id),
         w[Parent(id)].size - 1 \in Nat
  PROVE  DraftDropped(w, Dropped(w, id), id)
<1> DEFINE u == Cleared(w, id)
           w2 == Dropped(w, id)
           p == Parent(id)
           K == Kids(w, id)
<1>1. /\ p \in All /\ p # id /\ p \notin Fields /\ w[p] \in Things /\ w[p].live /\ w \in [All -> Things]
      /\ id \in IDs /\ id \notin Fields /\ Parent(p) # id
  <2>1. p \in All /\ p # id /\ p \notin Fields /\ id \in IDs /\ id \notin Fields /\ Parent(p) = Root /\ id # Root
    BY IdFacts
  <2> QED BY <2>1 DEF ThingsOK
<1>2. /\ \A k \in Fields : Parent(k) = id => u[k] = Gone
      /\ u[p] = w[p] /\ \A k \in IDs : k # id /\ ~(k \in Fields /\ Parent(k) = id) => u[k] = w[k]
      /\ u = [k \in All |-> u[k]]
  BY <1>1, IdFacts DEF Cleared
<1> HIDE DEF u
<1>3. /\ w2[id] = Gone /\ w2[p] = Resized(w[p], w[p].size - 1)
      /\ \A k \in IDs : k # id /\ k # p => w2[k] = u[k]
  BY <1>1, <1>2 DEF Dropped, Pruned, u
<1> HIDE DEF w2
<1>4. \A k \in IDs : k # id /\ k \notin K =>
        Entry(w2[k]) = Entry(w[k]) /\ (w2[k].home <=> w[k].home) /\ (w2[k].live <=> w[k].live)
  <2>1. Alike(w2[p], w[p])
    BY <1>1, <1>3, ResizedFacts
  <2>2. \A k \in Fields : Parent(k) = id /\ k \notin K => w[k] = Gone
    BY IdFacts DEF Kids, ThingsOK
  <2>3. \A k \in IDs : k # id /\ k \notin K /\ k # p => w2[k] = w[k]
    BY <2>2, <1>2, <1>3
  <2>4. \A k \in IDs : k # id /\ k \notin K => Alike(w2[k], w[k])
    BY <2>1, <2>3 DEF Alike
  <2> QED BY <2>4, DraftAlike
<1>5. ~w2[id].live /\ \A k \in K : ~w2[k].live
  <2>1. \A k \in K : k \in Fields /\ Parent(k) = id /\ k \in IDs /\ k # id /\ k # p
    BY <1>1 DEF Droppable, Kids
  <2> QED BY <2>1, <1>2, <1>3, GoneFacts
<1>6. /\ Alive(w2) = Alive(w) \ ({id} \cup K) /\ id \in Alive(w) \ Home(w)
  BY <1>1, <1>4, <1>5 DEF Alive, Home
<1>7. K \cap Home(w) = {}
  BY DEF Droppable, FlagsOK, Home
<1>8. Home(w2) = Home(w)
  <2>1. \A k \in Alive(w) : w[k].home => k # id /\ k \notin K
    BY <1>7 DEF Home
  <2> QED BY <2>1, <1>4, <1>6 DEF Home, Alive
<1>9. Draft(w2) = [k \in Alive(w) \ ({id} \cup K) |-> Draft(w)[k]]
  <2>1. \A k \in Alive(w) \ ({id} \cup K) : Entry(w2[k]) = Draft(w)[k]
    BY <1>4 DEF Draft, Alive
  <2> QED BY <2>1, <1>6 DEF Draft
<1> QED BY <1>6, <1>7, <1>8, <1>9 DEF DraftDropped, w2

(* An existing object counts in its parent's size.                         *)
LEMMA CountedAbove ==
  ASSUME NEW w, ThingsOK(w), SizesOK(w), NEW id \in IDs, w[id].live
  PROVE  w[Parent(id)].size - 1 \in Nat
<1> DEFINE K == Kids(w, Parent(id))
<1>1. IsFiniteSet(K) /\ id \in K
  BY CountedSets DEF Kids
<1>2. Cardinality(K) \in Nat /\ Cardinality(K) # 0
  BY <1>1, CountOne
<1>3. w[Parent(id)].size = Cardinality(K)
  BY IdFacts DEF SizesOK
<1> HIDE DEF K
<1> QED BY <1>2, <1>3

(* Settling.                                                               *)
LEMMA DraftSettled ==
  ASSUME NEW w, w \in [All -> Things]
  PROVE  Draft([id \in All |-> Settle(w[id])])
           = [id \in Alive(w) |-> IF id \in Home(w) THEN Draft(w)[id] ELSE [Draft(w)[id] EXCEPT !.owner = SystemOwner]]
<1> DEFINE w2 == [id \in All |-> Settle(w[id])]
<1>1. \A id \in IDs : w2[id] = Settle(w[id]) /\ w[id] \in Things
  OBVIOUS
<1> HIDE DEF w2
<1>2. \A id \in IDs : w2[id].live = w[id].live
  BY <1>1, SettleFacts
<1>3. Alive(w2) = Alive(w)
  BY <1>2 DEF Alive
<1>4. ASSUME NEW id \in Alive(w)
      PROVE  Entry(w2[id]) = IF id \in Home(w) THEN Draft(w)[id] ELSE [Draft(w)[id] EXCEPT !.owner = SystemOwner]
  <2>1. w[id].live /\ w2[id] = Settle(w[id]) /\ w[id] \in Things /\ Draft(w)[id] = Entry(w[id])
    BY <1>1, <1>4 DEF Alive, Draft
  <2>2. CASE w[id].home
    BY <2>1, <2>2, <1>4, SettleFacts DEF Home
  <2>3. CASE ~w[id].home
    <3>1. w2[id].value = w[id].value /\ w2[id].flag = w[id].flag /\ w2[id].owner = SystemOwner
      BY <2>1, <2>3, SettleFacts
    <3>2. Entry(w2[id]) = [Entry(w[id]) EXCEPT !.owner = SystemOwner]
      BY <3>1 DEF Entry
    <3> QED BY <3>2, <2>1, <2>3 DEF Home
  <2> QED BY <2>2, <2>3
<1> QED BY <1>3, <1>4 DEF Draft, w2

(* An operation on the objects is an operation of ObjectStore, on the      *)
(* private copy d and the handles at home h.                               *)
Does(d, h, d2, h2) ==
  \/ d2 = d /\ h2 = h
  \/ \E id \in IDs, v \in Values :
       /\ id \notin DOMAIN d /\ h2 = h
       /\ d2 = [k \in DOMAIN d \cup {id} |-> IF k = id THEN Entry(Infant(v)) ELSE d[k]]
  \/ \E id \in IDs :
       /\ id \in DOMAIN d \ h /\ {c \in DOMAIN d : Parent(c) = id} = {}
       /\ d2 = [k \in DOMAIN d \ {id} |-> d[k]] /\ h2 = h
  \/ \E id \in IDs :
       /\ id \in DOMAIN d \ h /\ {c \in DOMAIN d : Parent(c) = id} \cap h = {} /\ h2 = h
       /\ d2 = [k \in DOMAIN d \ ({id} \cup {c \in DOMAIN d : Parent(c) = id}) |-> d[k]]
  \/ \E id \in IDs, v \in Values :
       id \in DOMAIN d /\ d2 = [d EXCEPT ![id].value = v] /\ h2 = h
  \/ \E id \in IDs : id \in h /\ h2 = h \ {id} /\ d2 = d
  \/ \E id \in IDs, u \in Users \cup {SystemOwner}, f \in SUBSET Flags :
       /\ id \in DOMAIN d \ h /\ d2 = [d EXCEPT ![id].owner = u, ![id].flag = f]
       /\ h2 = h \cup {id}

(* Each change of the view is one of ObjectStore's operations.             *)
LEMMA ChangedDoes ==
  ASSUME NEW w, NEW w2, ThingsOK(w), ThingsOK(w2), SizesOK(w), FlagsOK(w), Changed(w, w2)
  PROVE  Does(Draft(w), Home(w), Draft(w2), Home(w2))
<1>1. w \in [All -> Things] /\ w2 \in [All -> Things] /\ DOMAIN Draft(w) = Alive(w)
  BY DEF ThingsOK, Draft
<1>2. CASE w2 = w
  BY <1>2 DEF Does
<1>3. ASSUME NEW id \in IDs, NEW v \in Values, ~w[id].live, w[Parent(id)].live, w2 = Grown(w, id, v)
      PROVE  Does(Draft(w), Home(w), Draft(w2), Home(w2))
  <2>1. /\ id \notin Alive(w) /\ Home(w2) = Home(w)
        /\ Draft(w2) = [k \in Alive(w) \cup {id} |-> IF k = id THEN Entry(Infant(v)) ELSE Draft(w)[k]]
    <3>1. DraftGrown(w, Grown(w, id, v), id, v)
      BY <1>1, <1>3, DraftOfGrown
    <3> QED BY <3>1, <1>3 DEF DraftGrown
  <2> QED BY <2>1, <1>1 DEF Does
<1>4. ASSUME NEW id \in IDs, w[id].live, ~w[id].home, Kids(w, id) = {}, w2 = Pruned(w, id)
      PROVE  Does(Draft(w), Home(w), Draft(w2), Home(w2))
  <2>1. w[Parent(id)].size - 1 \in Nat
    BY <1>4, CountedAbove
  <2>2. /\ id \in Alive(w) \ Home(w) /\ Home(w2) = Home(w)
        /\ Draft(w2) = [k \in Alive(w) \ {id} |-> Draft(w)[k]]
    <3>1. DraftPruned(w, Pruned(w, id), id)
      BY <2>1, <1>4, DraftOfPruned
    <3> QED BY <3>1, <1>4 DEF DraftPruned
  <2>3. {c \in DOMAIN Draft(w) : Parent(c) = id} = {}
    BY <1>1, <1>4 DEF Kids, Alive
  <2> QED BY <2>2, <2>3, <1>1 DEF Does
<1>5. ASSUME NEW id \in Named, w[id].live, ~w[id].home, Droppable(w, id), w2 = Dropped(w, id)
      PROVE  Does(Draft(w), Home(w), Draft(w2), Home(w2))
  <2>1. id \in IDs
    BY IdFacts
  <2>2. w[Parent(id)].size - 1 \in Nat
    BY <2>1, <1>5, CountedAbove
  <2>3. DraftDropped(w, w2, id)
    BY <2>2, <1>5, DraftOfDropped
  <2>4. {c \in DOMAIN Draft(w) : Parent(c) = id} = Kids(w, id)
    BY <1>1 DEF Kids, Alive
  <2>5. /\ id \in DOMAIN Draft(w) \ Home(w) /\ Home(w2) = Home(w)
        /\ {c \in DOMAIN Draft(w) : Parent(c) = id} \cap Home(w) = {}
        /\ Draft(w2) = [k \in DOMAIN Draft(w) \ ({id} \cup {c \in DOMAIN Draft(w) : Parent(c) = id}) |-> Draft(w)[k]]
    BY <2>3, <2>4, <1>1 DEF DraftDropped
  <2> QED BY <2>1, <2>5, Zenon DEF Does
<1>6. ASSUME NEW id \in IDs, NEW v \in Plain, w[id].live, w2 = Put(w, id, Rewritten(w[id], v))
      PROVE  Does(Draft(w), Home(w), Draft(w2), Home(w2))
  <2> DEFINE t == Rewritten(w[id], v)
  <2>1. t.live /\ Entry(t) = [Entry(w[id]) EXCEPT !.value = v] /\ t.home = w[id].home
    BY DEF Rewritten, Thing, Entry
  <2> HIDE DEF t
  <2>2. /\ id \in Alive(w)
        /\ Draft(w2) = [k \in Alive(w) |-> IF k = id THEN Entry(t) ELSE Draft(w)[k]]
        /\ Home(w2) = (IF t.home THEN Home(w) \cup {id} ELSE Home(w) \ {id})
    <3>1. w2 = Put(w, id, t)
      BY <1>6 DEF t
    <3>2. DraftPut(w, Put(w, id, t), id, t)
      BY <2>1, <1>1, <1>6, DraftOfPut
    <3> QED BY <3>1, <3>2 DEF DraftPut
  <2>3. Home(w2) = Home(w)
    BY <2>1, <2>2 DEF Home
  <2>4. Draft(w)[id] = Entry(w[id]) /\ v \in Values
    BY <2>2, ValueFacts DEF Draft
  <2>5. Draft(w2) = [Draft(w) EXCEPT ![id].value = v]
    BY <2>1, <2>2, <2>4, <1>1 DEF Draft
  <2> QED BY <2>2, <2>3, <2>4, <2>5, <1>1 DEF Does
<1>7. ASSUME NEW id \in Named, w[id].live, w[id].home, w2 = Put(w, id, Taken(w[id]))
      PROVE  Does(Draft(w), Home(w), Draft(w2), Home(w2))
  <2> DEFINE t == Taken(w[id])
  <2>1. t.live /\ Entry(t) = Entry(w[id]) /\ ~t.home /\ id \in IDs
    BY IdFacts DEF Taken, Thing, Entry
  <2> HIDE DEF t
  <2>2. /\ id \in Alive(w)
        /\ Draft(w2) = [k \in Alive(w) |-> IF k = id THEN Entry(t) ELSE Draft(w)[k]]
        /\ Home(w2) = (IF t.home THEN Home(w) \cup {id} ELSE Home(w) \ {id})
    <3>1. w2 = Put(w, id, t)
      BY <1>7 DEF t
    <3>2. DraftPut(w, Put(w, id, t), id, t)
      BY <2>1, <1>1, <1>7, DraftOfPut
    <3> QED BY <3>1, <3>2 DEF DraftPut
  <2>3. Draft(w2) = Draft(w)
    BY <2>1, <2>2 DEF Draft
  <2>4. id \in Home(w) /\ Home(w2) = Home(w) \ {id}
    BY <2>1, <2>2, <1>7 DEF Home
  <2> QED BY <2>1, <2>3, <2>4 DEF Does
<1>8. ASSUME NEW id \in Named, NEW u \in Users \cup {SystemOwner}, NEW f \in SUBSET Flags,
             w[id].live, ~w[id].home, w2 = Put(w, id, Given(w[id], u, w[id].flag \cup f))
      PROVE  Does(Draft(w), Home(w), Draft(w2), Home(w2))
  <2> DEFINE g == w[id].flag \cup f
             t == Given(w[id], u, g)
  <2>1. t.live /\ Entry(t) = [value |-> w[id].value, owner |-> u, flag |-> g] /\ t.home /\ id \in IDs
    BY IdFacts DEF Given, Thing, Entry
  <2>2. g \in SUBSET Flags
    BY <2>1, <1>1 DEF Things
  <2>3. w2 = Put(w, id, t)
    BY <1>8
  <2> HIDE DEF g, t
  <2>4. /\ id \in Alive(w)
        /\ Draft(w2) = [k \in Alive(w) |-> IF k = id THEN Entry(t) ELSE Draft(w)[k]]
        /\ Home(w2) = (IF t.home THEN Home(w) \cup {id} ELSE Home(w) \ {id})
    <3>1. DraftPut(w, Put(w, id, t), id, t)
      BY <2>1, <1>1, <1>8, DraftOfPut
    <3> QED BY <3>1, <2>3 DEF DraftPut
  <2>5. Draft(w)[id] = [value |-> w[id].value, owner |-> w[id].owner, flag |-> w[id].flag]
    BY <2>4 DEF Draft, Entry
  <2>6. Draft(w2) = [Draft(w) EXCEPT ![id].owner = u, ![id].flag = g]
    <3>1. [[Draft(w)[id] EXCEPT !.owner = u] EXCEPT !.flag = g] = Entry(t)
      <4> DEFINE r == [Draft(w)[id] EXCEPT !.owner = u]
      <4>1. r = [value |-> w[id].value, owner |-> u, flag |-> w[id].flag]
        BY <2>5
      <4> HIDE DEF r
      <4>2. [r EXCEPT !.flag = g] = [value |-> w[id].value, owner |-> u, flag |-> g]
        BY <4>1
      <4> QED BY <4>2, <2>1 DEF r
    <3> QED BY <3>1, <2>4, <1>1
  <2>7. id \notin Home(w) /\ Home(w2) = Home(w) \cup {id}
    BY <2>1, <2>4, <1>8 DEF Home
  <2> QED BY <2>1, <2>2, <2>4, <2>6, <2>7, <1>1 DEF Does
<1> QED BY <1>2, <1>3, <1>4, <1>5, <1>6, <1>7, <1>8 DEF Changed

(* Every transaction of a restrained program is atomic: an operation works *)
(* on a private copy, apply_change_set publishes exactly that copy, an     *)
(* abort publishes nothing.                                                *)
THEOREM RuntimeImplementsObjectStore == ASSUME Restrained PROVE SpecRuntime => ImplementsObjectStore
<1> DEFINE C == Published(store)
           D == Draft(View(store, rt))
           H == Home(View(store, rt))
<1>1. ObjectsInv => Mapped
  BY MappingFacts
<1>2. ObjectsInv' => Mapped'
  BY MappingFacts, PTL
<1>3. InitRuntime => Objects!InitObjects
  <2> SUFFICES ASSUME InitRuntime PROVE Objects!InitObjects
    OBVIOUS
  <2>1. ObjectsInv /\ Mapped /\ DOMAIN store = {Root} /\ rt = << >>
    BY <1>1, InitOK DEF InitRuntime
  <2>2. C = << >>
    BY <2>1 DEF Published
  <2>3. D = C /\ H = {}
    <3>1. TreeOK(store) /\ WorldOK(View(store, << >>), NoHands, NoRefs)
      BY <2>1 DEF ObjectsInv
    <3>2. /\ D = C
          /\ H = Reached(C)
      BY <2>1, <3>1, BareDraft
    <3>3. DOMAIN C = {}
      BY <2>1 DEF Published
    <3> QED BY <3>2, <3>3 DEF Reached
  <2> HIDE DEF D, H
  <2> QED BY <2>1, <2>2, <2>3 DEF Objects!InitObjects, Mapped, D, H, Published, Entry
<1>4. ObjectsInv /\ ObjectsInv' /\ [NextRuntime]_vars => [Objects!NextObjects]_(Objects!varsObjects)
  <2> SUFFICES ASSUME ObjectsInv, ObjectsInv', [NextRuntime]_vars
               PROVE  Objects!NextObjects \/ UNCHANGED Objects!varsObjects
    OBVIOUS
  <2>1. Mapped /\ Mapped'
    BY <1>1, <1>2
  <2>2. ASSUME store' = store, Does(D, H, D', H')
        PROVE  Objects!NextObjects \/ UNCHANGED Objects!varsObjects
    <3> HIDE DEF D, H
    <3>1. UNCHANGED [id \in DOMAIN store \ {Root} |->
                       [value |-> store[id].value, owner |-> store[id].owner, flag |-> store[id].flag]]
      BY <2>2
    <3>2. /\ [id \in LiveIDs |-> Seen(id)] = D /\ {id \in LiveIDs : AtHome(id)} = H
          /\ [id \in LiveIDs |-> Seen(id)]' = D' /\ {id \in LiveIDs : AtHome(id)}' = H'
      BY <2>1 DEF Mapped, D, H
    <3>3. CASE D' = D /\ H' = H
      BY <3>1, <3>2, <3>3 DEF Objects!varsObjects
    <3>4. ASSUME NEW id \in IDs, NEW v \in Values, id \notin DOMAIN D, H' = H,
                 D' = [k \in DOMAIN D \cup {id} |-> IF k = id THEN Entry(Infant(v)) ELSE D[k]]
          PROVE  Objects!NextObjects
      <4>1. Entry(Infant(v)) = [value |-> v, owner |-> SystemOwner, flag |-> {}]
        BY InfantFacts DEF Entry
      <4>2. Objects!Create(id, v)
        BY <3>1, <3>2, <3>4, <4>1 DEF Objects!Create
      <4> QED BY <4>2 DEF Objects!NextObjects
    <3>5. ASSUME NEW id \in IDs, id \in DOMAIN D \ H, {c \in DOMAIN D : Parent(c) = id} = {},
                 D' = [k \in DOMAIN D \ {id} |-> D[k]], H' = H
          PROVE  Objects!NextObjects
      <4>1. Objects!Delete(id)
        BY <3>1, <3>2, <3>5 DEF Objects!Delete, Objects!Children
      <4> QED BY <4>1 DEF Objects!NextObjects
    <3>6. ASSUME NEW id \in IDs, id \in DOMAIN D \ H, {c \in DOMAIN D : Parent(c) = id} \cap H = {}, H' = H,
                 D' = [k \in DOMAIN D \ ({id} \cup {c \in DOMAIN D : Parent(c) = id}) |-> D[k]]
          PROVE  Objects!NextObjects
      <4>1. Objects!Drop(id)
        BY <3>1, <3>2, <3>6 DEF Objects!Drop, Objects!Children
      <4> QED BY <4>1 DEF Objects!NextObjects
    <3>7. ASSUME NEW id \in IDs, NEW v \in Values, id \in DOMAIN D, D' = [D EXCEPT ![id].value = v], H' = H
          PROVE  Objects!NextObjects
      <4>1. Objects!Write(id, v)
        BY <3>1, <3>2, <3>7 DEF Objects!Write
      <4> QED BY <4>1 DEF Objects!NextObjects
    <3>8. ASSUME NEW id \in IDs, id \in H, H' = H \ {id}, D' = D
          PROVE  Objects!NextObjects
      <4>1. Objects!Take(id)
        BY <3>1, <3>2, <3>8 DEF Objects!Take
      <4> QED BY <4>1 DEF Objects!NextObjects
    <3>9. ASSUME NEW id \in IDs, NEW u \in Users \cup {SystemOwner}, NEW f \in SUBSET Flags,
                 id \in DOMAIN D \ H, D' = [D EXCEPT ![id].owner = u, ![id].flag = f], H' = H \cup {id}
          PROVE  Objects!NextObjects
      <4>1. Objects!GiveBack(id, u, f)
        BY <3>1, <3>2, <3>9 DEF Objects!GiveBack
      <4> QED BY <4>1 DEF Objects!NextObjects
    <3> QED BY <2>2, <3>3, <3>4, <3>5, <3>6, <3>7, <3>8, <3>9 DEF Does
  <2>3. CASE Abort
    <3>1. store' = store /\ rt' = << >> /\ TreeOK(store) /\ WorldOK(View(store, << >>), NoHands, NoRefs)
      BY <2>3 DEF Abort, EndTx, ObjectsInv
    <3>2. D' = Draft(View(store, << >>)) /\ H' = Home(View(store, << >>)) /\ C' = C
      BY <3>1
    <3>3. D' = C /\ H' = Reached(C)
      BY <3>1, <3>2, BareDraft
    <3> HIDE DEF D, H, C
    <3>4. /\ [id \in DOMAIN store \ {Root} |->
                [value |-> store[id].value, owner |-> store[id].owner, flag |-> store[id].flag]] = C
          /\ [id \in DOMAIN store \ {Root} |->
                [value |-> store[id].value, owner |-> store[id].owner, flag |-> store[id].flag]]' = C'
      BY DEF C, Published, Entry
    <3>5. [id \in LiveIDs |-> Seen(id)]' = D' /\ {id \in LiveIDs : AtHome(id)}' = H'
      BY <2>1 DEF Mapped, D, H
    <3>6. Objects!Forget
      BY <3>2, <3>3, <3>4, <3>5 DEF Objects!Forget, Objects!Reachable, Reached
    <3> QED BY <3>6 DEF Objects!NextObjects
  <2>4. CASE Commit
    <3>1. /\ rt' = << >> /\ TreeOK(store') /\ WorldOK(View(store', << >>), NoHands, NoRefs)
          /\ View(store', << >>) = [id \in All |-> Settle(View(store, rt)[id])]
          /\ View(store, rt) \in [All -> Things]
      BY <2>4, CommitFacts DEF Commit, EndTx, StateOK, WorldOK, ThingsOK
    <3>2. D' = Draft(View(store', << >>)) /\ H' = Home(View(store', << >>)) /\ C' = Published(store')
      BY <3>1
    <3>3. D' = C' /\ H' = Reached(C')
      BY <3>1, <3>2, BareDraft
    <3>4. DOMAIN D = Alive(View(store, rt))
      BY DEF Draft
    <3>5. D' = [id \in DOMAIN D |-> IF id \in H THEN D[id] ELSE [D[id] EXCEPT !.owner = SystemOwner]]
      BY <3>1, <3>2, <3>4, DraftSettled
    <3> HIDE DEF D, H, C
    <3>6. /\ [id \in DOMAIN store \ {Root} |->
                [value |-> store[id].value, owner |-> store[id].owner, flag |-> store[id].flag]]' = C'
      BY DEF C, Published, Entry
    <3>7. /\ [id \in LiveIDs |-> Seen(id)]' = D' /\ {id \in LiveIDs : AtHome(id)}' = H'
          /\ [id \in LiveIDs |-> Seen(id)] = D /\ {id \in LiveIDs : AtHome(id)} = H
      BY <2>1 DEF Mapped, D, H
    <3>8. Objects!Publish
      BY <3>3, <3>5, <3>6, <3>7 DEF Objects!Publish, Objects!Settled, Objects!Reachable, Reached
    <3> QED BY <3>8 DEF Objects!NextObjects
  <2>5. CASE UNCHANGED vars
    <3>1. store' = store /\ rt' = rt
      BY <2>5 DEF vars
    <3>2. D' = D /\ H' = H
      BY <3>1
    <3> QED BY <2>2, <3>1, <3>2 DEF Does
  <2>6. CASE BeginTx \/ Execute
    <3>1. store' = store /\ View(store', rt') = View(store, rt)
      BY <2>6, BeginTxOK, ExecuteOK
    <3>2. D' = D /\ H' = H
      BY <3>1
    <3> QED BY <2>2, <3>1, <3>2 DEF Does
  <2>7. CASE Operates
    <3>1. store' = store /\ Changed(View(store, rt), View(store, rt'))
      BY <2>7 DEF Operates
    <3>2. /\ ThingsOK(View(store, rt)) /\ SizesOK(View(store, rt)) /\ FlagsOK(View(store, rt))
          /\ ThingsOK(View(store, rt'))
      BY <2>7 DEF Operates, StateOK, ObjectsInv, WorldOK
    <3>3. Does(D, H, Draft(View(store, rt')), Home(View(store, rt')))
      BY <3>1, <3>2, ChangedDoes
    <3>4. D' = Draft(View(store, rt')) /\ H' = Home(View(store, rt'))
      BY <3>1
    <3> QED BY <2>2, <3>1, <3>3, <3>4
  <2> QED BY <2>3, <2>4, <2>5, <2>6, <2>7, AllOperate
<1> QED BY <1>3, <1>4, ObjectsInvariant, PTL DEF SpecRuntime, ImplementsObjectStore, Objects!SpecObjects
================================================================================

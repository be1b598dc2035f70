--------------------------- MODULE RedisKeysProofs ---------------------------
(***************************************************************************)
(* Theorems about RedisKeys, for any keyspace, documents and parameters.   *)
(* First what holds whatever other clients do: what a scan guarantees,     *)
(* what a call may touch, types, whole documents (KInv, CallTypes).  Then  *)
(* what a call does that nobody disturbs: a write (WriteInv), a drop or a  *)
(* rename (CollectionInv), a find or a count (ReadInv).                    *)
(***************************************************************************)
EXTENDS RedisKeys, SequenceTheorems, FiniteSetTheorems, TLAPS

Grouped == {"find", "stats", "drop", "rename"}
Pointed == {"insert", "replace", "delete", "findone"}

\* Each program point belongs to the methods that send its command.
AtFits ==
    /\ at = "scan" => req.op \in Scanning
    /\ at = "del" => req.op \in {"replace", "delete"}
    /\ at = "exists" => req.op = "replace"
    /\ at \in {"write", "ttl"} => req.op \in {"insert", "replace"}
    /\ at = "page" => req.op = "find"
    /\ at \in {"type", "readttl", "value"} => req.op \in {"find", "findone"}
    /\ at = "unlink" => req.op = "drop"
    /\ at = "rename" => req.op = "rename"
    /\ at = "flush" => req.op = "flush"
    /\ at # "done" => result = "none"

\* What was collected is of the collection, and so is what is to be renamed.
Collected ==
    /\ found \in Seq(Key)
    /\ req.op \in Scanning => \A i \in 1..Len(found) : Matches(found[i])
    /\ req.op = "rename" =>
          todo \in Seq(Key) /\ \A i \in 1..Len(todo) : Matches(todo[i])
    /\ at = "rename" => todo # <<>>

\* While SCAN goes on, what it returned is collected; once it ended, what
\* stood all along is.
Covered ==
    /\ at = "scan" =>
          \A k \in seen : Matches(k) => Contains(found, k)
    /\ req.op \in Scanning /\ at # "scan" /\ result # "error" =>
          \A k \in stood : Matches(k) => Contains(found, k)

KInv ==
    /\ keys \in Keyspaces
    /\ req \in Request
    /\ seen \in SUBSET Key
    /\ stood \in SUBSET Key
    /\ AtFits
    /\ Collected
    /\ Covered

\* A call has the parameters of its method.
LEMMA RequestFields ==
    ASSUME req \in Request
    PROVE  /\ req.op \in Pointed \cup Scanning \cup {"flush"}
           /\ req.op \in Grouped => req.coll \in Colls
           /\ req.op \in Pointed => req.key \in Key
           /\ req.op = "rename" => req.to \in NewNames
BY DEF Request, Pointed, Scanning, Grouped

\* CollectionOf sorts the keys into the groups the documentation describes.
LEMMA MatchesGroup ==
    ASSUME req \in Request, req.op \in Grouped, NEW k \in Key
    PROVE  Matches(k) <=> k \in Group(req.coll)
<1>1. req.coll \in Colls /\ req.op # "list"
  BY RequestFields DEF Grouped
<1>2. Matches(k) <=> req.coll = CollectionOf(k)
  BY <1>1 DEF Matches
<1>3. k = [text |-> k.text, rest |-> k.rest] /\ k.text \in Texts
      /\ k.rest \in Rests \cup {Bare}
  BY DEF Key
<1>4. Bare \notin Rests
  BY RedisAssumption DEF Bare
<1>5. CASE k.rest = Bare
  <2>1. CollectionOf(k) = NoPrefix
    BY <1>5 DEF CollectionOf
  <2>2. k \in Group(req.coll) <=> req.coll = NoPrefix
    BY <1>1, <1>3, <1>4, <1>5 DEF Group
  <2> QED BY <1>2, <2>1, <2>2
<1>6. CASE k.rest # Bare
  <2>1. CollectionOf(k) = k.text
    BY <1>6 DEF CollectionOf
  <2>2. k \in Group(req.coll) <=> req.coll = k.text
    BY <1>1, <1>3, <1>4, <1>6 DEF Group
  <2> QED BY <1>2, <2>1, <2>2
<1> QED BY <1>5, <1>6

\* No key is there under a value it cannot have.
LEMMA StoredKeyspace ==
    ASSUME keys \in Keyspaces, NEW k \in Key, NEW v \in Value \cup {Absent},
           Store(k, v)
    PROVE  keys' \in Keyspaces
BY DEF Store, Keyspaces

\* A written value is a value.
LEMMA WrittenValue ==
    ASSUME NEW old \in Value \cup {Absent}, NEW type \in Types,
           NEW items \in SUBSET Items,
           type = "string" \/ items # {},
           old = Absent \/ type = "string" \/ old.type = type
    PROVE  Written(old, type, items) \in Value
<1>1. CASE old = Absent \/ type = "string"
  <2>1. Written(old, type, items)
            = [type |-> type, items |-> items, expires |-> FALSE]
    BY <1>1 DEF Written
  <2> QED BY <2>1, RedisAssumption DEF Value, Types
<1>2. CASE old # Absent /\ type # "string"
  <2>1. old \in Value /\ old.type = type /\ items # {}
    BY <1>2
  <2>2. Written(old, type, items) = [old EXCEPT !.items = @ \cup items]
    BY <1>2 DEF Written
  <2>3. old = [type |-> old.type, items |-> old.items, expires |-> old.expires]
        /\ old.type \in Types /\ old.items \in SUBSET Items
        /\ old.expires \in BOOLEAN
    BY <2>1 DEF Value
  <2>4. [old EXCEPT !.items = @ \cup items]
            = [type |-> old.type, items |-> old.items \cup items,
               expires |-> old.expires]
    BY <2>3
  <2>5. old.items \cup items \in SUBSET Items /\ old.items \cup items # {}
    BY <2>1, <2>3
  <2> QED BY <2>2, <2>3, <2>4, <2>5 DEF Value
<1> QED BY <1>1, <1>2

\* PERSIST and EXPIRE leave a value or nothing.
LEMMA ExpiringValue ==
    ASSUME NEW old \in Value, NEW ttl \in {"clear", "set", "fraction"}
    PROVE  Expiring(old, ttl) \in Value \cup {Absent}
<1>1. old = [type |-> old.type, items |-> old.items, expires |-> old.expires]
      /\ old.type \in Types /\ old.items \in SUBSET Items
      /\ (old.type \in MergeTypes => old.items # {})
  BY DEF Value
<1>2. ASSUME NEW e \in BOOLEAN PROVE [old EXCEPT !.expires = e] \in Value
  <2>1. [old EXCEPT !.expires = e]
            = [type |-> old.type, items |-> old.items, expires |-> e]
    BY <1>1
  <2> QED BY <1>1, <2>1 DEF Value
<1>3. ttl = "clear" => Expiring(old, ttl) = [old EXCEPT !.expires = FALSE]
  BY DEF Expiring
<1>4. ttl = "set" => Expiring(old, ttl) = [old EXCEPT !.expires = TRUE]
  BY DEF Expiring
<1>5. ttl = "fraction" => Expiring(old, ttl) = Absent
  BY DEF Expiring
<1> QED BY <1>2, <1>3, <1>4, <1>5
-----------------------------------------------------------------------------
(* The invariant.                                                          *)

LEMMA KInit == Init => KInv
<1> SUFFICES ASSUME Init PROVE KInv
  OBVIOUS
<1>1. keys \in Keyspaces /\ req \in Request /\ seen = {} /\ found = <<>>
      /\ stood \in SUBSET Key /\ at = FirstCommand(req)
      /\ (req.op # "findone" => todo = <<>>)
  BY RedisAssumption DEF Init
<1>2. /\ req.op \in Scanning => at = "scan"
      /\ req.op = "insert" => at = "write"
      /\ req.op = "replace" => at = "exists"
      /\ req.op = "delete" => at = "del"
      /\ req.op = "findone" => at = "type"
      /\ req.op = "flush" => at = "flush"
  BY <1>1 DEF FirstCommand, Scanning
<1>3. req.op \in Pointed \cup Scanning \cup {"flush"}
  BY <1>1, RequestFields
<1>4. AtFits
  <2>1. result = "none"
    BY DEF Init
  <2> QED BY <1>2, <1>3, <2>1 DEF AtFits, Pointed, Scanning
<1>5. Collected
  <2>1. found \in Seq(Key) /\ 1..Len(found) = {}
    BY <1>1
  <2>2. req.op = "rename" => todo \in Seq(Key) /\ 1..Len(todo) = {}
    BY <1>1
  <2>3. at # "rename"
    BY <1>2, <1>3 DEF Pointed, Scanning
  <2> QED BY <2>1, <2>2, <2>3 DEF Collected
<1>6. Covered
  BY <1>1, <1>2 DEF Covered
<1> QED BY <1>1, <1>4, <1>5, <1>6 DEF KInv

\* After the scan, what it collected stays; only a rename looks at todo.
LEMMA ScanKept ==
    ASSUME KInv, UNCHANGED <<req, found, seen>>, stood' \subseteq stood,
           at # "scan", at # "done", at' # "scan",
           at' # "rename", req.op = "rename" => UNCHANGED todo
    PROVE  Collected' /\ Covered'
<1>1. \A k : Matches(k)' <=> Matches(k)
  BY DEF Matches
<1>2. result # "error"
  BY DEF KInv, AtFits
<1>3. Collected'
  BY <1>1 DEF KInv, Collected
<1>4. Covered'
  BY <1>1, <1>2 DEF KInv, Covered
<1> QED BY <1>3, <1>4

LEMMA ScanReturnsKeeps ==
    ASSUME KInv, NEW k \in Key, ScanReturns(k)
    PROVE  KInv'
<1>1. UNCHANGED <<keys, req, at, result, todo, stood>> /\ at = "scan"
      /\ seen' = seen \cup {k}
      /\ found' = IF Matches(k) THEN Append(found, k) ELSE found
  BY DEF ScanReturns, ghostVars
<1>2. found \in Seq(Key)
  BY DEF KInv, Collected
<1>3. found' \in Seq(Key)
  BY <1>1, <1>2
<1>4. \A l : Contains(found, l) => Contains(found', l)
  <2> SUFFICES ASSUME NEW l, Contains(found, l) PROVE Contains(found', l)
    OBVIOUS
  <2>1. PICK i \in 1..Len(found) : found[i] = l
    BY DEF Contains
  <2>2. i \in 1..Len(found') /\ found'[i] = l
    BY <1>1, <1>2, <2>1
  <2> QED BY <2>2 DEF Contains
<1>5. Matches(k) => Contains(found', k)
  <2> SUFFICES ASSUME Matches(k) PROVE Contains(found', k)
    OBVIOUS
  <2>1. Len(found) + 1 \in 1..Len(found') /\ found'[Len(found) + 1] = k
    BY <1>1, <1>2
  <2> QED BY <2>1 DEF Contains
<1>6. \A l : Matches(l)' <=> Matches(l)
  BY <1>1 DEF Matches
<1>7. Collected'
  <2>1. req.op \in Scanning => \A i \in 1..Len(found') : Matches(found'[i])
    <3> SUFFICES ASSUME req.op \in Scanning, NEW i \in 1..Len(found')
                 PROVE  Matches(found'[i])
      OBVIOUS
    <3>1. CASE Matches(k)
      <4>1. i \in 1..Len(found) \/ i = Len(found) + 1
        BY <1>1, <1>2, <3>1
      <4>2. i \in 1..Len(found) => found'[i] = found[i]
        BY <1>1, <1>2, <3>1
      <4>3. i = Len(found) + 1 => found'[i] = k
        BY <1>1, <1>2, <3>1
      <4> QED BY <3>1, <4>1, <4>2, <4>3 DEF KInv, Collected
    <3>2. CASE ~Matches(k)
      BY <1>1, <3>2 DEF KInv, Collected
    <3> QED BY <3>1, <3>2
  <2>2. req.op = "rename" =>
            todo \in Seq(Key) /\ \A i \in 1..Len(todo) : Matches(todo[i])
    BY DEF KInv, Collected
  <2> QED BY <1>1, <1>3, <1>6, <2>1, <2>2 DEF Collected
<1>8. Covered'
  <2>1. \A l \in seen' : Matches(l) => Contains(found', l)
    BY <1>1, <1>4, <1>5 DEF KInv, Covered
  <2> QED BY <1>1, <1>6, <2>1 DEF Covered
<1>9. AtFits'
  BY <1>1 DEF KInv, AtFits
<1> QED BY <1>1, <1>7, <1>8, <1>9 DEF KInv

LEMMA ScanEndsKeeps ==
    ASSUME KInv, ScanEnds
    PROVE  KInv'
<1>1. UNCHANGED <<keys, req, found, seen, stood>> /\ at = "scan"
      /\ stood \subseteq seen
  BY DEF ScanEnds, ScanCovers, scanVars, ghostVars
<1>2. \A l : Matches(l)' <=> Matches(l)
  BY <1>1 DEF Matches
<1>3. \A k \in stood : Matches(k) => Contains(found, k)
  BY <1>1 DEF KInv, Covered
<1>4. /\ at' \in {"done", "unlink", "rename", "page"}
      /\ at' = "page" => req.op = "find"
      /\ at' # "done" => UNCHANGED result
      /\ at' = "unlink" => req.op = "drop"
      /\ at' = "rename" => req.op = "rename" /\ todo' = found /\ found # <<>>
      /\ req.op = "rename" => todo' \in {todo, found}
  BY DEF ScanEnds, NoneFound, Return, GoTo
<1>5. AtFits'
  BY <1>1, <1>4 DEF KInv, AtFits
<1>6. Covered'
  BY <1>1, <1>2, <1>3, <1>4 DEF Covered
<1>7. Collected'
  BY <1>1, <1>2, <1>4 DEF KInv, Collected, Scanning
<1> QED BY <1>1, <1>5, <1>6, <1>7 DEF KInv

\* A failed command ends the call, in or after the scan.
LEMMA FailureKeeps ==
    ASSUME KInv, CommandFails
    PROVE  KInv'
<1>1. UNCHANGED <<keys, req, todo, found, seen, stood>> /\ at' = "done"
      /\ result' = "error"
  BY DEF CommandFails, Return, scanVars, ghostVars
<1>2. \A k : Matches(k)' <=> Matches(k)
  BY <1>1 DEF Matches
<1>3. AtFits'
  BY <1>1 DEF AtFits
<1>4. Collected' /\ Covered'
  BY <1>1, <1>2 DEF KInv, Collected, Covered
<1> QED BY <1>1, <1>3, <1>4 DEF KInv

\* Another client's command; the keys it deletes no longer count.
LEMMA OthersKeep ==
    ASSUME KInv, Others
    PROVE  KInv'
<1>1. UNCHANGED <<req, at, result, todo, found, seen>> /\ at # "done"
  BY DEF Others, scanVars
<1>2. PICK k \in Key, v \in OtherValues :
          Store(k, v) /\ stood' = IF v = Absent THEN stood \ {k} ELSE stood
  BY DEF Others
<1>3. keys' \in Keyspaces
  <2>1. v \in Value \cup {Absent}
    BY RedisAssumption
  <2> QED BY <1>2, <2>1, StoredKeyspace DEF KInv
<1>4. \A l : Matches(l)' <=> Matches(l)
  BY <1>1 DEF Matches
<1>5. stood' \subseteq stood
  BY <1>2
<1>6. AtFits'
  BY <1>1 DEF KInv, AtFits
<1>7. Collected' /\ Covered'
  BY <1>1, <1>4, <1>5 DEF KInv, Collected, Covered
<1>8. seen' \in SUBSET Key /\ stood' \in SUBSET Key
  BY <1>1, <1>5 DEF KInv
<1> QED BY <1>1, <1>3, <1>6, <1>7, <1>8 DEF KInv

\* The steps of a call after its scan: what they have to show.
LEMMA StepKeeps ==
    ASSUME KInv, UNCHANGED <<req, found, seen, stood>>,
           at \notin {"scan", "done"}, at' \notin {"scan", "rename"},
           req.op = "rename" => UNCHANGED todo,
           keys' \in Keyspaces, AtFits'
    PROVE  KInv'
<1>1. Collected' /\ Covered'
  BY ScanKept
<1> QED BY <1>1 DEF KInv

\* Reading, and the check before a replace, leave the database alone.
LEMMA ReadingKeeps ==
    ASSUME KInv, Page \/ ReadType \/ ReadTTL \/ ReadValue \/ CheckExists
    PROVE  KInv'
<1>1. UNCHANGED <<keys, req, found, seen, stood>>
  BY DEF Page, ReadType, ReadTTL, ReadValue, CheckExists, scanVars, ghostVars
<1>2. /\ at \in {"page", "type", "readttl", "value", "exists"}
      /\ at' # "scan"
      /\ at = "exists" => at' \in {"del", "done"} /\ UNCHANGED todo
      /\ at # "exists" => at' \in {"type", "readttl", "value", "done"}
      /\ at' # "done" => UNCHANGED result
  BY DEF Page, ReadType, ReadTTL, ReadValue, CheckExists, GoTo, Return
<1>3. req.op = "rename" => UNCHANGED todo
  BY <1>2 DEF KInv, AtFits
<1>4. AtFits'
  BY <1>1, <1>2 DEF KInv, AtFits
<1> QED BY <1>1, <1>2, <1>3, <1>4, StepKeeps DEF KInv

\* Writing one key.
LEMMA WritingKeeps ==
    ASSUME KInv, DeleteKey \/ WriteValue \/ ApplyTTL
    PROVE  KInv'
<1>1. UNCHANGED <<req, todo, found, seen, stood>>
  BY DEF DeleteKey, WriteValue, ApplyTTL, scanVars, ghostVars
<1>2. at \in {"del", "write", "ttl"} /\ at' \in {"write", "ttl", "done"}
      /\ (at' # "done" => UNCHANGED result)
  BY DEF DeleteKey, WriteValue, ApplyTTL, GoTo, Return, ReturnReply
<1>3. /\ req.op \in {"insert", "replace", "delete"} /\ req.key \in Key
      /\ at \in {"write", "ttl"} => req.op # "delete"
  BY <1>2, RequestFields DEF KInv, AtFits, Pointed
<1>4. keys[req.key] \in Value \cup {Absent}
  BY <1>3 DEF KInv, Keyspaces
<1>5. keys' \in Keyspaces
  <2>1. CASE DeleteKey
    BY <1>3, <2>1, StoredKeyspace DEF KInv, DeleteKey
  <2>2. CASE WriteValue
    <3> DEFINE doc == req.doc
               old == keys[req.key]
    <3>1. doc \in Doc
      BY <1>2, <1>3, RedisAssumption, <2>2 DEF KInv, Request, WriteValue
    <3>2. \/ UNCHANGED keys
          \/ /\ Store(req.key, Written(old, doc.type, doc.items))
             /\ \/ doc.type = "string"
                \/ /\ doc.type \in MergeTypes /\ doc.items # {}
                   /\ (old = Absent \/ old.type = doc.type)
      BY <2>2 DEF WriteValue
    <3>3. CASE UNCHANGED keys
      BY <3>3 DEF KInv
    <3>4. CASE ~UNCHANGED keys
      <4>1. doc.type \in Types /\ doc.items \in SUBSET Items
        BY <3>1, <3>2, <3>4 DEF Doc, Types
      <4>2. Written(old, doc.type, doc.items) \in Value
        BY <1>4, <3>2, <3>4, <4>1, WrittenValue
      <4> QED BY <1>3, <3>2, <3>4, <4>2, StoredKeyspace DEF KInv
    <3> QED BY <3>3, <3>4
  <2>3. CASE ApplyTTL
    <3>1. UNCHANGED keys \/ (keys[req.key] # Absent
              /\ req.doc.ttl \in {"clear", "set", "fraction"}
              /\ Store(req.key, Expiring(keys[req.key], req.doc.ttl)))
      BY <2>3 DEF ApplyTTL
    <3>2. CASE UNCHANGED keys
      BY <3>2 DEF KInv
    <3>3. CASE ~UNCHANGED keys
      <4>1. Expiring(keys[req.key], req.doc.ttl) \in Value \cup {Absent}
        BY <1>4, <3>1, <3>3, ExpiringValue
      <4> QED BY <1>3, <3>1, <3>3, <4>1, StoredKeyspace DEF KInv
    <3> QED BY <3>2, <3>3
  <2> QED BY <2>1, <2>2, <2>3
<1>6. AtFits'
  <2>1. at' # "done" => req.op \in {"insert", "replace"}
    <3>1. CASE DeleteKey
      BY <3>1 DEF DeleteKey, Return, ReturnReply
    <3>2. CASE WriteValue \/ ApplyTTL
      BY <1>3, <3>2 DEF WriteValue, ApplyTTL
    <3> QED BY <3>1, <3>2
  <2> QED BY <1>1, <1>2, <2>1 DEF KInv, AtFits
<1> QED BY <1>1, <1>2, <1>3, <1>5, <1>6, StepKeeps

\* The commands on a whole collection or a whole database.
LEMMA BulkKeeps ==
    ASSUME KInv, Unlink \/ FlushDB
    PROVE  KInv'
<1>1. UNCHANGED <<req, todo, found, seen, stood>> /\ at' = "done"
      /\ at \in {"unlink", "flush"}
  BY DEF Unlink, FlushDB, Return, ReturnReply, scanVars, ghostVars
<1>2. keys' \in Keyspaces
  BY DEF KInv, Keyspaces, Unlink, FlushDB
<1>3. AtFits'
  BY <1>1 DEF AtFits
<1> QED BY <1>1, <1>2, <1>3, StepKeeps

\* The new name of a key is a key, if it keeps to the bound.
LEMMA TargetKey ==
    ASSUME req \in Request, req.op = "rename", NEW k \in Key
    PROVE  /\ RenamedKey(k, req.to) = Target(k)
           /\ Fits(k, req.to) => Target(k) \in Key
<1>1. req.to \in Key /\ k.rest \in Rests \cup {Bare}
  BY RequestFields, RedisAssumption DEF Key
<1>2. req.to.text \in Texts /\ req.to.rest \in Rests \cup {Bare}
  BY <1>1 DEF Key
<1>3. RenamedKey(k, req.to) = Target(k)
  BY DEF RenamedKey, Target
<1>4. ASSUME Fits(k, req.to), k.rest # Bare PROVE After(req.to, k.rest) \in Rests
  <2>1. CASE req.to.rest = Bare
    BY <1>1, <1>4, <2>1 DEF After
  <2>2. CASE req.to.rest # Bare
    <3>1. <<req.to.rest, k.rest>> \in DOMAIN Joined
      BY <1>4, <2>2 DEF Fits
    <3> QED BY <2>2, <3>1, RedisAssumption DEF After
  <2> QED BY <2>1, <2>2
<1> QED BY <1>1, <1>2, <1>3, <1>4 DEF Target, Key

\* And it is in the scope of the rename.
LEMMA RenamedKeyGroup ==
    ASSUME KInv, req.op = "rename", NEW k \in Key, Matches(k), Fits(k, req.to)
    PROVE  RenamedKey(k, req.to) \in Key \cap Scope
<1>1. k \in Group(req.coll)
  BY MatchesGroup DEF KInv, Grouped
<1>2. RenamedKey(k, req.to) = Target(k) /\ Target(k) \in Key
  BY TargetKey DEF KInv
<1>3. Scope = Group(req.coll)
                \cup {Target(g) : g \in {h \in Group(req.coll) : Fits(h, req.to)}}
  BY DEF Scope
<1> QED BY <1>1, <1>2, <1>3

\* The key a rename is at.
LEMMA RenameHead ==
    ASSUME KInv, at = "rename"
    PROVE  /\ req.op = "rename" /\ todo \in Seq(Key) /\ todo # <<>>
           /\ Head(todo) \in Key /\ Matches(Head(todo))
           /\ Tail(todo) \in Seq(Key)
           /\ \A i \in 1..Len(Tail(todo)) : Matches(Tail(todo)[i])
<1>1. req.op = "rename" /\ todo \in Seq(Key) /\ todo # <<>>
      /\ \A i \in 1..Len(todo) : Matches(todo[i])
  BY DEF KInv, AtFits, Collected
<1>2. 1 \in 1..Len(todo) /\ Head(todo) = todo[1] /\ Head(todo) \in Key
  BY <1>1
<1>3. Tail(todo) \in Seq(Key)
  BY <1>1
<1>4. ASSUME NEW i \in 1..Len(Tail(todo)) PROVE Matches(Tail(todo)[i])
  <2>1. i + 1 \in 1..Len(todo) /\ Tail(todo)[i] = todo[i + 1]
    BY <1>1
  <2> QED BY <1>1, <2>1
<1> QED BY <1>1, <1>2, <1>3, <1>4

LEMMA RenameKeeps ==
    ASSUME KInv, RenameKey
    PROVE  KInv'
<1> DEFINE k == Head(todo)
           new == RenamedKey(k, req.to)
<1>1. UNCHANGED <<req, found, seen, stood>> /\ at = "rename"
      /\ at' \in {"rename", "done"}
      /\ (at' # "done" => UNCHANGED result)
  BY DEF RenameKey, GoTo, Return, ReturnReply, scanVars, ghostVars
<1>2. k \in Key /\ Matches(k) /\ req.op = "rename" /\ new \in Key
  <2>1. Fits(k, req.to)
    BY DEF RenameKey
  <2> QED BY <1>1, <2>1, RenameHead, RenamedKeyGroup
<1>3. keys' \in Keyspaces
  <2>1. UNCHANGED keys \/ keys' = [keys EXCEPT ![k] = Absent, ![new] = keys[k]]
    BY DEF RenameKey
  <2> QED BY <1>2, <2>1 DEF KInv, Keyspaces
<1>4. todo' \in {todo, Tail(todo)} /\ (at' = "rename" => todo' # <<>>)
  BY <1>1 DEF RenameKey, Return, ReturnReply, GoTo
<1>5. \A l : Matches(l)' <=> Matches(l)
  BY <1>1 DEF Matches
<1>6. todo' \in Seq(Key) /\ \A i \in 1..Len(todo') : Matches(todo'[i])
  BY <1>1, <1>4, RenameHead DEF KInv, Collected
<1>7. Collected'
  BY <1>1, <1>4, <1>5, <1>6 DEF KInv, Collected
<1>8. Covered'
  <2>1. result # "error" /\ req.op \in Scanning
    BY <1>1, <1>2 DEF KInv, AtFits, Scanning
  <2> QED BY <1>1, <1>5, <2>1 DEF KInv, Covered
<1>9. AtFits'
  BY <1>1, <1>2 DEF KInv, AtFits
<1> QED BY <1>1, <1>3, <1>7, <1>8, <1>9 DEF KInv

LEMMA KNext == KInv /\ [Next]_vars => KInv'
<1> SUFFICES ASSUME KInv, [Next]_vars PROVE KInv'
  OBVIOUS
<1>1. ASSUME NEW k \in Key, ScanReturns(k) PROVE KInv'
  BY <1>1, ScanReturnsKeeps
<1>2. CASE ScanEnds
  BY <1>2, ScanEndsKeeps
<1>3. CASE Page \/ ReadType \/ ReadTTL \/ ReadValue \/ CheckExists
  BY <1>3, ReadingKeeps
<1>4. CASE DeleteKey \/ WriteValue \/ ApplyTTL
  BY <1>4, WritingKeeps
<1>5. CASE Unlink \/ FlushDB
  BY <1>5, BulkKeeps
<1>6. CASE RenameKey
  BY <1>6, RenameKeeps
<1>7. CASE CommandFails
  BY <1>7, FailureKeeps
<1>8. CASE Others
  BY <1>8, OthersKeep
<1>9. CASE UNCHANGED vars
  BY <1>9 DEF vars, scanVars, readVars, ghostVars, KInv, AtFits, Collected,
              Covered, Matches
<1> QED
  BY <1>1, <1>2, <1>3, <1>4, <1>5, <1>6, <1>7, <1>8, <1>9
     DEF Next, Call, Returned

THEOREM KeysInvariant == Spec => []KInv
BY KInit, KNext, PTL DEF Spec

\* The commands of other clients are counted in natural numbers.
LEMMA OthersCounted == Spec => [](others \in Nat)
<1>1. Init => others \in Nat
  BY DEF Init
<1>2. others \in Nat /\ [Next]_vars => (others \in Nat)'
  BY DEF Next, Call, ScanReturns, ScanEnds, Page, ReadType, ReadTTL, ReadValue,
     CheckExists, DeleteKey, WriteValue, ApplyTTL, Unlink, RenameKey, FlushDB,
     CommandFails, Others, Returned, vars, ghostVars
<1> QED BY <1>1, <1>2, PTL DEF Spec
-----------------------------------------------------------------------------
(* What follows from it.                                                   *)

\* Every key of the collection that nobody deleted is collected, whatever
\* the other clients do and whatever SCAN returns besides.
THEOREM ScansMissNothing == Spec => []ScanMissesNothing
<1>1. KInv => ScanMissesNothing
  <2> SUFFICES ASSUME KInv, req.op \in Scanning, at # "scan", result # "error",
                      NEW k \in stood, req.op = "list" \/ k \in Group(req.coll)
               PROVE  Contains(found, k)
    BY DEF ScanMissesNothing
  <2>1. k \in Key
    BY DEF KInv
  <2>2. Matches(k)
    <3>1. CASE req.op = "list"
      BY <3>1 DEF Matches
    <3>2. CASE req.op # "list"
      BY <2>1, <3>2, MatchesGroup DEF KInv, Scanning, Grouped
    <3> QED BY <3>1, <3>2
  <2> QED BY <2>2 DEF KInv, Covered
<1> QED BY <1>1, KeysInvariant, PTL

\* A drop that succeeds leaves none of the keys that were there throughout.
THEOREM DropsLeaveNothing == Spec => DropLeavesNothing
<1>1. KInv /\ [Next]_vars =>
        [at = "unlink" /\ result' = "ok" =>
            \A k \in stood \cap Group(req.coll) : ~Exists(keys', k)]_vars
  <2> SUFFICES ASSUME KInv, [Next]_vars, at = "unlink", result' = "ok",
                      NEW k \in stood \cap Group(req.coll)
               PROVE  ~Exists(keys', k) \/ UNCHANGED vars
    OBVIOUS
  <2>1. result = "none" /\ req.op = "drop" /\ k \in Key
    BY DEF KInv, AtFits
  <2>2. Matches(k)
    BY <2>1, MatchesGroup DEF KInv, Grouped
  <2>3. Contains(found, k)
    BY <2>1, <2>2 DEF KInv, Covered, Scanning
  <2>4. Unlink \/ UNCHANGED vars
    BY <2>1 DEF Next, Call, ScanReturns, ScanEnds, Page, ReadType, ReadTTL,
       ReadValue, CheckExists, DeleteKey, WriteValue, ApplyTTL, RenameKey,
       FlushDB, CommandFails, Return, Others, Returned
  <2> QED BY <2>1, <2>3, <2>4 DEF Unlink, Exists
<1> QED BY <1>1, KeysInvariant, PTL DEF Spec, DropLeavesNothing

\* No call changes a key outside its scope.
THEOREM CallsKeepToTheirKeys == Spec => OnlyOwnKeys
<1>1. KInv /\ others \in Nat /\ [Next]_vars =>
        [others' = others => \A k \in Key \ Scope : keys'[k] = keys[k]]_vars
  <2> SUFFICES ASSUME KInv, others \in Nat, [Next]_vars, others' = others,
                      NEW k \in Key \ Scope
               PROVE  keys'[k] = keys[k]
    OBVIOUS
  <2>1. CASE UNCHANGED keys
    BY <2>1
  <2>2. CASE DeleteKey \/ WriteValue \/ ApplyTTL
    <3>1. req.op \in {"insert", "replace", "delete"} /\ req.key \in Key
      BY <2>2, RequestFields
         DEF KInv, AtFits, Pointed, DeleteKey, WriteValue, ApplyTTL
    <3>2. Scope = {req.key}
      BY <3>1 DEF Scope
    <3>3. UNCHANGED keys \/ \E v : Store(req.key, v)
      BY <2>2 DEF DeleteKey, WriteValue, ApplyTTL
    <3> QED BY <3>1, <3>2, <3>3 DEF Store, KInv, Keyspaces
  <2>3. CASE Unlink
    <3>1. req.op = "drop"
      BY <2>3 DEF KInv, AtFits, Unlink
    <3>2. Scope = Group(req.coll)
      BY <3>1 DEF Scope
    <3>3. ~Matches(k)
      BY <3>1, <3>2, MatchesGroup DEF KInv, Grouped
    <3>4. ~Contains(found, k)
      BY <3>1, <3>3 DEF KInv, Collected, Contains, Scanning
    <3> QED BY <2>3, <3>4 DEF Unlink
  <2>4. CASE RenameKey
    <3> DEFINE head == Head(todo)
               new == RenamedKey(head, req.to)
    <3>1. at = "rename"
      BY <2>4 DEF RenameKey
    <3>2. req.op = "rename" /\ head \in Key /\ Matches(head)
      BY <3>1, RenameHead
    <3>3. new \in Key \cap Scope
      <4>1. Fits(head, req.to)
        BY <2>4 DEF RenameKey
      <4> QED BY <3>2, <4>1, RenamedKeyGroup
    <3>4. head \in Scope
      BY <3>2, MatchesGroup DEF KInv, Grouped, Scope
    <3>5. UNCHANGED keys \/ keys' = [keys EXCEPT ![head] = Absent, ![new] = keys[head]]
      BY <2>4 DEF RenameKey
    <3> QED BY <3>2, <3>3, <3>4, <3>5 DEF KInv, Keyspaces
  <2>5. CASE FlushDB
    <3>1. Scope = Key
      BY <2>5 DEF FlushDB, KInv, AtFits, Scope
    <3> QED BY <3>1
  <2>6. CASE Others
    <3>1. others' = others + 1
      BY <2>6 DEF Others
    <3> QED BY <3>1
  <2> QED
    BY <2>1, <2>2, <2>3, <2>4, <2>5, <2>6
       DEF Next, Call, ScanReturns, ScanEnds, Page, ReadType, ReadTTL,
           ReadValue, CheckExists, CommandFails, Returned, vars
<1> QED BY <1>1, KeysInvariant, OthersCounted, PTL DEF Spec, OnlyOwnKeys
-----------------------------------------------------------------------------
(***************************************************************************)
(* Sorting                                                                 *)
(***************************************************************************)

\* Keys are ordered strictly, and any two of them.
LEMMA KeyOrder ==
    ASSUME NEW k \in Key, NEW l \in Key, NEW m \in Key
    PROVE  /\ ~Precedes(k, k)
           /\ Precedes(k, l) => ~Precedes(l, k) /\ k # l
           /\ Precedes(k, l) /\ Precedes(l, m) => Precedes(k, m)
           /\ Precedes(k, l) \/ Precedes(l, k) \/ k = l
<1>1. ASSUME NEW x \in Key
      PROVE  /\ x = [text |-> x.text, rest |-> x.rest]
             /\ x.text \in Nat /\ x.rest \in Nat
  <2>1. x = [text |-> x.text, rest |-> x.rest]
        /\ x.text \in Texts /\ x.rest \in Rests \cup {Bare}
    BY DEF Key
  <2>2. Texts \subseteq Nat /\ Rests \subseteq Nat /\ Bare \in Nat
    BY RedisAssumption DEF Bare
  <2> QED BY <2>1, <2>2
<1>2. k.text = l.text /\ k.rest = l.rest => k = l
  BY <1>1
<1>3. /\ k.text \in Nat /\ k.rest \in Nat /\ l.text \in Nat /\ l.rest \in Nat
      /\ m.text \in Nat /\ m.rest \in Nat
  BY <1>1
<1> QED BY <1>2, <1>3 DEF Precedes

\* There are n numbers from 1 to n.
LEMMA CountTo ==
    ASSUME NEW n \in Nat
    PROVE  IsFiniteSet(1..n) /\ Cardinality(1..n) = n
<1>1. /\ IsFiniteSet(1..n)
      /\ Cardinality(1..n) = IF 1 > n THEN 0 ELSE n - 1 + 1
  BY FS_Interval
<1> QED BY <1>1

\* What is sorted to the i-th key or before it.
UpTo(s, i) == {j \in DOMAIN s : Precedes(s[j], s[i]) \/ (s[j] = s[i] /\ j <= i)}

LEMMA UpToFinite ==
    ASSUME NEW s \in Seq(Key), NEW i \in 1..Len(s)
    PROVE  /\ UpTo(s, i) \subseteq 1..Len(s) /\ i \in UpTo(s, i)
           /\ IsFiniteSet(UpTo(s, i)) /\ Rank(s, i) = Cardinality(UpTo(s, i))
           /\ Rank(s, i) \in 1..Len(s)
<1>1. DOMAIN s = 1..Len(s) /\ Len(s) \in Nat
  BY LenProperties
<1>2. UpTo(s, i) \in SUBSET (1..Len(s)) /\ i \in UpTo(s, i)
  BY <1>1 DEF UpTo
<1>3. IsFiniteSet(1..Len(s)) /\ Cardinality(1..Len(s)) = Len(s)
  BY <1>1, CountTo
<1>4. IsFiniteSet(UpTo(s, i)) /\ Cardinality(UpTo(s, i)) <= Len(s)
  BY <1>2, <1>3, FS_Subset
<1>5. Cardinality(UpTo(s, i)) \in Nat /\ Cardinality(UpTo(s, i)) # 0
  BY <1>2, <1>4, FS_CardinalityType, FS_EmptySet
<1>6. Rank(s, i) = Cardinality(UpTo(s, i))
  BY DEF Rank, UpTo
<1> QED BY <1>1, <1>2, <1>4, <1>5, <1>6

\* Two places of a sequence have two ranks.
LEMMA RanksDiffer ==
    ASSUME NEW s \in Seq(Key), NEW i \in 1..Len(s), NEW j \in 1..Len(s), i # j
    PROVE  Rank(s, i) # Rank(s, j)
<1>1. ASSUME NEW a \in 1..Len(s), NEW b \in 1..Len(s), a # b, a \in UpTo(s, b)
      PROVE  Rank(s, a) # Rank(s, b)
  <2>1. /\ \A c \in 1..Len(s) : s[c] \in Key
        /\ DOMAIN s = 1..Len(s) /\ Len(s) \in Nat
    BY LenProperties, ElementOfSeq
  <2>2. Precedes(s[a], s[b]) \/ (s[a] = s[b] /\ a <= b)
    BY <1>1 DEF UpTo
  <2>3. b \notin UpTo(s, a)
    BY <1>1, <2>1, <2>2, KeyOrder DEF UpTo
  <2>4. UpTo(s, a) \subseteq UpTo(s, b)
    <3> SUFFICES ASSUME NEW c \in UpTo(s, a) PROVE c \in UpTo(s, b)
      OBVIOUS
    <3>1. c \in 1..Len(s) /\ (Precedes(s[c], s[a]) \/ (s[c] = s[a] /\ c <= a))
      BY <2>1 DEF UpTo
    <3>2. Precedes(s[c], s[b]) \/ (s[c] = s[b] /\ c <= b)
      BY <2>1, <2>2, <3>1, KeyOrder
    <3> QED BY <2>1, <3>1, <3>2 DEF UpTo
  <2>5. b \in UpTo(s, b)
    BY UpToFinite
  <2>6. /\ IsFiniteSet(UpTo(s, b)) /\ Rank(s, b) = Cardinality(UpTo(s, b))
        /\ Rank(s, a) = Cardinality(UpTo(s, a))
    BY UpToFinite
  <2>7. Cardinality(UpTo(s, a)) = Cardinality(UpTo(s, b)) => UpTo(s, a) = UpTo(s, b)
    BY <2>4, <2>6, FS_Subset
  <2> QED BY <2>3, <2>5, <2>6, <2>7
<1>2. i \in UpTo(s, j) \/ j \in UpTo(s, i)
  <2>1. s[i] \in Key /\ s[j] \in Key /\ DOMAIN s = 1..Len(s)
    BY LenProperties, ElementOfSeq
  <2> QED BY <2>1, KeyOrder DEF UpTo
<1> QED BY <1>1, <1>2

\* Every place has its key.
LEMMA RanksAreAll ==
    ASSUME NEW s \in Seq(Key), NEW r \in 1..Len(s)
    PROVE  \E i \in 1..Len(s) : Rank(s, i) = r
<1> DEFINE S == 1..Len(s)
           f == [i \in S |-> Rank(s, i)]
<1>1. f \in [S -> S]
  BY UpToFinite
<1>2. \A i, j \in S : f[i] = f[j] => i = j
  BY RanksDiffer
<1>3. f \in Injection(S, S)
  BY <1>1, <1>2 DEF Injection, IsInjective
<1>4. IsFiniteSet(S)
  BY LenProperties, CountTo
<1> HIDE DEF f
<1>5. f \in Surjection(S, S)
  BY <1>3, <1>4, FS_Injection
<1>6. \E i \in S : f[i] = r
  BY <1>5 DEF Surjection
<1> QED BY <1>6 DEF f

\* The sorted keys are the keys.
LEMMA SortedKeys ==
    ASSUME NEW s \in Seq(Key)
    PROVE  /\ Sorted(s) \in Seq(Key) /\ Len(Sorted(s)) = Len(s)
           /\ \A r \in 1..Len(s) :
                 \E i \in 1..Len(s) : Sorted(s)[r] = s[i] /\ Rank(s, i) = r
<1>1. DOMAIN s = 1..Len(s) /\ Len(s) \in Nat /\ \A i \in 1..Len(s) : s[i] \in Key
  BY LenProperties, ElementOfSeq
<1> DEFINE e(r) == s[CHOOSE i \in DOMAIN s : Rank(s, i) = r]
<1>2. ASSUME NEW r \in 1..Len(s)
      PROVE  \E i \in 1..Len(s) : e(r) = s[i] /\ Rank(s, i) = r
  <2>1. \E i \in DOMAIN s : Rank(s, i) = r
    BY <1>1, RanksAreAll
  <2> QED BY <1>1, <2>1
<1>3. Sorted(s) = [r \in 1..Len(s) |-> e(r)]
  BY <1>1 DEF Sorted
<1>4. \A r \in 1..Len(s) : e(r) \in Key
  BY <1>1, <1>2
<1> HIDE DEF e
<1>5. Sorted(s) \in [1..Len(s) -> Key]
  BY <1>3, <1>4
<1> QED BY <1>1, <1>2, <1>3, <1>5
-----------------------------------------------------------------------------
(***************************************************************************)
(* The types                                                               *)
(***************************************************************************)

First == Lesser(req.skip, Len(found))
Past == PageEnd(Len(found), req.skip, req.limit)

\* The keys of the page, in order.
PageKeys == SubSeq(Sorted(found), First + 1, Past)

LEMMA PageOfFound ==
    ASSUME req \in Request, req.op = "find", found \in Seq(Key)
    PROVE  /\ First \in Int /\ Past \in Int
           /\ First <= Len(found) /\ Past <= Len(found) /\ Len(found) \in Nat
           /\ 0 <= First /\ First < Past =>
                 /\ PageKeys \in Seq(Key) /\ PageKeys # <<>>
                 /\ Len(PageKeys) = Past - First
                 /\ \A i \in 1 .. Past - First : PageKeys[i] = Sorted(found)[First + i]
<1>1. req.skip \in Int /\ req.limit \in Int
  BY RedisAssumption DEF Request
<1>2. Len(found) \in Nat
  BY LenProperties
<1>3. First \in Int /\ Past \in Int /\ First <= Len(found) /\ Past <= Len(found)
  BY <1>1, <1>2 DEF First, Past, PageEnd, Lesser
<1>4. ASSUME 0 <= First, First < Past
      PROVE  /\ PageKeys \in Seq(Key) /\ PageKeys # <<>>
             /\ Len(PageKeys) = Past - First
             /\ \A i \in 1 .. Past - First : PageKeys[i] = Sorted(found)[First + i]
  <2>1. Sorted(found) \in Seq(Key) /\ Len(Sorted(found)) = Len(found)
    BY SortedKeys
  <2>2. \A i \in First + 1 .. Past : Sorted(found)[i] \in Key
    BY <1>2, <1>3, <1>4, <2>1, ElementOfSeq
  <2>3. /\ PageKeys \in Seq(Key)
        /\ Len(PageKeys) = IF First + 1 <= Past THEN Past - (First + 1) + 1 ELSE 0
        /\ \A i \in 1 .. Past - (First + 1) + 1 :
              PageKeys[i] = Sorted(found)[(First + 1) + i - 1]
    BY <1>3, <2>2, SubSeqProperties DEF PageKeys
  <2>4. Len(PageKeys) = Past - First
    BY <1>3, <1>4, <2>3
  <2>5. \A i \in 1 .. Past - First : PageKeys[i] = Sorted(found)[First + i]
    BY <1>3, <2>3
  <2>6. PageKeys # <<>>
    BY <1>3, <1>4, <2>4
  <2> QED BY <2>3, <2>4, <2>5, <2>6
<1> QED BY <1>2, <1>3, <1>4

\* What TypeOK says beyond KInv, and that a value is read as of a known type.
CallTypes ==
    /\ at \in Points
    /\ result \in {"none", "ok", "notfound", "error", "panic"}
    /\ at = "done" <=> result # "none"
    /\ todo \in Seq(Key)
    /\ at \in {"type", "readttl", "value", "rename"} => todo # <<>>
    /\ reading \in Reading
    /\ at \in {"readttl", "value"} => reading.type \in Types
    /\ docs \in Seq(ReadDoc)

Counted ==
    /\ repeats \in 0 .. MaxRepeats
    /\ start \in Keyspaces
    /\ others \in 0 .. MaxOthers

LEMMA CallTypesInitially == Init => CallTypes /\ Counted
<1> SUFFICES ASSUME Init PROVE CallTypes /\ Counted
  OBVIOUS
<1>1. /\ req \in Request /\ at = FirstCommand(req) /\ result = "none" /\ docs = <<>>
      /\ todo = IF req.op = "findone" THEN <<req.key>> ELSE <<>>
      /\ reading = [type |-> "none", expires |-> FALSE]
  BY DEF Init
<1>2. /\ req.op \in Scanning => at = "scan"
      /\ req.op = "insert" => at = "write"
      /\ req.op = "replace" => at = "exists"
      /\ req.op = "delete" => at = "del"
      /\ req.op = "findone" => at = "type"
      /\ req.op = "flush" => at = "flush"
  BY <1>1 DEF FirstCommand, Scanning
<1>3. req.op \in Pointed \cup Scanning \cup {"flush"}
      /\ (req.op = "findone" => req.key \in Key)
  BY <1>1, RequestFields DEF Pointed
<1>4. /\ at \in {"scan", "write", "exists", "del", "type", "flush"}
      /\ at = "type" => req.op = "findone"
  BY <1>2, <1>3 DEF Pointed, Scanning
<1>5. todo \in Seq(Key) /\ (at = "type" => todo # <<>>)
  BY <1>1, <1>3, <1>4
<1>6. reading \in Reading
  BY <1>1 DEF Reading
<1>7. Counted
  BY RedisAssumption DEF Init, Counted
<1> QED BY <1>1, <1>4, <1>5, <1>6, <1>7 DEF CallTypes, Points

\* Where the call is and what it returned.
LEMMA PointsStep ==
    ASSUME CallTypes, [Next]_vars
    PROVE  /\ at' \in Points
           /\ result' \in {"none", "ok", "notfound", "error", "panic"}
           /\ at' = "done" <=> result' # "none"
<1> USE DEF CallTypes, Points
<1>1. CASE \/ ScanEnds \/ Page \/ ReadType \/ ReadTTL \/ ReadValue \/ CheckExists
           \/ DeleteKey \/ WriteValue \/ ApplyTTL \/ Unlink \/ RenameKey \/ FlushDB
           \/ CommandFails
  <2>1. \/ /\ at' \in Points \ {"done"} /\ UNCHANGED result /\ at # "done"
        \/ at' = "done" /\ result' \in {"ok", "notfound", "error", "panic"}
    BY <1>1 DEF ScanEnds, Page, ReadType, ReadTTL, ReadValue, CheckExists, DeleteKey,
       WriteValue, ApplyTTL, Unlink, RenameKey, FlushDB, CommandFails, GoTo, Return,
       ReturnReply
  <2> QED BY <2>1
<1>2. CASE Others \/ UNCHANGED vars \/ \E k \in Key : ScanReturns(k)
  BY <1>2 DEF Others, vars, ScanReturns
<1> QED BY <1>1, <1>2 DEF Next, Call, Returned

LEMMA CountedStep ==
    ASSUME Counted, [Next]_vars
    PROVE  Counted'
<1> USE RedisAssumption DEF Counted
<1>1. CASE \/ ScanEnds \/ Page \/ ReadType \/ ReadTTL \/ ReadValue \/ CheckExists
           \/ DeleteKey \/ WriteValue \/ ApplyTTL \/ Unlink \/ RenameKey \/ FlushDB
           \/ CommandFails \/ UNCHANGED vars
  <2>1. UNCHANGED <<repeats, start, others>>
    BY <1>1 DEF ScanEnds, Page, ReadType, ReadTTL, ReadValue, CheckExists, DeleteKey,
       WriteValue, ApplyTTL, Unlink, RenameKey, FlushDB, CommandFails, scanVars,
       ghostVars, vars
  <2> QED BY <2>1
<1>2. CASE \E k \in Key : ScanReturns(k)
  BY <1>2 DEF ScanReturns, ghostVars
<1>3. CASE Others
  BY <1>3 DEF Others, scanVars
<1> QED BY <1>1, <1>2, <1>3 DEF Next, Call, Returned

\* The key that is read.
LEMMA ReadHead ==
    ASSUME KInv, CallTypes, at \in {"type", "readttl", "value"}
    PROVE  /\ Head(todo) \in Key /\ Tail(todo) \in Seq(Key)
           /\ Exists(keys, Head(todo)) => keys[Head(todo)] \in Value
           /\ Exists(keys, Head(todo)) \/ keys[Head(todo)] = Absent
<1>1. Head(todo) \in Key /\ Tail(todo) \in Seq(Key)
  BY HeadTailProperties DEF CallTypes
<1>2. keys[Head(todo)] \in Value \cup {Absent}
  BY <1>1 DEF KInv, Keyspaces
<1> QED BY <1>1, <1>2 DEF Exists

LEMMA CallTypesStep ==
    ASSUME KInv, CallTypes, [Next]_vars
    PROVE  CallTypes'
<1>0. /\ at' \in Points
      /\ result' \in {"none", "ok", "notfound", "error", "panic"}
      /\ at' = "done" <=> result' # "none"
  BY PointsStep
<1>1. CASE \/ CheckExists \/ DeleteKey \/ WriteValue \/ ApplyTTL \/ Unlink \/ FlushDB
           \/ CommandFails
  <2>1. UNCHANGED <<todo, reading, docs>>
    BY <1>1 DEF CheckExists, DeleteKey, WriteValue, ApplyTTL, Unlink, FlushDB,
       CommandFails, readVars
  <2>2. at' \notin {"type", "readttl", "value", "rename"}
    BY <1>1 DEF CheckExists, DeleteKey, WriteValue, ApplyTTL, Unlink, FlushDB,
       CommandFails, GoTo, Return, ReturnReply
  <2> QED BY <1>0, <2>1, <2>2 DEF CallTypes
<1>2. CASE Others \/ UNCHANGED vars \/ \E k \in Key : ScanReturns(k)
  <2>1. UNCHANGED <<at, todo, reading, docs>>
    BY <1>2 DEF Others, vars, ScanReturns, readVars
  <2> QED BY <1>0, <2>1 DEF CallTypes
<1>3. CASE ScanEnds
  <2>1. UNCHANGED <<reading, docs>> /\ at' \notin {"type", "readttl", "value"}
    BY <1>3 DEF ScanEnds, readVars, GoTo, Return
  <2>2. \/ UNCHANGED todo /\ at' # "rename"
        \/ todo' = found /\ found # <<>>
    BY <1>3 DEF ScanEnds, NoneFound, GoTo, Return
  <2> QED BY <1>0, <2>1, <2>2 DEF CallTypes, KInv, Collected
<1>4. CASE Page
  <2>1. UNCHANGED <<reading, docs>> /\ at' \in {"type", "done"} /\ req.op = "find"
    BY <1>4 DEF Page, readVars, GoTo, Return, KInv, AtFits
  <2>2. \/ at' = "done" /\ UNCHANGED todo
        \/ 0 <= First /\ First < Past /\ todo' = PageKeys
    BY <1>4 DEF Page, First, Past, PageKeys, GoTo, Return
  <2>3. todo' \in Seq(Key) /\ (at' = "type" => todo' # <<>>)
    BY <2>1, <2>2, PageOfFound DEF CallTypes, KInv, Collected
  <2> QED BY <1>0, <2>1, <2>3 DEF CallTypes
<1>5. CASE ReadType
  <2>1. UNCHANGED <<todo, docs>> /\ at' \in {"readttl", "done"} /\ at = "type"
    BY <1>5 DEF ReadType, GoTo, Return
  <2>2. \/ at' = "done" /\ UNCHANGED reading
        \/ /\ Exists(keys, Head(todo))
           /\ reading' = [reading EXCEPT !.type = keys[Head(todo)].type]
    BY <1>5 DEF ReadType, GoTo, Return
  <2>3. Exists(keys, Head(todo)) => keys[Head(todo)].type \in Types
    BY <2>1, ReadHead DEF Value
  <2>4. reading' \in Reading /\ (at' = "readttl" => reading'.type \in Types)
    BY <2>1, <2>2, <2>3 DEF CallTypes, Reading
  <2> QED BY <1>0, <2>1, <2>4 DEF CallTypes
<1>6. CASE ReadTTL
  <2>1. UNCHANGED <<todo, docs>> /\ at' = "value" /\ at = "readttl"
    BY <1>6 DEF ReadTTL, GoTo
  <2>2. PICK answered \in BOOLEAN : reading' = [reading EXCEPT !.expires =
            answered /\ Exists(keys, Head(todo)) /\ keys[Head(todo)].expires]
    BY <1>6 DEF ReadTTL
  <2>3. (answered /\ Exists(keys, Head(todo)) /\ keys[Head(todo)].expires) \in BOOLEAN
    BY <2>1, ReadHead DEF Value
  <2> DEFINE e == answered /\ Exists(keys, Head(todo)) /\ keys[Head(todo)].expires
  <2> HIDE DEF e
  <2>4. reading' = [reading EXCEPT !.expires = e] /\ e \in BOOLEAN
    BY <2>2, <2>3 DEF e
  <2>5. reading' \in Reading /\ reading'.type = reading.type
    BY <2>4 DEF CallTypes, Reading
  <2> QED BY <1>0, <2>1, <2>5 DEF CallTypes
<1>7. CASE ReadValue
  <2> DEFINE k == Head(todo)
             items == IF Exists(keys, k) THEN keys[k].items ELSE {}
             doc == [key |-> k, type |-> reading.type,
                     expires |-> reading.expires, items |-> items]
  <2>1. at = "value" /\ at' \in {"type", "done"} /\ UNCHANGED reading
    BY <1>7 DEF ReadValue, GoTo, Return
  <2>2. k \in Key /\ Tail(todo) \in Seq(Key) /\ items \in SUBSET Items
    BY <2>1, ReadHead DEF Value
  <2>3. doc \in ReadDoc
    <3> HIDE DEF items, k
    <3> QED BY <2>1, <2>2 DEF CallTypes, Reading, ReadDoc
  <2>4. \/ at' = "done" /\ UNCHANGED <<docs, todo>>
        \/ /\ docs' = Append(docs, doc) /\ todo' = Tail(todo)
           /\ at' = "type" => Tail(todo) # <<>>
    BY <1>7 DEF ReadValue, GoTo, Return
  <2> HIDE DEF doc, k
  <2>5. docs \in Seq(ReadDoc) /\ Append(docs, doc) \in Seq(ReadDoc)
    BY <2>3, AppendProperties DEF CallTypes
  <2>6. docs' \in Seq(ReadDoc)
    BY <2>4, <2>5
  <2>7. todo' \in Seq(Key) /\ (at' = "type" => todo' # <<>>)
    BY <2>1, <2>2, <2>4 DEF CallTypes
  <2> QED BY <1>0, <2>1, <2>6, <2>7 DEF CallTypes
<1>8. CASE RenameKey
  <2>1. UNCHANGED <<reading, docs>> /\ at' \in {"rename", "done"} /\ at = "rename"
    BY <1>8 DEF RenameKey, readVars, GoTo, Return, ReturnReply
  <2>2. todo' \in {todo, Tail(todo)} /\ (at' = "rename" => todo' # <<>>)
    BY <1>8 DEF RenameKey, GoTo, Return, ReturnReply
  <2>3. Tail(todo) \in Seq(Key)
    BY <2>1, RenameHead
  <2> QED BY <1>0, <2>1, <2>2, <2>3 DEF CallTypes
<1> QED BY <1>1, <1>2, <1>3, <1>4, <1>5, <1>6, <1>7, <1>8 DEF Next, Call, Returned

THEOREM CallInvariant == Spec => [](KInv /\ CallTypes /\ Counted)
<1>1. Init => KInv /\ CallTypes /\ Counted
  BY KInit, CallTypesInitially
<1>2. KInv /\ CallTypes /\ Counted /\ [Next]_vars => (KInv /\ CallTypes /\ Counted)'
  BY KNext, CallTypesStep, CountedStep
<1> QED BY <1>1, <1>2, PTL DEF Spec

\* The database and what a call keeps stay in their types, for any keys,
\* documents and parameters of a find (documents.go:17-150, collections.go).
THEOREM CallsTypeCorrect == Spec => []TypeOK
<1>1. KInv /\ CallTypes /\ Counted => TypeOK
  BY DEF KInv, Collected, CallTypes, Counted, TypeOK
<1> QED BY <1>1, CallInvariant, PTL

\* Whatever others do between TYPE and the read, a document has the type and
\* the content its key has at the time of the read (documents.go:94-158).
THEOREM DocumentsAreWhole == Spec => ReadsAreWhole
<1>1. ASSUME KInv, CallTypes, [Next]_vars, docs' # docs
      PROVE  LET doc == Last(docs')
             IN  \/ /\ Exists(keys, doc.key)
                    /\ doc.type = keys[doc.key].type
                    /\ doc.items = keys[doc.key].items
                 \/ /\ ~Exists(keys, doc.key)
                    /\ doc.type \in MergeTypes /\ doc.items = {}
  <2> DEFINE k == Head(todo)
             items == IF Exists(keys, k) THEN keys[k].items ELSE {}
             doc == [key |-> k, type |-> reading.type,
                     expires |-> reading.expires, items |-> items]
  <2>1. ReadValue
    BY <1>1 DEF Next, Call, ScanReturns, ScanEnds, Page, ReadType, ReadTTL, CheckExists,
       DeleteKey, WriteValue, ApplyTTL, Unlink, RenameKey, FlushDB, CommandFails, Others,
       Returned, vars, readVars
  <2>2. at = "value" /\ ~ReadFails(keys[k]) /\ docs' = Append(docs, doc)
    BY <1>1, <2>1 DEF ReadValue
  <2>3. Last(docs') = doc
    <3> HIDE DEF doc
    <3>1. docs \in Seq(ReadDoc) /\ Len(docs) \in Nat
      BY <1>1, LenProperties DEF CallTypes
    <3> QED BY <2>2, <3>1 DEF Last
  <2>4. reading.type \in Types
    BY <1>1, <2>2 DEF CallTypes
  <2>5. CASE Exists(keys, k)
    <3>1. keys[k].type = reading.type
      BY <2>2, <2>5 DEF ReadFails, Exists
    <3>2. doc.key = k /\ doc.type = reading.type /\ doc.items = keys[k].items
      BY <2>5
    <3> HIDE DEF doc, k
    <3> QED BY <2>3, <2>5, <3>1, <3>2
  <2>6. CASE ~Exists(keys, k)
    <3>1. reading.type # "string"
      BY <2>2, <2>6 DEF ReadFails, Exists
    <3>2. reading.type \in MergeTypes
      BY <2>4, <3>1 DEF Types
    <3>3. doc.key = k /\ doc.type = reading.type /\ doc.items = {}
      BY <2>6
    <3> HIDE DEF doc, k
    <3> QED BY <2>3, <2>6, <3>2, <3>3
  <2> QED BY <2>5, <2>6
<1> QED BY <1>1, CallInvariant, PTL DEF Spec, ReadsAreWhole
-----------------------------------------------------------------------------
(***************************************************************************)
(* A write that nobody disturbs                                            *)
(***************************************************************************)

\* What a write finds in its way.
Before == IF req.op = "insert" THEN start[req.key] ELSE Absent

\* What the write command leaves of it.
Put(old, doc) ==
    IF doc.type # "string" /\ doc.items = {} THEN old
    ELSE Written(old, doc.type, doc.items)

\* How far an undisturbed call has brought the database: a point that is not
\* named has a part of its own below, or is past the last command.
Untouched ==
    at \in {"scan", "page", "exists", "del", "type", "readttl", "value", "unlink", "flush"}
        => keys = start
Writing ==
    at = "write" => keys[req.key] = Before /\ SameBut({req.key})
Expired ==
    at = "ttl" => /\ req.doc.type \in Types
                  /\ keys[req.key] = Put(Before, req.doc) /\ SameBut({req.key})

WriteInv == (Undisturbed => Untouched /\ Writing /\ Expired) /\ LoneWriteIsExact

LEMMA ExpiringRecord ==
    ASSUME NEW t, NEW i, NEW x
    PROVE  /\ Expiring([type |-> t, items |-> i, expires |-> x], "set")
                  = [type |-> t, items |-> i, expires |-> TRUE]
           /\ Expiring([type |-> t, items |-> i, expires |-> x], "clear")
                  = [type |-> t, items |-> i, expires |-> FALSE]
BY DEF Expiring

\* The four commands of a write add up to one.
LEMMA PutThenExpired ==
    ASSUME NEW old \in Value \cup {Absent}, NEW doc \in Doc, doc.type \in Types
    PROVE  /\ doc.ttl = "absent" => Put(old, doc) = LeftBehind(old, doc)
           /\ doc.ttl \in {"clear", "set", "fraction"} =>
                 LeftBehind(old, doc) =
                    IF Put(old, doc) = Absent THEN Absent ELSE Expiring(Put(old, doc), doc.ttl)
<1> DEFINE v == Put(old, doc)
           e == doc.ttl = "set"
<1>1. /\ old # Absent => /\ old = [type |-> old.type, items |-> old.items, expires |-> old.expires]
                         /\ old.expires \in BOOLEAN
      /\ doc.ttl \in {"absent", "clear", "set", "fraction", "invalid"}
  BY DEF Value, Doc
<1>2. Absent.type = "none" /\ DOMAIN Absent = {"type"}
  BY DEF Absent
<1>3. ASSUME NEW t, NEW i, NEW x PROVE [type |-> t, items |-> i, expires |-> x] # Absent
  <2>1. DOMAIN [type |-> t, items |-> i, expires |-> x] = {"type", "items", "expires"}
    OBVIOUS
  <2> QED BY <1>2, <2>1
<1>4. CASE doc.ttl = "fraction"
  <2>1. LeftBehind(old, doc) = Absent
    BY <1>4 DEF LeftBehind
  <2>2. Expiring(v, doc.ttl) = Absent
    BY <1>4 DEF Expiring
  <2> QED BY <1>4, <2>1, <2>2
<1>5. CASE doc.ttl # "fraction" /\ doc.type # "string" /\ old # Absent
  <2>1. LeftBehind(old, doc) =
            [old EXCEPT !.items = @ \cup doc.items,
                        !.expires = doc.ttl = "set" \/ (doc.ttl = "absent" /\ @)]
    BY <1>5 DEF LeftBehind
  <2>2. v = [type |-> old.type, items |-> old.items \cup doc.items, expires |-> old.expires]
    BY <1>1, <1>5 DEF Put, Written
  <2>3. CASE doc.ttl = "absent"
    <3>1. LeftBehind(old, doc) = [type |-> old.type, items |-> old.items \cup doc.items,
                                  expires |-> old.expires]
      BY <1>1, <1>5, <2>1, <2>3
    <3> QED BY <2>2, <2>3, <3>1
  <2>4. CASE doc.ttl = "set"
    <3>1. LeftBehind(old, doc) = [type |-> old.type, items |-> old.items \cup doc.items,
                                  expires |-> TRUE]
      BY <1>1, <1>5, <2>1, <2>4
    <3>2. Expiring(v, doc.ttl) = LeftBehind(old, doc)
      BY ExpiringRecord, <2>4, <2>2, <3>1
    <3>3. v # Absent
      BY <1>3, <2>2
    <3> QED BY <2>4, <3>2, <3>3
  <2>5. CASE doc.ttl = "clear"
    <3>1. LeftBehind(old, doc) = [type |-> old.type, items |-> old.items \cup doc.items,
                                  expires |-> FALSE]
      BY <1>1, <1>5, <2>1, <2>5
    <3>2. Expiring(v, doc.ttl) = LeftBehind(old, doc)
      BY ExpiringRecord, <2>5, <2>2, <3>1
    <3>3. v # Absent
      BY <1>3, <2>2
    <3> QED BY <2>5, <3>2, <3>3
  <2> QED BY <1>5, <2>3, <2>4, <2>5
<1>6. CASE doc.ttl # "fraction" /\ doc.type # "string" /\ old = Absent /\ doc.items = {}
  <2>1. LeftBehind(old, doc) = Absent
    BY <1>6 DEF LeftBehind
  <2>2. v = Absent
    BY <1>6 DEF Put
  <2> QED BY <1>6, <2>1, <2>2
<1>7. CASE doc.ttl # "fraction"
           /\ (doc.type = "string" \/ (old = Absent /\ doc.items # {}))
  <2>1. LeftBehind(old, doc) = [type |-> doc.type, items |-> doc.items, expires |-> e]
    BY <1>7 DEF LeftBehind
  <2>2. v = [type |-> doc.type, items |-> doc.items, expires |-> FALSE]
    BY <1>7 DEF Put, Written
  <2>3. CASE doc.ttl = "set"
    <3>1. e <=> TRUE
      BY <2>3
    <3>2. LeftBehind(old, doc) = [type |-> doc.type, items |-> doc.items, expires |-> TRUE]
      BY <2>1, <3>1, Zenon
    <3>4. Expiring(v, doc.ttl) = LeftBehind(old, doc)
      BY ExpiringRecord, <2>3, <2>2, <3>2
    <3>3. v # Absent
      BY <1>3, <2>2
    <3> QED BY <2>3, <3>3, <3>4
  <2>4. CASE doc.ttl = "clear"
    <3>1. e = FALSE
      BY <2>4
    <3>2. Expiring(v, doc.ttl) = LeftBehind(old, doc)
      BY ExpiringRecord, <2>4, <2>1, <2>2, <3>1
    <3>3. v # Absent
      BY <1>3, <2>2
    <3> QED BY <2>4, <3>2, <3>3
  <2>5. CASE doc.ttl = "absent"
    <3>1. e = FALSE
      BY <2>5
    <3> QED BY <2>1, <2>2, <2>5, <3>1
  <2> QED BY <1>7, <2>3, <2>4, <2>5
<1> QED BY <1>4, <1>5, <1>6, <1>7

LEMMA WriteInitially == Init => WriteInv
<1> SUFFICES ASSUME Init PROVE WriteInv
  OBVIOUS
<1>1. keys = start /\ result = "none" /\ at = FirstCommand(req) /\ req \in Request
  BY DEF Init
<1>2. at = "write" => req.op = "insert"
  <2>1. req.op \in Pointed \cup Scanning \cup {"flush"}
    BY <1>1, RequestFields
  <2> QED BY <1>1, <2>1 DEF FirstCommand, Pointed, Scanning
<1>3. at # "ttl"
  <2>1. req.op \in Pointed \cup Scanning \cup {"flush"}
    BY <1>1, RequestFields
  <2> QED BY <1>1, <2>1 DEF FirstCommand, Pointed, Scanning
<1>4. Untouched /\ Writing /\ Expired
  BY <1>1, <1>2, <1>3 DEF Untouched, Writing, Expired, Before, SameBut
<1>5. LoneWriteIsExact
  BY <1>1 DEF LoneWriteIsExact, Succeeded
<1> QED BY <1>4, <1>5 DEF WriteInv

\* Who was disturbed once stays disturbed.
LEMMA DisturbedStays ==
    ASSUME Counted, [Next]_vars, Undisturbed'
    PROVE  Undisturbed /\ ~Others
<1>1. others \in Nat /\ repeats \in Nat
  BY DEF Counted
<1>2. others' = 0 /\ repeats' = 0
  BY DEF Undisturbed
<1>3. CASE \E k \in Key : ScanReturns(k)
  BY <1>1, <1>2, <1>3 DEF ScanReturns, ghostVars, Undisturbed, Others
<1>4. CASE Others
  BY <1>1, <1>2, <1>4 DEF Others
<1>5. CASE \/ ScanEnds \/ Page \/ ReadType \/ ReadTTL \/ ReadValue \/ CheckExists
           \/ DeleteKey \/ WriteValue \/ ApplyTTL \/ Unlink \/ RenameKey \/ FlushDB
           \/ CommandFails \/ UNCHANGED vars
  <2>1. UNCHANGED <<repeats, others>>
    BY <1>5 DEF ScanEnds, Page, ReadType, ReadTTL, ReadValue, CheckExists, DeleteKey,
       WriteValue, ApplyTTL, Unlink, RenameKey, FlushDB, CommandFails, scanVars,
       ghostVars, vars
  <2> QED BY <1>1, <1>2, <2>1 DEF Undisturbed, Others
<1> QED BY <1>3, <1>4, <1>5 DEF Next, Call, Returned

Writes == {"insert", "replace", "delete"}

\* Steps that end a call, or not, without having written a key for it.
LEMMA NotWriting ==
    ASSUME UNCHANGED <<req, start>>, Undisturbed,
           at' \notin {"write", "ttl"},
           at' \in {"done", "rename"} \/ keys' = start,
           result' = "ok" => req.op \notin Writes,
           result' = "notfound" => keys' = start
    PROVE  WriteInv'
<1>1. Untouched' /\ Writing' /\ Expired'
  BY DEF Untouched, Writing, Expired
<1>2. LoneWriteIsExact'
  BY DEF LoneWriteIsExact, Succeeded, Writes
<1> QED BY <1>1, <1>2 DEF WriteInv

LEMMA ReadingWritesNothing ==
    ASSUME KInv, CallTypes, Undisturbed, WriteInv,
           \/ ScanEnds \/ Page \/ ReadType \/ ReadTTL \/ ReadValue \/ CheckExists
           \/ \E k \in Key : ScanReturns(k)
    PROVE  WriteInv'
<1>1. UNCHANGED <<keys, req, start>>
  BY DEF ScanEnds, Page, ReadType, ReadTTL, ReadValue, CheckExists, ScanReturns, ghostVars
<1>2. /\ at \in {"scan", "page", "exists", "type", "readttl", "value"}
      /\ at' \notin {"write", "ttl"}
  BY DEF ScanEnds, Page, ReadType, ReadTTL, ReadValue, CheckExists, ScanReturns, GoTo, Return
<1>3. result' = "ok" => req.op \notin Writes
  <2>1. result' = "ok" => at # "exists"
    BY <1>2 DEF ScanEnds, Page, ReadType, ReadTTL, ReadValue, CheckExists, ScanReturns, GoTo,
       Return, CallTypes
  <2> QED BY <1>2, <2>1 DEF KInv, AtFits, Scanning, Writes
<1>4. keys' = start
  BY <1>1, <1>2 DEF WriteInv, Untouched
<1> QED BY <1>1, <1>2, <1>3, <1>4, NotWriting

LEMMA CollectionsWriteNoDocument ==
    ASSUME KInv, Undisturbed, Unlink \/ RenameKey \/ FlushDB
    PROVE  WriteInv'
<1>1. UNCHANGED <<req, start>> /\ at' \in {"done", "rename"} /\ result' # "notfound"
  BY DEF Unlink, RenameKey, FlushDB, GoTo, Return, ReturnReply, ghostVars, KInv, AtFits
<1>2. req.op \notin Writes
  BY DEF Unlink, RenameKey, FlushDB, KInv, AtFits, Writes
<1> QED BY <1>1, <1>2, NotWriting

\* A write is of a document and of a key.
LEMMA WriteRequest ==
    ASSUME KInv, Counted, at \in {"del", "write", "ttl"}
    PROVE  /\ req.op \in Writes /\ req.key \in Key
           /\ at # "del" => req.op \in {"insert", "replace"} /\ req.doc \in Doc
           /\ Before \in Value \cup {Absent}
           /\ keys \in [Key -> Value \cup {Absent}]
<1>1. /\ req.op \in Writes /\ req.key \in Key
      /\ at # "del" => req.op \in {"insert", "replace"}
  BY RequestFields DEF KInv, AtFits, Writes, Pointed
<1>2. at # "del" => req.doc \in Doc
  BY <1>1, RedisAssumption DEF KInv, Request
<1>3. Before \in Value \cup {Absent}
  BY <1>1 DEF Before, Counted, Keyspaces
<1> QED BY <1>1, <1>2, <1>3 DEF KInv, Keyspaces

LEMMA DeleteKeyIsExact ==
    ASSUME KInv, Counted, CallTypes, Undisturbed, WriteInv, DeleteKey
    PROVE  WriteInv'
<1>1. /\ UNCHANGED <<req, start>> /\ at = "del" /\ keys = start /\ result = "none"
      /\ keys' = [keys EXCEPT ![req.key] = Absent]
      /\ \/ req.op = "replace" /\ at' = "write" /\ UNCHANGED result
         \/ /\ req.op # "replace" /\ at' = "done"
            /\ result' \in {IF Exists(keys, req.key) THEN "ok" ELSE "notfound", "error"}
  BY DEF DeleteKey, Store, GoTo, Return, ReturnReply, ghostVars, WriteInv, Untouched,
     CallTypes
<1>2. req.key \in Key /\ keys \in [Key -> Value \cup {Absent}] /\ req.op \in Writes
  BY <1>1, WriteRequest
<1>3. keys'[req.key] = Absent /\ \A k \in Key \ {req.key} : keys'[k] = start[k]
  BY <1>1, <1>2
<1>4. ~Exists(keys, req.key) => keys' = start
  BY <1>1, <1>2 DEF Exists
<1>5. Untouched' /\ Expired'
  BY <1>1 DEF Untouched, Expired
<1>6. Writing'
  BY <1>1, <1>3 DEF Writing, Before, SameBut
<1>7. LoneWriteIsExact'
  <2>1. Succeeded({"insert"})' => FALSE
    BY <1>1 DEF Succeeded, KInv, AtFits
  <2>2. Succeeded({"replace"})' => FALSE
    BY <1>1 DEF Succeeded
  <2>3. result' = "notfound" => keys' = start'
    BY <1>1, <1>4
  <2>4. SameBut({req.key})' /\ keys'[req'.key] = Absent
    BY <1>1, <1>3 DEF SameBut
  <2> QED BY <2>1, <2>2, <2>3, <2>4 DEF LoneWriteIsExact
<1> QED BY <1>5, <1>6, <1>7 DEF WriteInv

LEMMA WriteValueIsExact ==
    ASSUME KInv, Counted, CallTypes, Undisturbed, WriteInv, WriteValue
    PROVE  WriteInv'
<1> DEFINE old == keys[req.key]
           doc == req.doc
<1>1. /\ UNCHANGED <<req, start>> /\ at = "write" /\ old = Before /\ SameBut({req.key})
      /\ result = "none"
      /\ \/ at' = "done" /\ result' = "error"
         \/ at' = "ttl" /\ UNCHANGED result
  BY DEF WriteValue, GoTo, Return, ghostVars, WriteInv, Writing, CallTypes
<1>2. /\ req.key \in Key /\ keys \in [Key -> Value \cup {Absent}] /\ doc \in Doc
  BY <1>1, WriteRequest
<1>3. at' = "ttl" => /\ doc.type \in Types
                     /\ \/ keys' = keys /\ Put(old, doc) = old
                        \/ keys' = [keys EXCEPT ![req.key] = Put(old, doc)]
  <2> SUFFICES ASSUME at' = "ttl"
               PROVE  /\ doc.type \in Types
                      /\ \/ keys' = keys /\ Put(old, doc) = old
                         \/ keys' = [keys EXCEPT ![req.key] = Put(old, doc)]
    OBVIOUS
  <2>1. \/ doc.type \in MergeTypes /\ doc.items = {} /\ keys' = keys
        \/ /\ doc.type = "string" \/ (doc.type \in MergeTypes /\ doc.items # {})
           /\ keys' = [keys EXCEPT ![req.key] = Written(old, doc.type, doc.items)]
    BY DEF WriteValue, Store, Return, GoTo
  <2> QED BY <2>1, RedisAssumption DEF Put, Types
<1>4. at' = "ttl" => /\ keys'[req.key] = Put(old, doc)
                     /\ \A k \in Key \ {req.key} : keys'[k] = start[k]
  BY <1>1, <1>2, <1>3 DEF SameBut
<1>5. Before' = Before
  BY <1>1 DEF Before
<1>6. Untouched' /\ Writing'
  BY <1>1 DEF Untouched, Writing
<1>7. Expired'
  BY <1>1, <1>3, <1>4, <1>5 DEF Expired, SameBut
<1>8. LoneWriteIsExact'
  BY <1>1 DEF LoneWriteIsExact, Succeeded
<1> QED BY <1>6, <1>7, <1>8 DEF WriteInv

LEMMA ApplyTTLIsExact ==
    ASSUME KInv, Counted, CallTypes, Undisturbed, WriteInv, ApplyTTL
    PROVE  WriteInv'
<1> DEFINE old == keys[req.key]
           doc == req.doc
<1>1. /\ UNCHANGED <<req, start>> /\ at = "ttl" /\ SameBut({req.key})
      /\ doc.type \in Types /\ old = Put(Before, doc)
      /\ at' = "done" /\ result' \in {"ok", "error"}
  BY DEF ApplyTTL, Return, ReturnReply, ghostVars, WriteInv, Expired
<1>2. /\ req.key \in Key /\ keys \in [Key -> Value \cup {Absent}] /\ doc \in Doc
      /\ Before \in Value \cup {Absent} /\ req.op \in {"insert", "replace"}
  BY <1>1, WriteRequest
<1>3. result' = "ok" =>
         \/ doc.ttl = "absent" /\ keys' = keys
         \/ /\ doc.ttl \in {"clear", "set", "fraction"}
            /\ \/ old = Absent /\ keys' = keys
               \/ /\ old # Absent
                  /\ keys' = [keys EXCEPT ![req.key] = Expiring(old, doc.ttl)]
  BY DEF ApplyTTL, Store, Return, ReturnReply
<1>4. result' = "ok" => keys'[req.key] = LeftBehind(Before, doc)
  <2>1. /\ doc.ttl = "absent" => old = LeftBehind(Before, doc)
        /\ doc.ttl \in {"clear", "set", "fraction"} =>
              LeftBehind(Before, doc) = IF old = Absent THEN Absent ELSE Expiring(old, doc.ttl)
    BY <1>1, <1>2, PutThenExpired
  <2> QED BY <1>2, <1>3, <2>1
<1>5. \A k \in Key \ {req.key} : result' = "ok" => keys'[k] = start[k]
  BY <1>1, <1>2, <1>3 DEF SameBut
<1>6. /\ req.op = "insert" => Before = start[req.key]
      /\ req.op = "replace" => Before = Absent
  BY DEF Before
<1>7. Untouched' /\ Writing' /\ Expired'
  BY <1>1 DEF Untouched, Writing, Expired
<1>8. LoneWriteIsExact'
  BY <1>1, <1>2, <1>4, <1>5, <1>6 DEF LoneWriteIsExact, Succeeded, SameBut
<1> QED BY <1>7, <1>8 DEF WriteInv

LEMMA WriteStep ==
    ASSUME KInv, Counted, CallTypes, WriteInv, [Next]_vars
    PROVE  WriteInv'
<1>1. CASE ~Undisturbed'
  BY <1>1 DEF WriteInv, LoneWriteIsExact
<1>2. CASE Undisturbed'
  <2>1. Undisturbed /\ ~Others
    BY <1>2, DisturbedStays
  <2>2. CASE CommandFails
    BY <2>1, <2>2, NotWriting DEF CommandFails, Return, ghostVars
  <2>3. CASE UNCHANGED vars
    BY <2>3 DEF vars, ghostVars, scanVars, WriteInv, Undisturbed, Untouched, Writing,
       Expired, Before, SameBut, LoneWriteIsExact, Succeeded
  <2> QED BY <2>1, <2>2, <2>3, ReadingWritesNothing, CollectionsWriteNoDocument,
             DeleteKeyIsExact, WriteValueIsExact, ApplyTTLIsExact DEF Next, Call, Returned
<1> QED BY <1>1, <1>2

THEOREM WritesInvariant == Spec => []WriteInv
BY CallInvariant, WriteInitially, WriteStep, PTL DEF Spec

\* Alone on the server, the commands of a write add up to one
\* (documents.go:160-275).
THEOREM LoneWritesAreExact == Spec => []LoneWriteIsExact
<1>1. WriteInv => LoneWriteIsExact
  BY DEF WriteInv
<1> QED BY <1>1, WritesInvariant, PTL
-----------------------------------------------------------------------------
(***************************************************************************)
(* A collection that nobody disturbs                                       *)
(***************************************************************************)

Distinct(s) == \A i, j \in 1..Len(s) : s[i] = s[j] => i = j
Elements(s) == {s[i] : i \in 1..Len(s)}

\* The new names of the keys of D.
Targets(D) == {Target(k) : k \in D}

\* What the scan has found was there when the call began, each key once.
Scanned ==
    /\ Distinct(found)
    /\ Elements(found) \subseteq seen
    /\ seen \subseteq There(start)
    /\ stood = There(start)

\* ks is the database when the keys of D have been renamed and no others.
Moved(ks, D) ==
    /\ \A d \in D : Fits(d, req.to)
    /\ \A k \in D \ Targets(D) : ks[k] = Absent
    /\ \A k \in (Key \ D) \ Targets(D) : ks[k] = start[k]
    /\ \A d \in D : ks[Target(d)] = Absent \/ \E e \in D : ks[Target(d)] = start[e]
    /\ NoChain => \A d \in D : \E e \in D :
          Target(e) = Target(d) /\ ks[Target(d)] = start[e]

Renaming ==
    at = "rename" => /\ Distinct(todo)
                     /\ Elements(todo) \subseteq Sources
                     /\ Moved(keys, Sources \ Elements(todo))

Renamed == Succeeded({"rename"}) => Moved(keys, Sources)

CollectionInv ==
    /\ Undisturbed => Scanned /\ Renaming /\ Renamed
    /\ LoneCollectionCallIsExact

\* What a rename is about does not change while the call goes on.
LEMMA SameNames ==
    ASSUME UNCHANGED <<req, start>>
    PROVE  /\ Sources' = Sources /\ \A k : Target(k)' = Target(k)
           /\ {Target(k) : k \in Sources}' = {Target(k) : k \in Sources}
           /\ NoChain' <=> NoChain
<1>1. Sources' = Sources
  BY DEF Sources, There
<1>2. \A k : Target(k)' = Target(k)
  BY DEF Target
<1> QED BY <1>1, <1>2 DEF NoChain

\* The collections' exactness in a state that is reached.
LEMMA ExactCollectionCall ==
    ASSUME UNCHANGED <<req, start>>,
           Succeeded({"drop"})' =>
               There(keys') = There(start) \ Group(req.coll) /\ SameBut(Group(req.coll))',
           Succeeded({"rename"})' => Moved(keys', Sources)
    PROVE  LoneCollectionCallIsExact' /\ Renamed'
<1> DEFINE targets == {Target(k) : k \in Sources}
<1>1. ASSUME Succeeded({"rename"})'
      PROVE  /\ \A k \in Key \ (Sources \cup targets) : keys'[k] = start[k]
             /\ \A k \in Sources \ targets : keys'[k] = Absent
             /\ \A t \in targets :
                   keys'[t] = Absent \/ \E k \in Sources : keys'[t] = start[k]
             /\ NoChain => \A t \in targets :
                   \E k \in Sources : Target(k) = t /\ keys'[t] = start[k]
  BY <1>1 DEF Moved, Targets
<1>2. /\ Sources' = Sources /\ \A k : Target(k)' = Target(k)
      /\ targets' = targets /\ (NoChain' <=> NoChain)
  BY SameNames
<1>3. LoneCollectionCallIsExact'
  BY <1>1, <1>2 DEF LoneCollectionCallIsExact, SameBut, Succeeded
<1>4. Renamed'
  <2>1. Moved(keys, Sources)' <=> Moved(keys', Sources)
    BY <1>2, SameNames DEF Moved, Targets
  <2> QED BY <2>1 DEF Renamed
<1> QED BY <1>3, <1>4

LEMMA CollectionInitially == Init => CollectionInv
<1> SUFFICES ASSUME Init PROVE CollectionInv
  OBVIOUS
<1>1. /\ req \in Request /\ at = FirstCommand(req) /\ result = "none" /\ found = <<>>
      /\ seen = {} /\ start = keys /\ stood = {k \in Key : Exists(keys, k)}
  BY DEF Init
<1>2. at # "rename"
  <2>1. req.op \in Pointed \cup Scanning \cup {"flush"}
    BY <1>1, RequestFields
  <2> QED BY <1>1, <2>1 DEF FirstCommand, Pointed, Scanning
<1>3. Scanned /\ Renaming
  BY <1>1, <1>2 DEF Scanned, Renaming, Distinct, Elements, There
<1>4. LoneCollectionCallIsExact
  BY <1>1 DEF LoneCollectionCallIsExact, Succeeded
<1>5. Renamed
  BY <1>1 DEF Renamed, Succeeded
<1> QED BY <1>3, <1>4, <1>5 DEF CollectionInv

\* Alone, a scan that comes to its end has found the collection.
LEMMA FoundIsCollection ==
    ASSUME KInv, Scanned, req.op \in Grouped,
           \/ at = "scan" /\ ScanCovers
           \/ at # "scan" /\ result # "error"
    PROVE  Elements(found) = Sources
<1>1. req.op \in Scanning /\ req \in Request
  BY DEF KInv, Grouped, Scanning
<1>2. /\ \A i \in 1..Len(found) : found[i] \in Key /\ Matches(found[i])
      /\ Len(found) \in Nat /\ DOMAIN found = 1..Len(found)
  BY <1>1, ElementOfSeq, LenProperties DEF KInv, Collected
<1>3. Elements(found) \subseteq Sources
  BY <1>1, <1>2, MatchesGroup DEF Elements, Sources, Scanned
<1>4. ASSUME NEW k \in Sources PROVE k \in Elements(found)
  <2>1. k \in stood /\ k \in Key /\ k \in Group(req.coll)
    BY DEF Sources, Scanned, There
  <2>2. Contains(found, k)
    BY <1>1, <2>1, MatchesGroup DEF KInv, Covered, ScanCovers
  <2> QED BY <1>2, <2>2 DEF Contains, Elements
<1> QED BY <1>3, <1>4

\* Each of a sequence of different keys is its head or in its tail, not both.
LEMMA HeadAndTail ==
    ASSUME NEW s \in Seq(Key), s # <<>>, Distinct(s)
    PROVE  /\ Distinct(Tail(s)) /\ Head(s) \in Elements(s)
           /\ Elements(Tail(s)) = Elements(s) \ {Head(s)}
<1>1. /\ Len(s) \in Nat /\ Len(s) >= 1 /\ Head(s) = s[1]
      /\ Len(Tail(s)) = Len(s) - 1
      /\ \A i \in 1 .. Len(s) - 1 : Tail(s)[i] = s[i + 1]
  BY HeadTailProperties, LenProperties, EmptySeq
<1>2. Distinct(Tail(s))
  BY <1>1 DEF Distinct
<1>3. Head(s) \in Elements(s)
  BY <1>1 DEF Elements
<1>4. ASSUME NEW k \in Elements(Tail(s)) PROVE k \in Elements(s) \ {Head(s)}
  <2>1. PICK i \in 1 .. Len(s) - 1 : k = s[i + 1]
    BY <1>1 DEF Elements
  <2>2. i + 1 \in 1..Len(s) /\ i + 1 # 1
    BY <1>1
  <2> QED BY <1>1, <2>1, <2>2 DEF Elements, Distinct
<1>5. ASSUME NEW k \in Elements(s) \ {Head(s)} PROVE k \in Elements(Tail(s))
  <2>1. PICK i \in 1..Len(s) : k = s[i]
    BY DEF Elements
  <2>2. i - 1 \in 1 .. Len(s) - 1 /\ (i - 1) + 1 = i
    BY <1>1, <2>1
  <2>3. Tail(s)[i - 1] = k
    BY <1>1, <2>1, <2>2
  <2> QED BY <1>1, <2>2, <2>3 DEF Elements
<1> QED BY <1>2, <1>3, <1>4, <1>5

\* The renaming of one more key.
LEMMA OneMoreMoved ==
    ASSUME req \in Request, req.op = "rename", NEW D \in SUBSET Sources,
           NEW k \in Sources \ D, Fits(k, req.to),
           NEW ks \in [Key -> Value \cup {Absent}], Moved(ks, D),
           NEW after, after = [ks EXCEPT ![k] = Absent, ![Target(k)] = ks[k]]
    PROVE  Moved(after, D \cup {k})
<1> DEFINE new == Target(k)
           E == D \cup {k}
<1>1. /\ Sources \subseteq Key
      /\ \A d \in E : Fits(d, req.to) /\ d \in Key /\ Target(d) \in Key
  <2>1. Sources \subseteq Key
    BY DEF Sources, There
  <2>2. \A d \in E : Fits(d, req.to) /\ d \in Key
    BY <2>1 DEF Moved
  <2> QED BY <2>1, <2>2, TargetKey
<1>2. /\ after[new] = ks[k]
      /\ new # k => after[k] = Absent
      /\ \A l \in Key \ {k, new} : after[l] = ks[l]
  BY <1>1
<1>3. /\ \A l \in D : (\A d \in D : Target(d) # l) => ks[l] = Absent
      /\ \A l \in Key \ D : (\A d \in D : Target(d) # l) => ks[l] = start[l]
      /\ \A d \in D : ks[Target(d)] = Absent \/ \E e \in D : ks[Target(d)] = start[e]
      /\ NoChain => \A d \in D : \E e \in D :
            Target(e) = Target(d) /\ ks[Target(d)] = start[e]
  BY DEF Moved, Targets
<1>4. \A l \in E : (\A d \in E : Target(d) # l) => after[l] = Absent
  BY <1>1, <1>2, <1>3
<1>5. \A l \in Key \ E : (\A d \in E : Target(d) # l) => after[l] = start[l]
  BY <1>1, <1>2, <1>3
<1>6. ks[k] = Absent \/ \E e \in E : ks[k] = start[e]
  <2>1. CASE \E d \in D : Target(d) = k
    BY <1>3, <2>1
  <2>2. CASE \A d \in D : Target(d) # k
    BY <1>1, <1>3, <2>2
  <2> QED BY <2>1, <2>2
<1>7. ASSUME NEW d \in E
      PROVE  after[Target(d)] = Absent \/ \E e \in E : after[Target(d)] = start[e]
  <2>1. CASE Target(d) = new
    BY <1>2, <1>6, <2>1
  <2>2. CASE Target(d) # new /\ Target(d) = k
    BY <1>2, <2>2
  <2>3. CASE Target(d) # new /\ Target(d) # k
    <3>1. d \in D /\ after[Target(d)] = ks[Target(d)]
      BY <1>1, <1>2, <2>3
    <3> QED BY <1>3, <3>1
  <2> QED BY <2>1, <2>2, <2>3
<1>8. ASSUME NoChain, NEW d \in E
      PROVE  \E e \in E : Target(e) = Target(d) /\ after[Target(d)] = start[e]
  <2>1. CASE \E c \in D : Target(c) = k
    <3>1. new = k
      BY <1>8, <2>1 DEF NoChain
    <3>2. \A l \in Key : after[l] = ks[l]
      BY <1>2, <3>1
    <3> QED BY <1>1, <1>3, <1>8, <2>1, <3>1, <3>2
  <2>2. CASE \A c \in D : Target(c) # k
    <3>1. ks[k] = start[k]
      BY <1>1, <1>3, <2>2
    <3>2. CASE Target(d) = new
      BY <1>2, <3>1, <3>2
    <3>3. CASE Target(d) # new
      <4>1. d \in D /\ Target(d) \in Key \ {k, new}
        BY <1>1, <2>2, <3>3
      <4> QED BY <1>2, <1>3, <1>8, <4>1
    <3> QED BY <3>2, <3>3
  <2> QED BY <2>1, <2>2
<1> QED BY <1>1, <1>4, <1>5, <1>7, <1>8 DEF Moved, Targets

LEMMA RenameIsExact ==
    ASSUME KInv, CallTypes, Counted, Undisturbed, CollectionInv, RenameKey
    PROVE  CollectionInv'
<1> DEFINE k == Head(todo)
           D == Sources \ Elements(todo)
<1>1. /\ at = "rename" /\ req.op = "rename" /\ req \in Request
      /\ UNCHANGED <<req, start, stood, found, seen>>
  BY DEF RenameKey, KInv, AtFits, scanVars, ghostVars
<1>2. /\ Scanned /\ Distinct(todo) /\ Elements(todo) \subseteq Sources /\ Moved(keys, D)
  BY <1>1 DEF CollectionInv, Renaming
<1>3. /\ k \in Elements(todo) /\ Distinct(Tail(todo))
      /\ Elements(Tail(todo)) = Elements(todo) \ {k}
  BY <1>1, <1>2, HeadAndTail DEF CallTypes
<1>4. Scanned'
  BY <1>1, <1>2 DEF Scanned, There
<1>5. Sources' = Sources
  BY <1>1 DEF Sources, There
<1>6. CASE at' = "done" /\ result' = "error"
  <2>1. Renaming' /\ ~Succeeded({"drop"})' /\ ~Succeeded({"rename"})'
    BY <1>6 DEF Renaming, Succeeded
  <2> QED BY <1>4, <2>1 DEF CollectionInv, LoneCollectionCallIsExact, Renamed
<1>7. CASE ~(at' = "done" /\ result' = "error")
  <2>1. /\ keys' = [keys EXCEPT ![k] = Absent, ![Target(k)] = keys[k]]
        /\ todo' = Tail(todo)
        /\ \/ Tail(todo) = <<>> /\ at' = "done" /\ result' = "ok"
           \/ Tail(todo) # <<>> /\ at' = "rename" /\ UNCHANGED result
    <3>1. k \in Key
      BY <1>2, <1>3 DEF Sources, There
    <3>2. RenamedKey(k, req.to) = Target(k)
      BY <1>1, <3>1, TargetKey
    <3> QED BY <1>7, <3>2 DEF RenameKey, Return, ReturnReply, GoTo
  <2>2. D \in SUBSET Sources /\ k \in Sources \ D /\ Fits(k, req.to)
    BY <1>2, <1>3 DEF RenameKey
  <2>3. keys \in [Key -> Value \cup {Absent}]
    BY DEF KInv, Keyspaces
  <2>4. Moved(keys', D \cup {k})
    <3> HIDE DEF D, k
    <3> QED BY <1>1, <1>2, <2>1, <2>2, <2>3, OneMoreMoved
  <2>5. Sources \ Elements(Tail(todo)) = D \cup {k}
    BY <1>2, <1>3
  <2>6. Moved(keys', Sources \ Elements(Tail(todo)))
    BY <2>4, <2>5
  <2>7. Moved(keys, Sources \ Elements(todo))'
    <3>1. Elements(todo)' = Elements(Tail(todo))
      BY <2>1 DEF Elements
    <3> QED BY <1>1, <1>5, <2>6, <3>1, SameNames DEF Moved, Targets
  <2>8. Elements(todo)' \subseteq Sources' /\ Distinct(todo)'
    <3>1. Elements(todo)' = Elements(Tail(todo))
      BY <2>1 DEF Elements
    <3>2. Distinct(todo)' <=> Distinct(Tail(todo))
      BY <2>1 DEF Distinct
    <3> QED BY <1>2, <1>3, <1>5, <3>1, <3>2
  <2>9. Renaming'
    BY <2>7, <2>8 DEF Renaming
  <2>10. CASE at' = "rename"
    <3>1. ~Succeeded({"drop"})' /\ ~Succeeded({"rename"})'
      BY <1>1, <2>1, <2>10 DEF Succeeded, KInv, AtFits
    <3> QED BY <1>4, <2>9, <3>1 DEF CollectionInv, LoneCollectionCallIsExact, Renamed
  <2>11. CASE Tail(todo) = <<>>
    <3>1. Elements(Tail(todo)) = {}
      <4>1. Elements(<<>>) = {}
        BY DEF Elements
      <4> QED BY <2>11, <4>1
    <3>2. Moved(keys', Sources)
      BY <2>6, <3>1
    <3>3. LoneCollectionCallIsExact' /\ Renamed'
      BY <1>1, <3>2, ExactCollectionCall DEF Succeeded
    <3> QED BY <1>4, <2>9, <3>3 DEF CollectionInv
  <2> QED BY <2>1, <2>10, <2>11
<1> QED BY <1>6, <1>7

\* The point of a call that neither drops nor renames successfully, or not yet.
LEMMA NoCollectionCall ==
    ASSUME Scanned', at' # "rename",
           result' = "ok" => req'.op \notin {"drop", "rename"}
    PROVE  CollectionInv'
<1>1. Renaming'
  BY DEF Renaming
<1>2. LoneCollectionCallIsExact' /\ Renamed'
  BY DEF LoneCollectionCallIsExact, Renamed, Succeeded
<1> QED BY <1>1, <1>2 DEF CollectionInv

LEMMA ScanReturnsExactly ==
    ASSUME KInv, CallTypes, Counted, Undisturbed, Undisturbed', WriteInv, CollectionInv,
           NEW k \in Key, ScanReturns(k)
    PROVE  CollectionInv'
<1>1. /\ at = "scan" /\ keys = start /\ result = "none" /\ Exists(keys, k)
      /\ found' = IF Matches(k) THEN Append(found, k) ELSE found
      /\ seen' = seen \cup {k} /\ UNCHANGED <<req, at, result, start, stood>>
  BY DEF ScanReturns, ghostVars, WriteInv, Untouched, CallTypes
<1>2. k \notin seen
  BY DEF ScanReturns, Undisturbed, Counted
<1>3. Scanned /\ found \in Seq(Key)
  BY DEF CollectionInv, KInv, Collected
<1>4. k \in There(start)
  BY <1>1 DEF There
<1>5. Distinct(found') /\ Elements(found') \subseteq seen \cup {k}
  <2>1. CASE ~Matches(k)
    BY <1>1, <1>3, <2>1 DEF Scanned
  <2>2. CASE Matches(k)
    <3>1. /\ Len(found) \in Nat /\ Len(found') = Len(found) + 1
          /\ found'[Len(found) + 1] = k
          /\ \A i \in 1..Len(found) : found'[i] = found[i]
      BY <1>1, <1>3, <2>2, AppendProperties, LenProperties
    <3>2. \A i \in 1..Len(found) : found[i] \in seen
      BY <1>3 DEF Scanned, Elements
    <3>3. \A i \in 1..Len(found') : i \in 1..Len(found) \/ i = Len(found) + 1
      BY <3>1
    <3>4. Distinct(found')
      BY <1>2, <1>3, <3>1, <3>2, <3>3 DEF Distinct, Scanned
    <3>5. Elements(found') \subseteq seen \cup {k}
      BY <3>1, <3>2, <3>3 DEF Elements
    <3> QED BY <3>4, <3>5
  <2> QED BY <2>1, <2>2
<1>6. Scanned'
  <2>1. Distinct(found)' /\ Elements(found)' \subseteq seen'
    BY <1>1, <1>5 DEF Distinct, Elements
  <2>2. There(start)' = There(start)
    BY <1>1 DEF There
  <2> QED BY <1>1, <1>3, <1>4, <2>1, <2>2 DEF Scanned
<1> QED BY <1>1, <1>6, NoCollectionCall

LEMMA ScanEndsExactly ==
    ASSUME KInv, CallTypes, Counted, Undisturbed, WriteInv, CollectionInv, ScanEnds
    PROVE  CollectionInv'
<1>1. /\ at = "scan" /\ keys = start /\ result = "none" /\ ScanCovers
      /\ UNCHANGED <<keys, req, found, seen, start, stood>>
  BY DEF ScanEnds, scanVars, ghostVars, WriteInv, Untouched, CallTypes
<1>2. Scanned /\ found \in Seq(Key)
  BY DEF CollectionInv, KInv, Collected
<1>3. Scanned'
  BY <1>1, <1>2 DEF Scanned, Distinct, Elements, There
<1>4. CASE at' # "rename"
  <2>1. result' = "ok" => req.op \notin {"drop", "rename"}
    BY <1>1, <1>4 DEF ScanEnds, GoTo, Return
  <2> QED BY <1>1, <1>3, <1>4, <2>1, NoCollectionCall
<1>5. CASE at' = "rename"
  <2>1. req.op = "rename" /\ todo' = found /\ result' = "none"
    BY <1>1, <1>5 DEF ScanEnds, GoTo, Return
  <2>2. Elements(found) = Sources
    BY <1>1, <1>2, <2>1, FoundIsCollection DEF Grouped
  <2>3. Elements(todo)' = Sources /\ Sources' = Sources /\ Distinct(todo)'
    BY <1>1, <1>2, <2>1, <2>2 DEF Elements, Sources, There, Scanned, Distinct
  <2>4. Moved(keys, {})'
    BY <1>1 DEF Moved, Targets
  <2>5. Renaming'
    <3>1. (Sources \ Elements(todo))' = {}
      BY <2>3
    <3>2. Moved(keys, Sources \ Elements(todo))'
      BY <2>4, <3>1 DEF Moved, Targets
    <3> QED BY <2>3, <3>2 DEF Renaming
  <2>6. LoneCollectionCallIsExact' /\ Renamed'
    BY <2>1 DEF LoneCollectionCallIsExact, Renamed, Succeeded
  <2> QED BY <1>3, <2>5, <2>6 DEF CollectionInv
<1> QED BY <1>4, <1>5

LEMMA UnlinkIsExact ==
    ASSUME KInv, CallTypes, Counted, Undisturbed, WriteInv, CollectionInv, Unlink
    PROVE  CollectionInv'
<1>1. /\ at = "unlink" /\ req.op = "drop" /\ keys = start /\ at' = "done"
      /\ result = "none" /\ req \in Request
      /\ keys' = [k \in Key |-> IF Contains(found, k) THEN Absent ELSE keys[k]]
      /\ UNCHANGED <<req, found, seen, start, stood>>
  BY DEF Unlink, Return, ReturnReply, scanVars, ghostVars, WriteInv, Untouched, KInv, AtFits
<1>2. Scanned /\ found \in Seq(Key)
  BY <1>1 DEF CollectionInv, KInv, Collected
<1>3. Elements(found) = Sources
  BY <1>1, <1>2, FoundIsCollection DEF Grouped
<1>4. \A k \in Key : Contains(found, k) <=> k \in Sources
  <2>1. DOMAIN found = 1..Len(found)
    BY <1>2, LenProperties
  <2> QED BY <1>3, <2>1 DEF Contains, Elements
<1>5. \A k \in Key : keys'[k] = IF k \in Sources THEN Absent ELSE start[k]
  BY <1>1, <1>4
<1>6. /\ There(keys') = There(start) \ Group(req.coll)
      /\ \A k \in Key \ Group(req.coll) : keys'[k] = start[k]
  BY <1>5 DEF There, Exists, Sources
<1>7. SameBut(Group(req.coll))'
  BY <1>1, <1>6 DEF SameBut, Group
<1>8. ~Succeeded({"rename"})'
  BY <1>1 DEF Succeeded
<1>9. LoneCollectionCallIsExact' /\ Renamed'
  BY <1>1, <1>6, <1>7, <1>8, ExactCollectionCall
<1>10. Scanned' /\ Renaming'
  BY <1>1, <1>2 DEF Scanned, Distinct, Elements, There, Renaming
<1> QED BY <1>9, <1>10 DEF CollectionInv

LEMMA CollectionStep ==
    ASSUME KInv, CallTypes, Counted, WriteInv, CollectionInv, [Next]_vars
    PROVE  CollectionInv'
<1>1. CASE ~Undisturbed'
  BY <1>1 DEF CollectionInv, LoneCollectionCallIsExact
<1>2. CASE Undisturbed'
  <2>1. Undisturbed /\ ~Others
    BY <1>2, DisturbedStays
  <2>2. Scanned
    BY <2>1 DEF CollectionInv
  <2>3. CASE \/ Page \/ ReadType \/ ReadTTL \/ ReadValue \/ CheckExists \/ DeleteKey
             \/ WriteValue \/ ApplyTTL \/ FlushDB \/ CommandFails
    <3>1. /\ UNCHANGED <<req, found, seen, start, stood>>
          /\ at' # "rename"
      BY <2>3 DEF Page, ReadType, ReadTTL, ReadValue, CheckExists, DeleteKey, WriteValue,
         ApplyTTL, FlushDB, CommandFails, scanVars, ghostVars, GoTo, Return, ReturnReply
    <3>2. Scanned'
      BY <2>2, <3>1 DEF Scanned, Distinct, Elements, There
    <3>3. result' = "ok" => req.op \notin {"drop", "rename"}
      BY <2>3 DEF Page, ReadType, ReadTTL, ReadValue, CheckExists, DeleteKey, WriteValue,
         ApplyTTL, FlushDB, CommandFails, GoTo, Return, ReturnReply, KInv, AtFits, CallTypes
    <3> QED BY <3>1, <3>2, <3>3, NoCollectionCall
  <2>4. CASE UNCHANGED vars
    <3>1. UNCHANGED <<keys, req, at, result, todo, found, seen, repeats, start, stood, others>>
      BY <2>4 DEF vars, scanVars, ghostVars
    <3>2. Scanned'
      BY <2>2, <3>1 DEF Scanned, Distinct, Elements, There
    <3>3. Renaming'
      <4>1. /\ Distinct(todo)' <=> Distinct(todo)
            /\ Elements(todo)' = Elements(todo) /\ Sources' = Sources
        BY <3>1 DEF Distinct, Elements, Sources, There
      <4>2. Moved(keys, Sources \ Elements(todo))' <=> Moved(keys, Sources \ Elements(todo))
        BY <3>1, <4>1, SameNames DEF Moved, Targets
      <4>3. Renaming
        BY <2>1 DEF CollectionInv
      <4> QED BY <3>1, <4>1, <4>2, <4>3 DEF Renaming
    <3>4. Undisturbed /\ Renamed /\ LoneCollectionCallIsExact
      BY <2>1 DEF CollectionInv
    <3>5. LoneCollectionCallIsExact'
      BY <3>1, <3>4, SameNames DEF LoneCollectionCallIsExact, There, Exists,
         Undisturbed, Succeeded, SameBut
    <3>6. Renamed'
      BY <3>1, <3>4, SameNames DEF Renamed, Moved, Targets, Succeeded
    <3> QED BY <3>2, <3>3, <3>5, <3>6 DEF CollectionInv
  <2> QED BY <1>2, <2>1, <2>3, <2>4, ScanReturnsExactly, ScanEndsExactly, UnlinkIsExact,
             RenameIsExact DEF Next, Call, Returned
<1> QED BY <1>1, <1>2

THEOREM CollectionInvariant == Spec => []CollectionInv
BY CallInvariant, WritesInvariant, CollectionInitially, CollectionStep, PTL DEF Spec

\* Alone on the server, a drop takes the collection and nothing else; a rename
\* touches only the collection and its new names, leaves no value that was not
\* there and no old name, and gives each new name the value of a key of it
\* unless one key's new name is another's old one (collections.go:87-152).
THEOREM LoneCollectionCallsAreExact == Spec => []LoneCollectionCallIsExact
<1>1. CollectionInv => LoneCollectionCallIsExact
  BY DEF CollectionInv
<1> QED BY <1>1, CollectionInvariant, PTL
-----------------------------------------------------------------------------
(***************************************************************************)
(* A read that nobody disturbs                                             *)
(***************************************************************************)

\* As many keys as places.
LEMMA DistinctCount ==
    ASSUME NEW s \in Seq(Key), Distinct(s), NEW I \in SUBSET (1..Len(s))
    PROVE  /\ IsFiniteSet(I) /\ Cardinality({s[i] : i \in I}) = Cardinality(I)
<1> DEFINE T == {s[i] : i \in I}
           f == [i \in I |-> s[i]]
<1>1. IsFiniteSet(I)
  <2>1. IsFiniteSet(1..Len(s))
    BY LenProperties, CountTo
  <2> QED BY <2>1, FS_Subset
<1>2. f \in [I -> T] /\ \A i, j \in I : f[i] = f[j] => i = j
  BY DEF Distinct
<1>3. \A t \in T : \E i \in I : f[i] = t
  OBVIOUS
<1> HIDE DEF f, T
<1>4. f \in Bijection(I, T)
  BY <1>2, <1>3 DEF Bijection, Injection, Surjection, IsInjective
<1>5. ExistsBijection(I, T)
  BY <1>4 DEF ExistsBijection
<1>6. Cardinality(T) = Cardinality(I)
  BY <1>1, <1>5, FS_Bijection
<1> QED BY <1>1, <1>6 DEF T

\* How many keys of the collection go before one.
Place(k) == Cardinality({l \in Sources : Precedes(l, k)})

LEMMA PlaceIsRank ==
    ASSUME NEW s \in Seq(Key), Distinct(s), Elements(s) = Sources, NEW i \in 1..Len(s)
    PROVE  Place(s[i]) = Rank(s, i) - 1
<1> DEFINE B == UpTo(s, i) \ {i}
<1>1. DOMAIN s = 1..Len(s) /\ \A j \in 1..Len(s) : s[j] \in Key
  BY LenProperties, ElementOfSeq
<1>2. B = {j \in 1..Len(s) : Precedes(s[j], s[i])}
  BY <1>1, KeyOrder DEF UpTo, Distinct
<1>3. {l \in Sources : Precedes(l, s[i])} = {s[j] : j \in B}
  BY <1>2 DEF Elements
<1>4. B \in SUBSET (1..Len(s))
  BY <1>2
<1> HIDE DEF B
<1>5. Cardinality({s[j] : j \in B}) = Cardinality(B)
  BY <1>4, DistinctCount
<1>6. Cardinality(B) = Rank(s, i) - 1
  BY UpToFinite, FS_RemoveElement DEF B
<1> QED BY <1>3, <1>5, <1>6 DEF Place

\* The documents a find returns when skip is not negative.
PageSize == IF First < Past THEN Past - First ELSE 0
PageOf == {k \in Sources : Place(k) >= req.skip
              /\ (req.limit > 0 => Place(k) < req.skip + req.limit)}

\* The page of the sorted keys is the page of the collection.
LEMMA PageIsExact ==
    ASSUME req \in Request, req.op = "find", found \in Seq(Key), Distinct(found),
           Elements(found) = Sources, 0 <= First
    PROVE  /\ PageSize = Cardinality(PageOf)
           /\ \A i \in 1..PageSize : /\ PageKeys[i] \in PageOf
                                     /\ Place(PageKeys[i]) = req.skip + i - 1
<1>1. /\ req.skip \in Int /\ req.limit \in Int
      /\ Len(found) \in Nat /\ First \in Int /\ Past \in Int
  BY LenProperties, PageOfFound, RedisAssumption DEF Request
<1>2. PageSize \in Nat
  BY <1>1 DEF PageSize
<1>3. ASSUME NEW i \in 1..PageSize
      PROVE  \E j \in 1..Len(found) : PageKeys[i] = found[j] /\ Rank(found, j) = First + i
  <2>1. First < Past /\ i \in 1 .. Past - First
    BY <1>1, <1>3 DEF PageSize
  <2>2. PageKeys[i] = Sorted(found)[First + i] /\ First + i \in 1..Len(found)
    BY <1>1, <2>1, PageOfFound
  <2> QED BY <2>2, SortedKeys
<1>4. PageSize > 0 => First = req.skip
  BY <1>1 DEF PageSize, First, Past, PageEnd, Lesser
<1>5. ASSUME NEW i \in 1..PageSize
      PROVE  PageKeys[i] \in PageOf /\ Place(PageKeys[i]) = req.skip + i - 1
  <2>1. PICK j \in 1..Len(found) : PageKeys[i] = found[j] /\ Rank(found, j) = First + i
    BY <1>3
  <2>2. PageKeys[i] \in Sources
    BY <2>1 DEF Elements
  <2>3. Place(PageKeys[i]) = First + i - 1
    BY <1>1, <2>1, PlaceIsRank
  <2>4. First = req.skip /\ i \in Int /\ i >= 1 /\ i <= Past - First
    BY <1>1, <1>2, <1>4, <1>5 DEF PageSize
  <2>5. req.limit > 0 => Past <= req.skip + req.limit
    BY <1>1, <2>4 DEF First, Past, PageEnd, Lesser
  <2>6. /\ First + i - 1 >= req.skip /\ First + i - 1 = req.skip + i - 1
        /\ req.limit > 0 => First + i - 1 < req.skip + req.limit
    BY <1>1, <2>4, <2>5
  <2>7. Place(PageKeys[i]) >= req.skip /\ Place(PageKeys[i]) = req.skip + i - 1
        /\ (req.limit > 0 => Place(PageKeys[i]) < req.skip + req.limit)
    BY <2>3, <2>6
  <2> QED BY <2>2, <2>7 DEF PageOf
<1>6. ASSUME NEW k \in PageOf
      PROVE  \E i \in 1..PageSize : PageKeys[i] = k
  <2>1. PICK j \in 1..Len(found) : found[j] = k
    BY DEF PageOf, Elements
  <2> DEFINE r == Rank(found, j)
  <2>2. r \in 1..Len(found) /\ Place(k) = r - 1
    BY <2>1, UpToFinite, PlaceIsRank
  <2> HIDE DEF r
  <2>3. r - 1 >= req.skip /\ (req.limit > 0 => r - 1 < req.skip + req.limit)
    BY <2>2 DEF PageOf
  <2>4. First = req.skip /\ First < r /\ r <= Past
    BY <1>1, <2>2, <2>3 DEF First, Past, PageEnd, Lesser
  <2>5. r - First \in 1..PageSize /\ First + (r - First) = r
    BY <1>1, <2>2, <2>4 DEF PageSize
  <2>6. PICK i \in 1..Len(found) : PageKeys[r - First] = found[i] /\ Rank(found, i) = r
    BY <1>3, <2>5
  <2>7. i = j
    BY <2>6, RanksDiffer DEF r
  <2> QED BY <2>1, <2>5, <2>6, <2>7
<1>7. PageSize = Cardinality(PageOf)
  <2>1. CASE PageSize = 0
    <3>1. PageOf = {}
      BY <1>6, <2>1
    <3> QED BY <2>1, <3>1, FS_EmptySet
  <2>2. CASE PageSize # 0
    <3>1. PageKeys \in Seq(Key) /\ Len(PageKeys) = PageSize
      BY <1>1, <2>2, PageOfFound DEF PageSize
    <3>2. Distinct(PageKeys)
      <4> SUFFICES ASSUME NEW a \in 1..PageSize, NEW b \in 1..PageSize,
                          PageKeys[a] = PageKeys[b]
                   PROVE  a = b
        BY <3>1 DEF Distinct
      <4>1. req.skip + a - 1 = req.skip + b - 1
        BY <1>5
      <4> QED BY <1>1, <1>2, <4>1
    <3>3. PageOf = {PageKeys[i] : i \in 1..PageSize}
      BY <1>5, <1>6
    <3>4. Cardinality(PageOf) = Cardinality(1..PageSize)
      BY <3>1, <3>2, <3>3, DistinctCount
    <3> QED BY <1>2, <3>4, CountTo
  <2> QED BY <2>1, <2>2
<1> QED BY <1>5, <1>7

\* The documents read so far are the first of the page, as they were.
AsStarted ==
    \A i \in 1..Len(docs) : /\ docs[i].key = PageKeys[i]
                            /\ docs[i].type = start[PageKeys[i]].type
                            /\ docs[i].items = start[PageKeys[i]].items

PageRead ==
    /\ req.op = "find" /\ at \in {"type", "readttl", "value"} =>
          /\ 0 <= First /\ First < Past
          /\ Len(docs) + Len(todo) = Past - First
          /\ \A j \in 1..Len(todo) : todo[j] = PageKeys[Len(docs) + j]
          /\ AsStarted
    /\ Succeeded({"find"}) => 0 <= First /\ Len(docs) = PageSize /\ AsStarted

TypeRead ==
    req.op = "find" /\ at \in {"readttl", "value"} => reading.type = start[Head(todo)].type

NothingRead == at \in {"scan", "page"} => docs = <<>>

ReadInv == Undisturbed => PageRead /\ TypeRead /\ NothingRead

LEMMA ReadInitially == Init => ReadInv
<1> SUFFICES ASSUME Init PROVE ReadInv
  OBVIOUS
<1>1. req \in Request /\ at = FirstCommand(req) /\ result = "none" /\ docs = <<>>
  BY DEF Init
<1>2. req.op = "find" => at = "scan"
  BY <1>1 DEF FirstCommand, Scanning
<1> QED BY <1>1, <1>2 DEF ReadInv, PageRead, TypeRead, NothingRead, Succeeded

\* The page does not change while it is read.
LEMMA SamePage ==
    ASSUME UNCHANGED <<req, found, start>>
    PROVE  /\ First' = First /\ Past' = Past /\ PageKeys' = PageKeys /\ PageSize' = PageSize
           /\ docs' = docs => (AsStarted' <=> AsStarted)
<1>1. First' = First /\ Past' = Past /\ PageKeys' = PageKeys
  BY DEF First, Past, PageKeys
<1>2. PageSize' = PageSize
  BY <1>1 DEF PageSize
<1>3. docs' = docs => (AsStarted' <=> AsStarted)
  BY <1>1 DEF AsStarted
<1> QED BY <1>1, <1>2, <1>3

\* The key that is read is of the page and was there from the start.
LEMMA ReadFromStart ==
    ASSUME KInv, CallTypes, Scanned, PageRead, req.op = "find",
           at \in {"type", "readttl", "value"}
    PROVE  /\ Head(todo) = PageKeys[Len(docs) + 1] /\ Head(todo) \in There(start)
           /\ Len(docs) \in Nat /\ Len(todo) \in Nat /\ Len(todo) >= 1
<1>1. /\ todo \in Seq(Key) /\ todo # <<>> /\ docs \in Seq(ReadDoc)
      /\ req \in Request /\ found \in Seq(Key)
  BY DEF CallTypes, KInv, Collected
<1>2. /\ Len(docs) \in Nat /\ Len(todo) \in Nat /\ Len(todo) >= 1
      /\ Head(todo) = todo[1]
  BY <1>1, LenProperties, EmptySeq, HeadTailProperties
<1>3. /\ Head(todo) = PageKeys[Len(docs) + 1] /\ 0 <= First /\ First < Past
      /\ Len(docs) + 1 \in 1 .. Past - First
  BY <1>1, <1>2, PageOfFound DEF PageRead
<1>4. /\ Head(todo) = Sorted(found)[First + (Len(docs) + 1)]
      /\ First + (Len(docs) + 1) \in 1..Len(found)
  BY <1>1, <1>2, <1>3, PageOfFound
<1>5. Head(todo) \in Elements(found)
  BY <1>1, <1>4, SortedKeys DEF Elements
<1> QED BY <1>2, <1>3, <1>5 DEF Scanned

LEMMA PageIsRead ==
    ASSUME KInv, CallTypes, Undisturbed, ReadInv, Page
    PROVE  ReadInv'
<1>1. /\ at = "page" /\ req.op = "find" /\ docs = <<>> /\ result = "none"
      /\ req \in Request /\ found \in Seq(Key)
      /\ UNCHANGED <<req, found, start, docs>>
  BY DEF Page, scanVars, readVars, ghostVars, ReadInv, NothingRead, KInv, AtFits, Collected
<1>2. \/ at' = "done" /\ result' = "panic"
      \/ at' = "done" /\ 0 <= First /\ ~(First < Past)
      \/ /\ 0 <= First /\ First < Past /\ todo' = PageKeys
         /\ at' = "type" /\ UNCHANGED result
  BY <1>1, PageOfFound DEF Page, First, Past, PageKeys, GoTo, Return
<1>3. Len(docs) = 0 /\ AsStarted' /\ Len(docs') = 0
  BY <1>1, EmptySeq DEF AsStarted
<1>4. /\ First' = First /\ Past' = Past /\ PageKeys' = PageKeys /\ PageSize' = PageSize
  BY <1>1, SamePage
<1>5. TypeRead' /\ NothingRead'
  BY <1>2 DEF TypeRead, NothingRead
<1>6. Succeeded({"find"})' => 0 <= First /\ 0 = PageSize
  BY <1>1, <1>2 DEF Succeeded, PageSize
<1>7. at' # "done" =>
          /\ 0 <= First /\ First < Past /\ Len(todo') = Past - First
          /\ \A j \in 1..Len(todo') : todo'[j] = PageKeys[0 + j]
  BY <1>1, <1>2, PageOfFound
<1>8. Len(docs') + Len(todo') = Len(todo') \/ at' = "done"
  <2>1. at' # "done" => Len(todo') \in Nat
    BY <1>1, <1>7, PageOfFound
  <2> QED BY <1>3, <2>1
<1>9. PageRead'
  BY <1>2, <1>3, <1>4, <1>6, <1>7, <1>8 DEF PageRead
<1> QED BY <1>5, <1>9 DEF ReadInv

LEMMA ValueIsRead ==
    ASSUME KInv, CallTypes, Undisturbed, WriteInv, Scanned, ReadInv, ReadValue
    PROVE  ReadInv'
<1> DEFINE k == Head(todo)
           items == IF Exists(keys, k) THEN keys[k].items ELSE {}
           doc == [key |-> k, type |-> reading.type,
                   expires |-> reading.expires, items |-> items]
           n == Len(docs)
<1>1. /\ at = "value" /\ keys = start /\ result = "none" /\ UNCHANGED <<req, found, start>>
      /\ todo \in Seq(Key) /\ todo # <<>> /\ docs \in Seq(ReadDoc)
      /\ PageRead /\ TypeRead
  BY DEF ReadValue, scanVars, ghostVars, WriteInv, Untouched, CallTypes, ReadInv
<1>2. CASE req.op # "find" \/ result' = "error"
  BY <1>1, <1>2 DEF ReadValue, GoTo, Return, ReadInv, PageRead, TypeRead, NothingRead,
     Succeeded
<1>3. CASE req.op = "find" /\ result' # "error"
  <2>1. /\ docs' = Append(docs, doc) /\ todo' = Tail(todo)
        /\ \/ Tail(todo) = <<>> /\ at' = "done"
           \/ Tail(todo) # <<>> /\ at' = "type" /\ UNCHANGED result
    BY <1>3 DEF ReadValue, GoTo, Return
  <2>2. /\ k = PageKeys[n + 1] /\ k \in There(start)
        /\ n \in Nat /\ Len(todo) \in Nat /\ Len(todo) >= 1
        /\ 0 <= First /\ First < Past /\ n + Len(todo) = Past - First
        /\ \A j \in 1..Len(todo) : todo[j] = PageKeys[n + j]
        /\ AsStarted
    BY <1>1, <1>3, ReadFromStart DEF PageRead
  <2>3. /\ doc.key = PageKeys[n + 1] /\ doc.type = start[PageKeys[n + 1]].type
        /\ doc.items = start[PageKeys[n + 1]].items
    BY <1>1, <1>3, <2>2 DEF There, TypeRead
  <2>4. /\ Len(docs') = n + 1 /\ docs'[n + 1] = doc
        /\ \A i \in 1..n : docs'[i] = docs[i]
    <3> HIDE DEF doc
    <3>1. doc \in ReadDoc
      <4> USE DEF doc
      <4>1. k \in Key /\ (Exists(keys, k) => keys[k] \in Value)
        BY <1>1, ReadHead
      <4>2. items \in SUBSET Items /\ reading.type \in Types /\ reading.expires \in BOOLEAN
        BY <1>1, <4>1 DEF Value, CallTypes, Reading
      <4> HIDE DEF k, items
      <4> QED BY <4>1, <4>2 DEF ReadDoc
    <3> QED BY <1>1, <2>1, <3>1, AppendProperties
  <2>5. /\ Len(todo') = Len(todo) - 1
        /\ \A j \in 1..Len(todo') : todo'[j] = todo[j + 1]
    BY <1>1, <2>1, HeadTailProperties
  <2> HIDE DEF doc, k
  <2>6. AsStarted'
    <3>1. \A i \in 1 .. n + 1 : i \in 1..n \/ i = n + 1
      BY <2>2
    <3>2. \A i \in 1..n : /\ docs[i].key = PageKeys[i]
                          /\ docs[i].type = start[PageKeys[i]].type
                          /\ docs[i].items = start[PageKeys[i]].items
      BY <2>2 DEF AsStarted
    <3>3. \A i \in 1 .. n + 1 : /\ docs'[i].key = PageKeys[i]
                               /\ docs'[i].type = start[PageKeys[i]].type
                               /\ docs'[i].items = start[PageKeys[i]].items
      BY <2>3, <2>4, <3>1, <3>2
    <3> QED BY <1>1, <2>4, <3>3, SamePage DEF AsStarted
  <2>7. \A j \in 1..Len(todo') : todo'[j] = PageKeys[(n + 1) + j]
    <3> SUFFICES ASSUME NEW j \in 1..Len(todo') PROVE todo'[j] = PageKeys[(n + 1) + j]
      OBVIOUS
    <3>1. j + 1 \in 1..Len(todo) /\ n + (j + 1) = (n + 1) + j
      BY <2>2, <2>5
    <3> QED BY <2>2, <2>5, <3>1
  <2>8. Tail(todo) = <<>> => Len(docs') = PageSize
    <3>1. Tail(todo) = <<>> => Len(todo) - 1 = 0
      BY <2>1, <2>5, EmptySeq
    <3> QED BY <2>2, <2>4, <3>1 DEF PageSize
  <2>9. Len(docs') + Len(todo') = Past - First
    BY <2>2, <2>4, <2>5
  <2>10. First' = First /\ Past' = Past /\ PageKeys' = PageKeys /\ PageSize' = PageSize
    BY <1>1, SamePage
  <2>11. PageRead'
    BY <1>1, <2>1, <2>2, <2>4, <2>6, <2>7, <2>8, <2>9, <2>10 DEF PageRead, Succeeded
  <2>12. TypeRead' /\ NothingRead'
    BY <2>1 DEF TypeRead, NothingRead
  <2> QED BY <2>11, <2>12 DEF ReadInv
<1> QED BY <1>2, <1>3

LEMMA TypeIsRead ==
    ASSUME KInv, CallTypes, Undisturbed, WriteInv, Scanned, ReadInv, ReadType \/ ReadTTL
    PROVE  ReadInv'
<1>1. /\ at \in {"type", "readttl"} /\ keys = start /\ result = "none"
      /\ UNCHANGED <<req, found, start, docs, todo>> /\ PageRead /\ TypeRead
  BY DEF ReadType, ReadTTL, scanVars, ghostVars, WriteInv, Untouched, CallTypes, ReadInv
<1>2. CASE at' = "done"
  BY <1>1, <1>2 DEF ReadType, ReadTTL, GoTo, Return, ReadInv, PageRead, TypeRead, NothingRead,
     Succeeded
<1>3. CASE at' # "done"
  <2>1. UNCHANGED result /\ at' \in {"readttl", "value"}
    BY <1>3 DEF ReadType, ReadTTL, GoTo, Return
  <2>2. TypeRead'
    <3>1. CASE ReadType
      <4>1. reading' = [reading EXCEPT !.type = keys[Head(todo)].type]
        BY <1>3, <3>1 DEF ReadType, Return
      <4> QED BY <1>1, <4>1 DEF CallTypes, Reading, TypeRead
    <3>2. CASE ReadTTL
      <4>1. at = "readttl" /\ \E e : reading' = [reading EXCEPT !.expires = e]
        BY <3>2 DEF ReadTTL
      <4>2. reading'.type = reading.type
        BY <4>1 DEF CallTypes, Reading
      <4> QED BY <1>1, <4>1, <4>2 DEF TypeRead
    <3> QED BY <3>1, <3>2
  <2>3. PageRead'
    <3>1. /\ First' = First /\ Past' = Past /\ PageKeys' = PageKeys /\ PageSize' = PageSize
          /\ (AsStarted' <=> AsStarted)
      BY <1>1, SamePage
    <3> QED BY <1>1, <2>1, <3>1 DEF PageRead, Succeeded
  <2>4. NothingRead'
    BY <2>1 DEF NothingRead
  <2> QED BY <2>2, <2>3, <2>4 DEF ReadInv
<1> QED BY <1>2, <1>3

LEMMA ReadStep ==
    ASSUME KInv, CallTypes, Counted, WriteInv, CollectionInv, ReadInv, [Next]_vars
    PROVE  ReadInv'
<1>1. CASE ~Undisturbed'
  BY <1>1 DEF ReadInv
<1>2. CASE Undisturbed'
  <2>1. Undisturbed /\ ~Others
    BY <1>2, DisturbedStays
  <2>2. Scanned
    BY <2>1 DEF CollectionInv
  <2>3. CASE ScanEnds \/ \E k \in Key : ScanReturns(k)
    <3>1. /\ at = "scan" /\ at' \in {"scan", "page", "unlink", "rename", "done"}
          /\ docs' = docs /\ result' = "ok" => req'.op # "find"
          /\ docs' = docs
      BY <2>3 DEF ScanEnds, ScanReturns, GoTo, Return, readVars, CallTypes
    <3> QED BY <2>1, <3>1 DEF ReadInv, PageRead, TypeRead, NothingRead, Succeeded
  <2>4. CASE \/ CheckExists \/ DeleteKey \/ WriteValue \/ ApplyTTL \/ Unlink \/ RenameKey
             \/ FlushDB \/ CommandFails
    <3>1. /\ at' \notin {"scan", "page", "type", "readttl", "value"}
          /\ result' = "ok" => req'.op # "find"
      BY <2>4 DEF CheckExists, DeleteKey, WriteValue, ApplyTTL, Unlink, RenameKey, FlushDB,
         CommandFails, GoTo, Return, ReturnReply, KInv, AtFits
    <3> QED BY <3>1 DEF ReadInv, PageRead, TypeRead, NothingRead, Succeeded
  <2>5. CASE UNCHANGED vars
    <3>1. UNCHANGED <<req, at, result, todo, found, docs, reading, start>>
      BY <2>5 DEF vars, scanVars, readVars, ghostVars
    <3>2. /\ First' = First /\ Past' = Past /\ PageKeys' = PageKeys /\ PageSize' = PageSize
          /\ (AsStarted' <=> AsStarted)
      BY <3>1, SamePage
    <3> QED BY <2>1, <3>1, <3>2 DEF ReadInv, PageRead, TypeRead, NothingRead, Succeeded
  <2> QED BY <2>1, <2>2, <2>3, <2>4, <2>5, PageIsRead, TypeIsRead, ValueIsRead
          DEF Next, Call, Returned
<1> QED BY <1>1, <1>2

\* Alone on the server, a find returns the page of the sorted collection and
\* stats counts it (documents.go:17-91, collections.go:170).
THEOREM LoneReadsAreExact == Spec => []LoneReadIsExact
<1>1. ASSUME KInv, CallTypes, CollectionInv, ReadInv PROVE LoneReadIsExact
  <2>1. ASSUME Undisturbed, Succeeded({"find"})
        PROVE  /\ Len(docs) = Cardinality(PageOf)
               /\ \A i \in 1..Len(docs) :
                     /\ docs[i].key \in PageOf
                     /\ Place(docs[i].key) = req.skip + i - 1
                     /\ docs[i].type = start[docs[i].key].type
                     /\ docs[i].items = start[docs[i].key].items
    <3>1. /\ req.op = "find" /\ at = "done" /\ result = "ok" /\ Scanned
          /\ req \in Request /\ found \in Seq(Key)
          /\ 0 <= First /\ Len(docs) = PageSize /\ AsStarted
      BY <1>1, <2>1 DEF Succeeded, CallTypes, CollectionInv, KInv, Collected, ReadInv, PageRead
    <3>2. Elements(found) = Sources
      BY <1>1, <3>1, FoundIsCollection DEF Grouped
    <3>3. Distinct(found)
      BY <3>1 DEF Scanned
    <3> QED BY <3>1, <3>2, <3>3, PageIsExact DEF AsStarted
  <2>2. ASSUME Undisturbed, Succeeded({"stats"})
        PROVE  Len(found) = Cardinality(Sources)
    <3>1. /\ req.op = "stats" /\ at = "done" /\ result = "ok" /\ Scanned
          /\ found \in Seq(Key) /\ Len(found) \in Nat
      BY <1>1, <2>2, LenProperties DEF Succeeded, CallTypes, CollectionInv, KInv, Collected
    <3>2. Elements(found) = Sources /\ Distinct(found)
      BY <1>1, <3>1, FoundIsCollection DEF Grouped, Scanned
    <3>3. Cardinality({found[i] : i \in 1..Len(found)}) = Cardinality(1..Len(found))
      BY <3>1, <3>2, DistinctCount
    <3>4. Cardinality(1..Len(found)) = Len(found)
      BY <3>1, CountTo
    <3> QED BY <3>2, <3>3, <3>4 DEF Elements
  <2> QED BY <2>1, <2>2 DEF LoneReadIsExact, PageOf, Place, Sources
<1> QED
  BY <1>1, CallInvariant, WritesInvariant, CollectionInvariant, ReadInitially, ReadStep, PTL
  DEF Spec
-----------------------------------------------------------------------------
(***************************************************************************)
(* A rename of a prefix that nobody disturbs                               *)
(***************************************************************************)

\* No two keys with one prefix get the same new name.
LEMMA TargetsDiffer ==
    ASSUME req \in Request, req.op = "rename", req.coll # NoPrefix,
           \A k \in Sources : Fits(k, req.to)
    PROVE  /\ \A k \in Sources : k \in Key /\ Target(k) \in Key
           /\ \A j, k \in Sources : Target(j) = Target(k) => j = k
<1>1. \A k \in Sources : k \in Key /\ k.text = req.coll /\ k.rest \in Rests
  BY DEF Sources, Group, There
<1>2. \A k \in Sources : Target(k) \in Key
  BY <1>1, TargetKey
<1>3. ASSUME NEW j \in Sources, NEW k \in Sources, Target(j) = Target(k) PROVE j = k
  <2>1. j.rest # Bare /\ k.rest # Bare
    BY <1>1, RedisAssumption DEF Bare
  <2>2. After(req.to, j.rest) = After(req.to, k.rest)
    BY <1>3, <2>1 DEF Target
  <2>3. j.rest = k.rest
    <3>1. CASE req.to.rest = Bare
      BY <2>2, <3>1 DEF After
    <3>2. CASE req.to.rest # Bare
      <4> DEFINE p == <<req.to.rest, j.rest>>
                 q == <<req.to.rest, k.rest>>
      <4>1. p \in DOMAIN Joined /\ q \in DOMAIN Joined
        BY <2>1, <3>2 DEF Fits
      <4>2. Joined[p] = Joined[q]
        BY <2>2, <3>2 DEF After
      <4>3. p[1] = q[1] /\ p[2] = j.rest /\ q[2] = k.rest
        OBVIOUS
      <4> HIDE DEF p, q
      <4>4. p = q
        BY <4>1, <4>2, <4>3, RedisAssumption
      <4> QED BY <4>3, <4>4
    <3> QED BY <3>1, <3>2
  <2> QED BY <1>1, <2>3 DEF Key
<1> QED BY <1>1, <1>2, <1>3

\* A new name without a ":" is never the name of another key of the collection.
LEMMA PlainNames ==
    ASSUME req \in Request, req.op = "rename", req.coll # NoPrefix, req.to.rest = Bare
    PROVE  NoChain
<1>1. ASSUME NEW k \in Sources, Target(k) \in Sources PROVE Target(k) = k
  <2>1. \A j \in Sources : j \in Key /\ j.text = req.coll /\ j.rest \in Rests
    BY DEF Sources, Group, There
  <2>2. k.rest # Bare
    BY <2>1, RedisAssumption DEF Bare
  <2>3. Target(k) = [text |-> req.to.text, rest |-> k.rest]
    BY <2>2 DEF Target, After
  <2>4. req.to.text = req.coll
    BY <1>1, <2>1, <2>3
  <2> QED BY <2>1, <2>3, <2>4 DEF Key
<1> QED BY <1>1 DEF NoChain

\* The new name has no ":", or it leads to no key still to be renamed.
SafeName == req.to.rest = Bare \/ NoChain

\* What such a rename leaves, in terms of the keys that were there.
LEMMA PrefixedRename ==
    ASSUME KInv, CollectionInv, Undisturbed, Succeeded({"rename"}),
           req.coll # NoPrefix, SafeName
    PROVE  /\ NoChain
           /\ \A k \in Sources : k \in Key /\ Target(k) \in Key /\ keys[Target(k)] = start[k]
           /\ \A j, k \in Sources : Target(j) = Target(k) => j = k
           /\ \A k \in Sources \ Targets(Sources) : keys[k] = Absent
           /\ \A k \in (Key \ Sources) \ Targets(Sources) : keys[k] = start[k]
<1>1. req.op = "rename" /\ req \in Request /\ Moved(keys, Sources)
  BY DEF Succeeded, KInv, CollectionInv, Renamed
<1>2. NoChain
  BY <1>1, PlainNames DEF SafeName
<1>3. /\ \A k \in Sources : k \in Key /\ Target(k) \in Key
      /\ \A j, k \in Sources : Target(j) = Target(k) => j = k
  BY <1>1, TargetsDiffer DEF Moved
<1>4. ASSUME NEW k \in Sources PROVE keys[Target(k)] = start[k]
  <2>1. PICK j \in Sources : Target(j) = Target(k) /\ keys[Target(k)] = start[j]
    BY <1>1, <1>2 DEF Moved
  <2>2. j = k
    BY <1>3, <2>1
  <2> QED BY <2>1, <2>2
<1>5. /\ \A k \in Sources \ Targets(Sources) : keys[k] = Absent
      /\ \A k \in (Key \ Sources) \ Targets(Sources) : keys[k] = start[k]
  BY <1>1 DEF Moved
<1> QED BY <1>2, <1>3, <1>4, <1>5

\* Alone on the server, a rename of a collection with a prefix gives every key's
\* value to the key of its new name, when the new name has no ":" or leads to no
\* key still to be renamed: what redis_rename shows happens to the keys without
\* a prefix and to renames along a chain only (collections.go:116-152).
PrefixedKeysMove ==
    Undisturbed /\ Succeeded({"rename"}) /\ req.coll # NoPrefix /\ SafeName =>
        \A k \in Sources : keys[Target(k)] = start[k]

THEOREM PrefixedRenamesMoveEveryKey == Spec => []PrefixedKeysMove
<1>1. KInv /\ CollectionInv => PrefixedKeysMove
  BY PrefixedRename DEF PrefixedKeysMove
<1> QED BY <1>1, KeysInvariant, CollectionInvariant, PTL

\* Where no key outside the group has a new name, the keys before and after are
\* in one-to-one correspondence.
LEMMA RenameIsBijection ==
    ASSUME KInv, CollectionInv, Undisturbed, Succeeded({"rename"}),
           req.coll # NoPrefix, SafeName,
           \A k \in Sources : Target(k) \notin There(start) \ Group(req.coll)
    PROVE  ExistsBijection(There(start), There(keys))
<1> DEFINE f == [k \in There(start) |-> IF k \in Sources THEN Target(k) ELSE k]
<1>0. /\ Sources \subseteq There(start)
      /\ \A k \in There(start) : k \in Key /\ start[k] # Absent /\ (k \in Sources <=> k \in Group(req.coll))
      /\ \A k : k \in There(keys) <=> k \in Key /\ keys[k] # Absent
  BY DEF Sources, There, Exists
<1>1. /\ \A k \in Sources : Target(k) \in Key /\ keys[Target(k)] = start[k]
      /\ \A j, k \in Sources : Target(j) = Target(k) => j = k
      /\ \A k \in Sources \ Targets(Sources) : keys[k] = Absent
      /\ \A k \in (Key \ Sources) \ Targets(Sources) : keys[k] = start[k]
  BY PrefixedRename
<1>3. \A k \in There(start) \ Sources : k \notin Targets(Sources)
  BY <1>0 DEF Targets
<1>4. \A k \in There(start) : f[k] \in There(keys)
  BY <1>0, <1>1, <1>3
<1>5. \A j, k \in There(start) : f[j] = f[k] => j = k
  BY <1>0, <1>1, <1>3 DEF Targets
<1>6. ASSUME NEW t \in There(keys) PROVE \E k \in There(start) : f[k] = t
  <2>1. CASE t \in Targets(Sources)
    <3>1. PICK k \in Sources : Target(k) = t
      BY <2>1 DEF Targets
    <3> QED BY <1>0, <3>1
  <2>2. CASE t \notin Targets(Sources)
    <3>1. t \in Key /\ keys[t] # Absent
      BY <1>0
    <3>2. t \notin Sources
      BY <1>1, <2>2, <3>1
    <3>3. start[t] # Absent
      BY <1>1, <2>2, <3>1, <3>2
    <3>4. t \in There(start)
      BY <3>1, <3>3 DEF There, Exists
    <3> QED BY <3>2, <3>4
  <2> QED BY <2>1, <2>2
<1>7. f \in [There(start) -> There(keys)]
  BY <1>4
<1> HIDE DEF f
<1>8. f \in Bijection(There(start), There(keys))
  BY <1>5, <1>6, <1>7 DEF Bijection, Injection, Surjection, IsInjective
<1> QED BY <1>8 DEF ExistsBijection

\* From a finite database, what the comment of RenameCollection says holds of
\* every rename of a collection with a prefix to such a name (collections.go:116).
PrefixedRenameKeepsEveryKey ==
    IsFiniteSet(There(start)) /\ req.coll # NoPrefix /\ SafeName => RenameKeepsEveryKey

THEOREM PrefixedRenamesKeepEveryKey == Spec => []PrefixedRenameKeepsEveryKey
<1>1. ASSUME KInv, CollectionInv
      PROVE  PrefixedRenameKeepsEveryKey
  <2> SUFFICES ASSUME IsFiniteSet(There(start)), req.coll # NoPrefix, SafeName,
                      Undisturbed, Succeeded({"rename"}),
                      \A k \in Sources : Target(k) \notin There(start) \ Group(req.coll)
               PROVE  Cardinality(There(keys)) = Cardinality(There(start))
    BY DEF PrefixedRenameKeepsEveryKey, RenameKeepsEveryKey
  <2>1. ExistsBijection(There(start), There(keys))
    BY <1>1, RenameIsBijection
  <2> QED BY <2>1, FS_Bijection
<1> QED BY <1>1, KeysInvariant, CollectionInvariant, PTL
=============================================================================

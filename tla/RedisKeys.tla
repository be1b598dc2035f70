----------------------------- MODULE RedisKeys -----------------------------
(***************************************************************************)
(* pkg/redis: one call of the driver on the keys of one database.  A       *)
(* method is a sequence of Redis commands, each atomic at the server, with *)
(* nothing around them; between two of them any other client of that       *)
(* server, other calls of this program included, may write or delete a key *)
(* (Others).  A behaviour is one call, from any keyspace.                  *)
(*                                                                         *)
(*   InsertOne    write ttl                                                *)
(*   ReplaceOne   exists del write ttl                                     *)
(*   DeleteOne    del                                                      *)
(*   FindOne      type readttl value                                       *)
(*   Find         scan page (type readttl value)*                          *)
(*   Drop         scan unlink         Rename   scan rename*                *)
(*   List, Stats  scan                DropDatabase   flush                 *)
(***************************************************************************)
EXTENDS Integers, Sequences, FiniteSets, SequencesExt

CONSTANTS Texts,       \* what stands before the first ":", in string order
          Rests,       \* what stands after it
          NoPrefix,    \* noPrefixCollection, a text like any other
          Joined,      \* Joined[<<r, s>>] is the rest "r:s", within a bound
          NewNames,    \* what a collection may be renamed to
          MergeTypes,  \* hash, list, set, zset: writing one adds to the key
          Items,       \* what values are made of
          Docs,        \* the documents a client may send
          Skips, Limits,  \* a find's parameters, past the parsing
          Starts,      \* the keyspaces a call may find
          OtherValues, \* what other clients write
          MaxOthers,   \* bound: commands of other clients during the call
          MaxRepeats   \* bound: keys SCAN returns more than once

\* "a:1" is [text |-> a, rest |-> 1].  A key with no ":" has rest Bare.
Bare == 0
Key == [text : Texts, rest : Rests \cup {Bare}]
Colls == Texts \cup {NoPrefix}

Types == MergeTypes \cup {"string"}
Value == {v \in [type : Types, items : SUBSET Items, expires : BOOLEAN] :
             v.type \in MergeTypes => v.items # {}}
Absent == [type |-> "none"]
Keyspaces == [Key -> Value \cup {Absent}]

\* type is "invalid" for an unknown type and for a value that does not have
\* the shape of its type; ttl tells apart what applyKeyTTL does.
Doc == [type : Types \cup {"invalid"}, items : SUBSET Items,
        ttl : {"absent", "clear", "set", "fraction", "invalid"}]

Request == [op : {"insert", "replace"}, key : Key, doc : Docs]
    \cup [op : {"delete", "findone"}, key : Key]
    \cup [op : {"find"}, coll : Colls, skip : Skips, limit : Limits]
    \cup [op : {"stats", "drop"}, coll : Colls]
    \cup [op : {"rename"}, coll : Colls, to : NewNames]
    \cup [op : {"list", "flush"}]
Scanning == {"find", "stats", "drop", "rename", "list"}

ASSUME RedisAssumption ==
    /\ Texts \subseteq Nat /\ NoPrefix \in Nat
    /\ Rests \subseteq Nat \ {Bare}
    /\ NewNames \subseteq Key  \* any string but "", one with a ":" too
    /\ DOMAIN Joined \subseteq Rests \X Rests
    /\ \A p \in DOMAIN Joined : Joined[p] \in Rests
    /\ \A p, q \in DOMAIN Joined :  \* "r:s" = "r:t" only if s = t
          p[1] = q[1] /\ Joined[p] = Joined[q] => p = q
    /\ "string" \notin MergeTypes
    /\ "none" \notin MergeTypes
    /\ Docs \subseteq Doc
    /\ Skips \subseteq Int /\ Limits \subseteq Int
    /\ Starts \subseteq Keyspaces
    /\ OtherValues \subseteq Value \cup {Absent}
    /\ MaxOthers \in Nat /\ MaxRepeats \in Nat

VARIABLES keys,    \* the database
          req,     \* the call
          at,      \* the command it sends next
          result,  \* what it returned
          found,   \* the keys its scan collected, in the order of the scan
          todo,    \* the keys it has still to read or to rename
          reading, \* type and ttl of the key it is reading
          docs,    \* the documents it has read
          seen,    \* the keys SCAN has returned
          repeats, \* how often SCAN returned one again
          start,   \* the database when the call began
          stood,   \* the keys nobody else deleted since
          others   \* the commands of other clients since

scanVars == <<found, seen, repeats>>
readVars == <<reading, docs>>
ghostVars == <<start, stood, others>>
vars == <<keys, req, at, result, todo, scanVars, readVars, ghostVars>>

Reading == [type : Types \cup {"none"}, expires : BOOLEAN]
ReadDoc == [key : Key, type : Types, expires : BOOLEAN, items : SUBSET Items]
Points == {"scan", "page", "exists", "del", "write", "ttl", "type", "readttl",
           "value", "unlink", "rename", "flush", "done"}

\* The database and what a call keeps stay in their types; while a call
\* reads or renames there is a key left to do, and it returns exactly once.
TypeOK ==
    /\ keys \in Keyspaces
    /\ req \in Request
    /\ at \in Points
    /\ result \in {"none", "ok", "notfound", "error", "panic"}
    /\ at = "done" <=> result # "none"
    /\ found \in Seq(Key)
    /\ todo \in Seq(Key)
    /\ at \in {"type", "readttl", "value", "rename"} => todo # <<>>
    /\ reading \in Reading
    /\ docs \in Seq(ReadDoc)
    /\ seen \in SUBSET Key
    /\ repeats \in 0..MaxRepeats
    /\ start \in Keyspaces
    /\ stood \in SUBSET Key
    /\ others \in 0..MaxOthers

Exists(ks, k) == ks[k] # Absent

FirstCommand(r) ==
    CASE r.op \in Scanning -> "scan"
      [] r.op = "insert" -> "write"
      [] r.op = "replace" -> "exists"
      [] r.op = "delete" -> "del"
      [] r.op = "findone" -> "type"
      [] r.op = "flush" -> "flush"

Init ==
    /\ keys \in Starts
    /\ req \in Request
    /\ at = FirstCommand(req)
    /\ result = "none"
    /\ found = <<>>
    /\ todo = IF req.op = "findone" THEN <<req.key>> ELSE <<>>
    /\ reading = [type |-> "none", expires |-> FALSE]
    /\ docs = <<>>
    /\ seen = {}
    /\ repeats = 0
    /\ start = keys
    /\ stood = {k \in Key : Exists(keys, k)}
    /\ others = 0

GoTo(point) == at' = point /\ UNCHANGED result
Return(r) == at' = "done" /\ result' = r

\* The reply to a command may be lost after the server ran it.
ReturnReply(r) == Return(r) \/ Return("error")

Store(k, value) == keys' = [keys EXCEPT ![k] = value]

\* Any command may fail before the server runs it: a broken connection, a
\* cancelled request.
CommandFails ==
    /\ at \notin {"page", "done"}
    /\ Return("error")
    /\ UNCHANGED <<keys, req, todo, scanVars, readVars, ghostVars>>

-----------------------------------------------------------------------------
(* scanKeys.  SCAN returns every key that is there throughout; any other   *)
(* key may come or not, and any key may come again.                        *)

\* Mutant of CollectionOf: a key without a delimiter is its own collection.
CollectionOfBareText(k) == k.text

CollectionOf(k) == IF k.rest = Bare THEN NoPrefix ELSE k.text

Matches(k) == req.op = "list" \/ req.coll = CollectionOf(k)

ScanReturns(k) ==
    /\ at = "scan"
    /\ Exists(keys, k)
    /\ \/ k \notin seen /\ UNCHANGED repeats
       \/ k \in seen /\ repeats < MaxRepeats /\ repeats' = repeats + 1
    /\ seen' = seen \cup {k}
    /\ found' = IF Matches(k) THEN Append(found, k) ELSE found
    /\ UNCHANGED <<keys, req, at, result, todo, readVars, ghostVars>>

\* Mutant of ScanCovers: the walk stops at the first non-empty reply.
ScanCoversSome == stood # {} => seen # {}

\* What the cursor guarantees when it comes back to 0.
ScanCovers == stood \subseteq seen

\* Mutant of NoneFound: an empty collection is renamed like any other.
NoneFoundIgnored == FALSE

NoneFound == found = <<>>

\* Find sorts what it found; DropCollection and RenameCollection answer
\* ErrNotFound to an empty scan, the others go on with it.
ScanEnds ==
    /\ at = "scan"
    /\ ScanCovers
    /\ \/ req.op \in {"list", "stats"} /\ Return("ok") /\ UNCHANGED todo
       \/ /\ req.op \in {"drop", "rename"} /\ NoneFound
          /\ Return("notfound") /\ UNCHANGED todo
       \/ req.op = "drop" /\ ~NoneFound /\ GoTo("unlink") /\ UNCHANGED todo
       \/ req.op = "rename" /\ ~NoneFound /\ GoTo("rename") /\ todo' = found
       \/ req.op = "find" /\ GoTo("page") /\ UNCHANGED todo
    /\ UNCHANGED <<keys, req, scanVars, readVars, ghostVars>>

-----------------------------------------------------------------------------
(* Reading keys: Find, FindOne.                                            *)

\* sort.Strings
Precedes(k, l) == k.text < l.text \/ (k.text = l.text /\ k.rest < l.rest)

\* Where sort.Strings puts the i-th key of s: as many go before it as are less,
\* or are the same key and came earlier.
Rank(s, i) ==
    Cardinality({j \in DOMAIN s : Precedes(s[j], s[i]) \/ (s[j] = s[i] /\ j <= i)})

Sorted(s) == [r \in DOMAIN s |-> s[CHOOSE i \in DOMAIN s : Rank(s, i) = r]]

Lesser(a, b) == IF a < b THEN a ELSE b

\* Mutant of PageEnd: limit counts from the first key, not from skip.
PageEndFromZero(total, skip, limit) ==
    IF limit > 0 THEN Lesser(limit, total) ELSE total

PageEnd(total, skip, limit) ==
    IF limit > 0 THEN Lesser(Lesser(skip, total) + limit, total) ELSE total

\* keys[start:end] panics outside the slice; fiber's recover answers 500.
Page ==
    LET total == Len(found)
        first == Lesser(req.skip, total)
        last == PageEnd(total, req.skip, req.limit)
        page == SubSeq(Sorted(found), first + 1, last)
    IN  /\ at = "page"
        /\ \/ first < 0 /\ Return("panic") /\ UNCHANGED todo
           \/ first >= 0 /\ first >= last /\ Return("ok") /\ UNCHANGED todo
           \/ first >= 0 /\ first < last /\ GoTo("type") /\ todo' = page
        /\ UNCHANGED <<keys, req, scanVars, readVars, ghostVars>>

\* readKeyDoc: TYPE, then TTL, then the read command of that type.
ReadType ==
    /\ at = "type"
    /\ IF Exists(keys, Head(todo))
       THEN /\ GoTo("readttl")
            /\ reading' = [reading EXCEPT !.type = keys[Head(todo)].type]
       ELSE Return("notfound") /\ UNCHANGED reading
    /\ UNCHANGED <<keys, req, todo, docs, scanVars, ghostVars>>

\* A failed TTL is taken for no expiry.
ReadTTL ==
    /\ at = "readttl"
    /\ GoTo("value")
    /\ \E answered \in BOOLEAN : reading' = [reading EXCEPT !.expires =
          answered /\ Exists(keys, Head(todo)) /\ keys[Head(todo)].expires]
    /\ UNCHANGED <<keys, req, todo, docs, scanVars, ghostVars>>

\* Mutant of ReadFails: a value of another type is read as it is.
ReadFailsIfGone(value) == value = Absent /\ reading.type = "string"

\* GET of a missing key is an error, the others read it as empty; every
\* one of them refuses a value of another type.
ReadFails(value) ==
    \/ value = Absent /\ reading.type = "string"
    \/ value # Absent /\ value.type # reading.type

ReadValue ==
    LET k == Head(todo)
        items == IF Exists(keys, k) THEN keys[k].items ELSE {}
    IN  /\ at = "value"
        /\ IF ReadFails(keys[k])
           THEN Return("error") /\ UNCHANGED <<docs, todo>>
           ELSE /\ docs' = Append(docs, [key |-> k, type |-> reading.type,
                              expires |-> reading.expires, items |-> items])
                /\ todo' = Tail(todo)
                /\ IF Tail(todo) = <<>> THEN Return("ok") ELSE GoTo("type")
        /\ UNCHANGED <<keys, req, reading, scanVars, ghostVars>>

-----------------------------------------------------------------------------
(* Writing keys: InsertOne, ReplaceOne, DeleteOne and the collections.     *)

CheckExists ==
    /\ at = "exists"
    /\ IF Exists(keys, req.key) THEN GoTo("del") ELSE Return("notfound")
    /\ UNCHANGED <<keys, req, todo, scanVars, readVars, ghostVars>>

\* Mutant of DeleteKey: ReplaceOne leaves the old value for the write.
DeleteKeyUnlessReplacing ==
    /\ at = "del"
    /\ IF req.op = "replace" THEN GoTo("write") /\ UNCHANGED keys
       ELSE /\ Store(req.key, Absent)
            /\ ReturnReply(IF Exists(keys, req.key) THEN "ok" ELSE "notfound")
    /\ UNCHANGED <<req, todo, scanVars, readVars, ghostVars>>

\* ReplaceOne ignores how many keys DEL found, DeleteOne does not.
DeleteKey ==
    /\ at = "del"
    /\ Store(req.key, Absent)
    /\ IF req.op = "replace" THEN GoTo("write")
       ELSE ReturnReply(IF Exists(keys, req.key) THEN "ok" ELSE "notfound")
    /\ UNCHANGED <<req, todo, scanVars, readVars, ghostVars>>

\* The server's side of SET, HSET, RPUSH, SADD and ZADD: SET replaces the
\* value and its expiry, the others add to a value of their type.
Written(old, type, items) ==
    IF old = Absent \/ type = "string"
    THEN [type |-> type, items |-> items, expires |-> FALSE]
    ELSE [old EXCEPT !.items = @ \cup items]

\* writeKeyValue.  An empty container sends no command.
WriteValue ==
    LET old == keys[req.key]
        doc == req.doc
    IN  /\ at = "write"
        /\ \/ doc.type = "invalid" /\ Return("error") /\ UNCHANGED keys
           \/ /\ doc.type \in MergeTypes /\ doc.items = {}
              /\ GoTo("ttl") /\ UNCHANGED keys
           \/ /\ doc.type \in MergeTypes /\ doc.items # {}
              /\ old # Absent /\ old.type # doc.type  \* WRONGTYPE
              /\ Return("error") /\ UNCHANGED keys
           \/ /\ \/ doc.type = "string"
                 \/ /\ doc.type \in MergeTypes /\ doc.items # {}
                    /\ (old = Absent \/ old.type = doc.type)
              /\ GoTo("ttl")
              /\ Store(req.key, Written(old, doc.type, doc.items))
        /\ UNCHANGED <<req, todo, scanVars, readVars, ghostVars>>

\* PERSIST and EXPIRE on a key that is there.  time.Duration(secs) drops the
\* fraction, and EXPIRE in 0 seconds deletes the key.
Expiring(value, ttl) ==
    CASE ttl = "clear" -> [value EXCEPT !.expires = FALSE]
      [] ttl = "set" -> [value EXCEPT !.expires = TRUE]
      [] ttl = "fraction" -> Absent

\* applyKeyTTL.  Neither command minds a missing key.
ApplyTTL ==
    LET old == keys[req.key]
        ttl == req.doc.ttl
    IN  /\ at = "ttl"
        /\ \/ ttl = "absent" /\ Return("ok") /\ UNCHANGED keys
           \/ ttl = "invalid" /\ Return("error") /\ UNCHANGED keys
           \/ /\ ttl \in {"clear", "set", "fraction"}
              /\ ReturnReply("ok")
              /\ IF old = Absent THEN UNCHANGED keys
                 ELSE Store(req.key, Expiring(old, ttl))
        /\ UNCHANGED <<req, todo, scanVars, readVars, ghostVars>>

\* Mutant of Unlink: one key per collection goes.
UnlinkFirst ==
    /\ at = "unlink"
    /\ Store(Head(found), Absent)
    /\ ReturnReply("ok")
    /\ UNCHANGED <<req, todo, scanVars, readVars, ghostVars>>

\* UNLINK takes all the keys in one command.
Unlink ==
    /\ at = "unlink"
    /\ keys' = [k \in Key |-> IF Contains(found, k) THEN Absent ELSE keys[k]]
    /\ ReturnReply("ok")
    /\ UNCHANGED <<req, todo, scanVars, readVars, ghostVars>>

\* What follows the first ":" of newName + ":" + rest.
After(to, rest) == IF to.rest = Bare THEN rest ELSE Joined[<<to.rest, rest>>]

\* Mutant of RenamedKey: only the text before the first delimiter of the new
\* name is taken.
RenamedKeyCut(k, to) == [text |-> to.text, rest |-> k.rest]

\* newName, with what follows the first delimiter of the key if it has one.
RenamedKey(k, to) ==
    IF k.rest = Bare THEN to ELSE [text |-> to.text, rest |-> After(to, k.rest)]

\* The bound on the length of a name: "r:s" is one of Rests.
Fits(k, to) == k.rest = Bare \/ to.rest = Bare \/ <<to.rest, k.rest>> \in DOMAIN Joined

\* RENAME overwrites its target and fails on a missing key; keys already
\* renamed stay renamed.
RenameKey ==
    LET k == Head(todo)
        new == RenamedKey(k, req.to)
    IN  /\ at = "rename"
        /\ Fits(k, req.to)
        /\ IF Exists(keys, k)
           THEN /\ keys' = [keys EXCEPT ![k] = Absent, ![new] = keys[k]]
                /\ todo' = Tail(todo)
                /\ IF Tail(todo) = <<>> THEN ReturnReply("ok")
                   ELSE GoTo("rename")
           ELSE Return("error") /\ UNCHANGED <<keys, todo>>
        /\ UNCHANGED <<req, scanVars, readVars, ghostVars>>

\* DropDatabase
FlushDB ==
    /\ at = "flush"
    /\ keys' = [k \in Key |-> Absent]
    /\ ReturnReply("ok")
    /\ UNCHANGED <<req, todo, scanVars, readVars, ghostVars>>

-----------------------------------------------------------------------------
\* The other clients of the server: a write, a delete, an expiry.
Others ==
    /\ at # "done"
    /\ others < MaxOthers
    /\ \E k \in Key, value \in OtherValues :
          /\ value # keys[k]
          /\ Store(k, value)
          /\ stood' = IF value = Absent THEN stood \ {k} ELSE stood
    /\ others' = others + 1
    /\ UNCHANGED <<req, at, result, todo, scanVars, readVars, start>>

Call ==
    \/ \E k \in Key : ScanReturns(k)
    \/ ScanEnds
    \/ Page \/ ReadType \/ ReadTTL \/ ReadValue
    \/ CheckExists \/ DeleteKey \/ WriteValue \/ ApplyTTL
    \/ Unlink \/ RenameKey \/ FlushDB
    \/ CommandFails

\* The call has returned.
Returned == at = "done" /\ UNCHANGED vars

Next == Call \/ Others \/ Returned

Spec == Init /\ [][Next]_vars

-----------------------------------------------------------------------------
\* What a collection is: the keys with its prefix, and under NoPrefix those
\* without one too.
Group(coll) == [text : Texts \cap {coll}, rest : Rests]
    \cup (IF coll = NoPrefix THEN [text : Texts, rest : {Bare}] ELSE {})

There(ks) == {k \in Key : Exists(ks, k)}

\* The key a rename promises for k: the new name for its prefix.
Target(k) == IF k.rest = Bare THEN req.to
             ELSE [text |-> req.to.text, rest |-> After(req.to, k.rest)]
Sources == There(start) \cap Group(req.coll)
Undisturbed == others = 0 /\ repeats = 0
Succeeded(ops) == result = "ok" /\ req.op \in ops
SameBut(S) == \A k \in Key \ S : keys[k] = start[k]

\* What a client that knows the driver expects of a write on top of old.
LeftBehind(old, doc) ==
    CASE doc.ttl = "fraction" -> Absent
      [] doc.ttl # "fraction" /\ doc.type # "string" /\ old # Absent ->
            [old EXCEPT !.items = @ \cup doc.items,
                        !.expires = doc.ttl = "set" \/ (doc.ttl = "absent" /\ @)]
      [] doc.ttl # "fraction" /\ doc.type # "string" /\ old = Absent
            /\ doc.items = {} -> Absent
      [] OTHER -> [type |-> doc.type, items |-> doc.items,
                   expires |-> doc.ttl = "set"]

\* Alone on the server, the four commands of a write add up to one: a
\* replace leaves exactly the document, nothing of the old value, type or
\* expiry; an insert overwrites a string and adds to a container; a delete
\* deletes; not found means nothing happened (documents.go:160-275).
LoneWriteIsExact ==
    Undisturbed =>
        /\ Succeeded({"insert"}) =>
              /\ keys[req.key] = LeftBehind(start[req.key], req.doc)
              /\ SameBut({req.key})
        /\ Succeeded({"replace"}) =>
              /\ keys[req.key] = LeftBehind(Absent, req.doc)
              /\ SameBut({req.key})
        /\ Succeeded({"delete"}) =>
              keys[req.key] = Absent /\ SameBut({req.key})
        /\ result = "notfound" => keys = start

\* No new name is the name of a key still to be renamed to another.
NoChain == \A k \in Sources : Target(k) \in Sources => Target(Target(k)) = Target(k)

\* Alone on the server, a drop takes the collection and nothing else; a rename
\* touches only the keys of the collection and their new names, leaves no old
\* name that is not a new one, and puts only values of the collection there.
\* Where no new name is itself to be renamed, each is left with the value of a
\* key it is the new name of, expiry included (collections.go:87-152).
LoneCollectionCallIsExact ==
    Undisturbed =>
        /\ Succeeded({"drop"}) =>
              /\ There(keys) = There(start) \ Group(req.coll)
              /\ SameBut(Group(req.coll))
        /\ Succeeded({"rename"}) =>
              LET targets == {Target(k) : k \in Sources}
              IN  /\ SameBut(Sources \cup targets)
                  /\ \A k \in Sources \ targets : keys[k] = Absent
                  /\ \A t \in targets :
                        keys[t] = Absent \/ \E k \in Sources : keys[t] = start[k]
                  /\ NoChain => \A t \in targets :
                        \E k \in Sources : Target(k) = t /\ keys[t] = start[k]

\* Alone on the server, Find returns the documents of the collection from
\* skip on, limit of them or all, as they are but for an expiry it could not
\* read, and Stats counts them all (documents.go:17-91, collections.go:170).
LoneReadIsExact ==
    Undisturbed =>
        /\ Succeeded({"find"}) =>
              LET group == There(start) \cap Group(req.coll)
                  Place(k) == Cardinality({l \in group : Precedes(l, k)})
                  page == {k \in group : Place(k) >= req.skip
                      /\ (req.limit > 0 => Place(k) < req.skip + req.limit)}
              IN  /\ Len(docs) = Cardinality(page)
                  /\ \A i \in 1..Len(docs) :
                        /\ docs[i].key \in page
                        /\ Place(docs[i].key) = req.skip + i - 1
                        /\ docs[i].type = start[docs[i].key].type
                        /\ docs[i].items = start[docs[i].key].items
        /\ Succeeded({"stats"}) =>
              Len(found) = Cardinality(There(start) \cap Group(req.coll))

\* Whatever others do, a key of the collection that nobody deleted is
\* counted: the total of Find and Stats is never short of it, and no such key
\* is missing from a list or escapes a rename (collections.go:13-37).
ScanMissesNothing ==
    req.op \in Scanning /\ at # "scan" /\ result # "error" =>
        \A k \in stood : req.op = "list" \/ k \in Group(req.coll)
            => Contains(found, k)

\* Whatever others do, a drop ends with none of the keys that were there all
\* along (collections.go:87).
DropLeavesNothing ==
    [][at = "unlink" /\ result' = "ok" =>
          \A k \in stood \cap Group(req.coll) : ~Exists(keys', k)]_vars

\* Whatever others do, a call touches no key but its own: the key of its ID,
\* the keys of its collection, their new names.
Scope ==
    CASE req.op \in {"insert", "replace", "delete"} -> {req.key}
      [] req.op = "drop" -> Group(req.coll)
      [] req.op = "rename" ->
            Group(req.coll)
                \cup {Target(k) : k \in {g \in Group(req.coll) : Fits(g, req.to)}}
      [] req.op = "flush" -> Key
      [] OTHER -> {}

OnlyOwnKeys ==
    [][others' = others => \A k \in Key \ Scope : keys'[k] = keys[k]]_vars

\* Whatever others do between TYPE and the read, a document never shows the
\* content of one type under the name of another: its type and content are
\* the key's at the time of the read, or it is an empty container for a key
\* that has gone (documents.go:94-158).
ReadsAreWhole ==
    [][docs' # docs =>
          LET doc == Last(docs')
          IN  \/ /\ Exists(keys, doc.key)
                 /\ doc.type = keys[doc.key].type
                 /\ doc.items = keys[doc.key].items
              \/ /\ ~Exists(keys, doc.key)
                 /\ doc.type \in MergeTypes /\ doc.items = {}]_vars

\* "RenameCollection renames every key in oldName's group by swapping its
\* prefix for newName" (collections.go:116): where no new name is taken by a key
\* outside the group, as many keys are there after it as before.
RenameKeepsEveryKey ==
    Undisturbed /\ Succeeded({"rename"})
        /\ (\A k \in Sources : Target(k) \notin There(start) \ Group(req.coll))
    => Cardinality(There(keys)) = Cardinality(There(start))
=============================================================================

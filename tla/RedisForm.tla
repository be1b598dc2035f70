------------------------------ MODULE RedisForm ------------------------------
(***************************************************************************)
(* The form that edits one Redis key (components/RedisValueEditor), over   *)
(* the query that loads it.  Loading fills the form, saving builds a value *)
(* from it that replaces the key and its expiry; between the two the key   *)
(* may expire, change, or be another one, if Back selects a collection of  *)
(* another database under the form.                                        *)
(*                                                                         *)
(* A list stands for the values made of rows.  The driver's side of a load *)
(* or a save is RedisKeys; here each is one step, with all the ways it can *)
(* end: a save that fails may have deleted the key and not written it, or  *)
(* written it and not set its expiry, and a load may miss the expiry.      *)
(***************************************************************************)
EXTENDS SequencesExt, Naturals

CONSTANTS FormKeys,   \* the keys of one name, each in a database of its own
          Strings,    \* what a string or a row can hold
          NoString,   \* the empty one
          Decoded,    \* what a string is once it went through JSON
          NoKey,      \* null: no such key, no collection
          MaxRows,    \* bound: rows of the form
          MaxTtl,     \* bound: what is left until a key expires
          KeyValues   \* bound: what other clients write

ASSUME RedisFormAssumption ==
    /\ NoString \in Strings
    /\ Decoded \in [Strings -> Strings]
    /\ \A s \in Strings : Decoded[Decoded[s]] = Decoded[s] /\ (Decoded[s] = NoString <=> s = NoString)
    /\ NoKey \notin FormKeys
    /\ MaxRows \in Nat \ {0} /\ MaxTtl \in Nat

VARIABLES redis,    \* what each key holds
          keyAt,    \* the key under the name that the form is for
          target,   \* the mode of the form that is open, if any
          cached,   \* the queries ['document', ...]: the answers in the cache
          fetch,    \* how the query of the form does
          fields,   \* the type, the rows and the ttl in the form
          filledFrom, \* the key that filled it, for the properties
          exact,      \* that key was filled in whole, likewise
          untouched,  \* nobody changed the form or the key since, likewise
          confirming, \* confirmingDelete
          sent      \* the mutation under way, if any

formVars == <<keyAt, target, fetch, fields, filledFrom, exact, untouched, confirming>>
redisFormVars == <<redis, cached, sent, formVars>>

Rows == SeqOf(Strings, MaxRows)
ValueTypes == {"string", "list"}

IsValue(v) == /\ v \in [type : ValueTypes, rows : Rows, ttl : 0 .. MaxTtl]
              /\ v.type = "string" => Len(v.rows) = 1

\* A key without an expiry has ttl 0 here.
IsRedisValue(v) == IsValue(v) /\ v.rows # <<>>

ASSUME RedisValuesAssumption ==
    /\ ~IsRedisValue(NoKey)
    /\ \A v \in KeyValues : IsRedisValue(v)

EmptyForm == [type |-> "string", rows |-> <<NoString>>, ttl |-> 0]

FormOpen == target # "closed"

\* canSave: the key was loaded.
FormCanSave == target = "new" \/ cached[keyAt] # NoKey

\* Each variable keeps its type; a key that is there is not empty.
FormTypeOK ==
    /\ \A k \in FormKeys : /\ redis[k] = NoKey \/ IsRedisValue(redis[k])
                           /\ cached[k] = NoKey \/ IsRedisValue(cached[k])
    /\ keyAt \in FormKeys /\ target \in {"closed", "new", "edit"}
    /\ fetch \in {"idle", "loading", "failed"}
    /\ IsValue(fields) /\ filledFrom \in FormKeys \cup {NoKey}
    /\ {exact, untouched, confirming} \subseteq BOOLEAN
    /\ confirming => target = "edit"
    /\ \A s \in sent : s.kind \in {"insert", "replace", "delete"} /\ s.key \in FormKeys

FormInit ==
    /\ redis \in [FormKeys -> KeyValues \cup {NoKey}]
    /\ keyAt \in FormKeys
    /\ target = "closed" /\ cached = [k \in FormKeys |-> NoKey] /\ fetch = "idle"
    /\ fields = EmptyForm /\ filledFrom = NoKey /\ exact = FALSE /\ untouched = FALSE
    /\ confirming = FALSE /\ sent = {}
-----------------------------------------------------------------------------
(* Loading *)

\* What is not valid text is replaced by marks that are.
AsJson(rows) == [i \in DOMAIN rows |-> Decoded[rows[i]]]

\* The ways to read a key: a TTL that fails, or rounds to nothing, says none.
Readings(v) == {[v EXCEPT !.rows = AsJson(@), !.ttl = ttl] : ttl \in {v.ttl, 0}}

\* v is read of a key that holds old, or of one that did when it had longer
\* to live; and nothing was lost of it.
Tells(v, old) == v.type = old.type /\ v.rows = AsJson(old.rows) /\ (v.ttl > 0 => old.ttl > 0)
Same(v, old) == v.type = old.type /\ v.rows = old.rows /\ (v.ttl > 0 <=> old.ttl > 0)

\* Mutant of FormOf: a ttl is left for the user to fill in.
FormOfWithoutTtl(v) == [v EXCEPT !.ttl = 0]

\* The effect on the loaded document.
FormOf(v) == v

Fills(k, v) ==
    /\ fields' = FormOf(v) /\ filledFrom' = k
    /\ untouched' = (redis[k] # NoKey /\ Tells(v, redis[k]))
    /\ exact' = (redis[k] # NoKey /\ Same(v, redis[k]))

\* What the cache has is shown, and asked for again if it is old.
LooksAt(k) ==
    /\ fetch' \in IF cached[k] = NoKey THEN {"loading"} ELSE {"idle", "loading"}
    /\ \/ cached[k] # NoKey /\ Fills(k, cached[k])
       \/ cached[k] = NoKey /\ untouched' = FALSE /\ UNCHANGED <<fields, filledFrom, exact>>

OpenKey ==
    /\ ~FormOpen /\ target' = "edit"
    /\ LooksAt(keyAt)
    /\ UNCHANGED <<redis, cached, keyAt, confirming, sent>>

NewKey ==
    /\ ~FormOpen /\ target' = "new"
    /\ UNCHANGED <<redis, cached, sent, keyAt, fetch, fields, filledFrom, exact, untouched, confirming>>

Emptied == fields' = EmptyForm /\ filledFrom' = NoKey /\ exact' = FALSE /\ untouched' = FALSE

\* onClose: the form and its state are gone.
FormCloses == target' = "closed" /\ fetch' = "idle" /\ Emptied /\ confirming' = FALSE

CloseForm ==
    /\ FormOpen /\ ~confirming
    /\ FormCloses
    /\ sent' = {[s EXCEPT !.heard = FALSE] : s \in sent}
    /\ UNCHANGED <<redis, cached, keyAt>>

\* Back: the form stays open on the same name in another database.
BackToKey(k) ==
    /\ k # keyAt
    /\ keyAt' = k
    /\ \/ target = "edit" /\ LooksAt(k)
       \/ target # "edit" /\ UNCHANGED <<fetch, fields, filledFrom, exact, untouched>>
    /\ UNCHANGED <<redis, cached, target, confirming, sent>>

\* An equal answer is no change, and the effect stays put.
KeyArrives ==
    /\ fetch = "loading" /\ redis[keyAt] # NoKey
    /\ fetch' = "idle"
    /\ \E v \in Readings(redis[keyAt]) :
          /\ cached' = [cached EXCEPT ![keyAt] = v]
          /\ \/ cached[keyAt] = v /\ UNCHANGED <<fields, filledFrom, exact, untouched>>
             \/ cached[keyAt] # v /\ Fills(keyAt, v)
    /\ UNCHANGED <<redis, keyAt, target, confirming, sent>>

KeyFails ==
    /\ fetch = "loading"
    /\ fetch' = "failed"
    /\ UNCHANGED <<redis, cached, sent, keyAt, target, fields, filledFrom, exact, untouched, confirming>>

RefocusForm ==
    /\ target = "edit" /\ fetch # "loading"
    /\ fetch' = "loading"
    /\ UNCHANGED <<redis, cached, sent, keyAt, target, fields, filledFrom, exact, untouched, confirming>>

\* Another client writes or deletes the key.
OtherClientWrites(k, v) ==
    /\ redis[k] # v
    /\ redis' = [redis EXCEPT ![k] = v]
    /\ untouched' = (untouched /\ k # keyAt)
    /\ sent' = {[s EXCEPT !.untouched = @ /\ k # s.key] : s \in sent}
    /\ UNCHANGED <<cached, keyAt, target, fetch, fields, filledFrom, exact, confirming>>

\* The key's remaining time goes down, and at its end the key is gone.
Later(v) == IF v.ttl = 1 THEN NoKey ELSE [v EXCEPT !.ttl = @ - 1]

TimePasses(k) ==
    /\ redis[k] # NoKey /\ redis[k].ttl > 0
    /\ redis' = [redis EXCEPT ![k] = Later(@)]
    /\ untouched' = (untouched /\ (k = keyAt => redis[k].ttl > 1))
    /\ UNCHANGED <<cached, sent, keyAt, target, fetch, fields, filledFrom, exact, confirming>>
-----------------------------------------------------------------------------
(* Editing and saving *)

FieldsShown == /\ FormOpen /\ ~confirming
               /\ target = "new" \/ fetch = "idle" \/ (fetch = "loading" /\ cached[keyAt] # NoKey)

Edits(v) ==
    /\ FieldsShown /\ v # fields
    /\ fields' = v /\ untouched' = FALSE
    /\ UNCHANGED <<redis, cached, sent, keyAt, target, fetch, filledFrom, exact, confirming>>

\* A row typed into, added or removed; a string has the one.  What is typed is
\* valid text.
EditRows ==
    \/ \E i \in DOMAIN fields.rows, s \in Strings : Edits([fields EXCEPT !.rows[i] = Decoded[s]])
    \/ fields.type = "list" /\ Len(fields.rows) < MaxRows /\ Edits([fields EXCEPT !.rows = Append(@, NoString)])
    \/ fields.type = "list" /\ \E i \in DOMAIN fields.rows : Edits([fields EXCEPT !.rows = RemoveAt(@, i)])

EditTtl(ttl) == Edits([fields EXCEPT !.ttl = ttl])

\* Only of a new key.
ChooseType(type) == target = "new" /\ Edits([EmptyForm EXCEPT !.type = type, !.ttl = fields.ttl])

\* The n-th row with something in it is the one up to which there are n.
NonEmpty(rows) ==
    LET kept == {i \in DOMAIN rows : rows[i] # NoString}
    IN  [n \in 1 .. Cardinality(kept) |->
            rows[CHOOSE i \in kept : Cardinality(kept \cap 1 .. i) = n]]

\* buildValue drops the rows with nothing in them.
BuildValue(f) == IF f.type = "string" THEN f ELSE [f EXCEPT !.rows = NonEmpty(@)]

\* At most one is under way, a bound.
SendsForm(kind) ==
    /\ sent = {}
    /\ sent' = {IF kind = "replace"
                THEN [kind |-> kind, key |-> keyAt, value |-> BuildValue(fields),
                      from |-> filledFrom, exact |-> exact, untouched |-> untouched, heard |-> TRUE]
                ELSE [kind |-> kind, key |-> keyAt, untouched |-> FALSE, heard |-> TRUE]}

SaveKey ==
    /\ FormOpen /\ ~confirming /\ FormCanSave
    /\ SendsForm(IF target = "new" THEN "insert" ELSE "replace")
    /\ UNCHANGED <<redis, cached, formVars>>

AskToDeleteKey ==
    /\ target = "edit" /\ ~confirming
    /\ confirming' = TRUE
    /\ UNCHANGED <<redis, cached, sent, keyAt, target, fetch, fields, filledFrom, exact, untouched>>

ConfirmDeleteKey ==
    /\ confirming
    /\ SendsForm("delete")
    /\ UNCHANGED <<redis, cached, formVars>>

CancelDeleteKey ==
    /\ confirming /\ ~\E s \in sent : s.heard /\ s.kind = "delete"
    /\ confirming' = FALSE
    /\ UNCHANGED <<redis, cached, sent, keyAt, target, fetch, fields, filledFrom, exact, untouched>>

\* A list without rows is no key.
Put(v) == IF v.rows = <<>> THEN NoKey ELSE v

\* An insert is of a name of its own.
KeyAfter(s) ==
    CASE s.kind = "insert" -> redis[s.key]
      [] s.kind = "delete" -> NoKey
      [] OTHER -> Put(s.value)

\* onSuccess closes the form, whichever is open by then.  What was loaded stays
\* in the cache.
SaveSucceeds(s) ==
    /\ s.kind # "insert" => redis[s.key] # NoKey
    /\ redis' = [redis EXCEPT ![s.key] = KeyAfter(s)]
    /\ sent' = {}
    /\ FormCloses
    /\ UNCHANGED <<cached, keyAt>>

\* A replace deletes the key, writes the value and sets the expiry.
Halfway(s) == IF s.kind = "replace" THEN {NoKey, Put([s.value EXCEPT !.ttl = 0])} ELSE {}

\* An error, with what it did to a key that was there.
SaveFails(s) ==
    /\ \/ UNCHANGED redis
       \/ /\ redis[s.key] # NoKey
          /\ \E v \in {KeyAfter(s)} \cup Halfway(s) : redis' = [redis EXCEPT ![s.key] = v]
    /\ sent' = {}
    /\ untouched' = (untouched /\ redis'[keyAt] = redis[keyAt])
    /\ UNCHANGED <<cached, keyAt, target, fetch, fields, filledFrom, exact, confirming>>

FormNext ==
    \/ OpenKey \/ NewKey \/ CloseForm \/ KeyArrives \/ KeyFails \/ RefocusForm
    \/ \E k \in FormKeys : \/ BackToKey(k) \/ TimePasses(k)
                           \/ \E v \in KeyValues \cup {NoKey} : OtherClientWrites(k, v)
    \/ EditRows
    \/ \E ttl \in 0 .. MaxTtl : EditTtl(ttl)
    \/ \E type \in ValueTypes : ChooseType(type)
    \/ SaveKey \/ AskToDeleteKey \/ ConfirmDeleteKey \/ CancelDeleteKey
    \/ \E s \in sent : SaveSucceeds(s) \/ SaveFails(s)

FormSpec == FormInit /\ [][FormNext]_redisFormVars
-----------------------------------------------------------------------------
(* Properties *)

\* A save replaces a key only by what was loaded from that key, not by the
\* defaults of a load that failed nor by the key of that name shown before Back
\* (RedisValueEditor.tsx:60-64).  One that nobody touched, in the form or
\* elsewhere, leaves at most what was loaded of the key, however it ends; a
\* failing one may leave no key, or one without its expiry.  One that succeeds
\* leaves the key there, and if all of it was loaded it is as it was: the save
\* does not "silently make an expiring key permanent"
\* (RedisValueEditor.tsx:126-135), nor the reverse.  Rows with nothing in them
\* are lost.
SaveKeepsWhatWasLoaded == [][
    \A s \in sent :
        LET old == redis[s.key]
            new == redis'[s.key]
        IN  sent' = {} /\ s.kind = "replace" =>
              /\ s.from = s.key
              /\ s.untouched /\ old # NoKey
                    /\ (old.type = "list" => NoString \notin Range(old.rows)) =>
                  /\ new \in {NoKey, old} \/ Tells(new, old)
                  /\ SaveSucceeds(s) => new # NoKey /\ (s.exact => Same(new, old))]_redisFormVars

=============================================================================

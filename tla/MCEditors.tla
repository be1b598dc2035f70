----------------------------- MODULE MCEditors -----------------------------
(***************************************************************************)
(* The browser's editors in one instance for TLC: those of indexes, of a   *)
(* document, of a Redis key and of a query.  They share no variable, and   *)
(* their states are not multiplied: a behaviour is one of one part, chosen *)
(* at the start, while each of the others keeps one initial state, which   *)
(* has none of the permuted values.                                        *)
(***************************************************************************)
EXTENDS IndexEdit, DocumentEditor, RedisForm, QueryEditor, TLC

CONSTANTS MCParts, \* the parts that are checked
          a, b,    \* collections with indexes, or documents
          collated, \* options that a request for an index has not
          x,       \* what a row of the Redis form can hold
          bytes    \* what no text is

VARIABLE part

MCKeyValues == {[type |-> "list", rows |-> <<bytes>>, ttl |-> 1]}

\* Odd options come back as the first of the others.
MCPlainOption == CHOOSE opt \in Options \ {collated} : TRUE
MCCarried == [opt \in Options |-> IF opt = collated THEN MCPlainOption ELSE opt]

\* One that can be asked for again, one with its key only, and one not even that.
MCForeign == [key : Keys \ Odd, opt : {MCPlainOption, collated}] \cup [key : Odd, opt : {collated}]

MCDecoded == [s \in Strings |-> IF s = bytes THEN x ELSE s]

Symmetry == Permutations({a, b}) \cup Permutations(FormKeys)

Is(name) == part = name

EditorsInit ==
    /\ part \in MCParts
    /\ IxInit
    /\ Is("indexes") \/ \A coll \in IndexColls : indexes[coll] = {}
    /\ DocInit
    /\ Is("document") \/ (at = Gone /\ contents = [d \in Docs |-> CHOOSE c \in Contents : TRUE])
    /\ QeInit
    /\ Is("query") \/ selected = CHOOSE coll \in EdColls : TRUE
    /\ FormInit
    /\ Is("form") \/ \A k \in FormKeys : redis[k] = NoKey

Steps(name, next, unchanged) == (Is(name) /\ next) \/ (~Is(name) /\ unchanged)

EditorsNext ==
    /\ UNCHANGED part
    /\ Steps("indexes", IxNext, UNCHANGED indexVars)
    /\ Steps("document", DocNext, UNCHANGED docVars)
    /\ Steps("query", QeNext, UNCHANGED queryEditorVars)
    /\ Steps("form", FormNext, UNCHANGED redisFormVars)

editorsVars == <<part, indexVars, docVars, queryEditorVars, redisFormVars>>

EditorsSpec == EditorsInit /\ [][EditorsNext]_editorsVars

\* Each editor keeps its types, and with them what they say of its dialogs.
EditorsTypeOK == IxTypeOK /\ DocTypeOK /\ EdTypeOK /\ FormTypeOK
=============================================================================

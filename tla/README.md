# gonosequel in TLA+

gonosequel is a web client for MongoDB and Redis/Valkey: one Go binary that
serves a REST API and a React single-page app.  This directory models the parts
of it whose correctness depends on order, on timing or on limits, checks the
models with TLC and proves their main properties with TLAPS.

Paths below are relative to the repository (`src/`).  `PROJECT.json` gives the
source lines of every definition.

## Inventory

### Server

| Part | State it keeps | Operations | What is hard |
|---|---|---|---|
| session registry, `pkg/session/session.go` | map from session ID to client and info, under an RWMutex | Put, Get, Info, Remove, List | Remove closes outside the lock; Put replaces without closing |
| session ID signing, `pkg/session/sign.go` | none | SignID, VerifyID | the registry has raw IDs, the browser signed ones |
| request lifecycle, `pkg/api/{middleware,server,routes,handlers_connect}.go`, `main.go` | locals of each request | connect, disconnect, session-scoped calls; rejectWrites, withSession | each request is a goroutine; withSession reads the registry twice; a handler outlives the session it looked up |
| export tickets, `pkg/api/export_tickets.go` | map from token to ticket, under a mutex | issue (sweeps), claim | lazy expiry, cap, single use |
| export downloads, `pkg/api/handlers_export.go` | none | ticket request, download | the session may change between the two |
| query history, `pkg/history`, `handlers_documents.go` | list of entries per session ID, under a mutex | Add, List | cap, order, and strings that are views of request memory |
| document handlers, `handlers_documents.go` | none | list, get, insert, replace, delete | skip and limit arithmetic |
| command console, `handlers_command.go` | none | run a script line by line | a failing line does not stop the rest; the tokenizer takes quotes off |
| other handlers | none | collections, indexes, databases, tools, aggregate, explain, update-many | thin wrappers of one driver call |
| Redis driver, `pkg/redis` | one go-redis client per database index, opened on first use | documents, collections, databases, raw commands | every operation is a sequence of commands on a shared server; SCAN; pools opened after Close |
| MongoDB driver, `pkg/client` | one `mongo.Client` | documents, collections, indexes, schema, tools | mostly single calls; int64 to int32 narrowing of a TTL |
| bookmarks, `pkg/bookmarks` | TOML files | Load, Save, List | truncate, then write |
| options, `pkg/command` | none | flags, environment, profile | precedence |
| export formats, `pkg/export` | none | JSON, CSV | pure rendering |

### Browser

| Part | State it keeps | Operations | What is hard |
|---|---|---|---|
| session gate, `App.tsx`, `api/http.ts`, `ConnectionModal`, `ServerPanel` | stored session ID, session list, the screen shown | connect, add, switch, disconnect; the effect that drops a stored ID the list has not | the list, the rows and the reply to a connect arrive in any order; the server stops; a signed ID is never in the list |
| query cache, `hooks/*`, react-query | answers by (database, collection, query) | fetch, refetch on focus, invalidate | keys name no session; a request under way is joined or given up |
| navigation, `App.tsx` | selection, tab, the browser's history | select, Back and Forward, replay of a past query | Back goes through an open dialog |
| sidebar, `Sidebar.tsx`, `Dialogs/*` | open dialog, its text, five mutations | create, rename, drop, after the name was typed | a mutation outlives its dialog |
| document list, `Results.tsx`, `Pagination.tsx`, `api/sizeGuard.ts` | skip, limit, confirmed size, placeholder rows | page, change the page size, agree to a large page | boundary arithmetic; estimated totals; rows of the page that was left |
| query editor, `QueryEditor.tsx` | a draft for each collection, update to confirm | type, pick from a result, run, count and confirm an update | the draft, the selection and the update change separately |
| command runner, `RedisCommandRunner.tsx` | a script for each collection, runs under way | run all or a part; confirm a wipe | late results |
| document editor, `DocumentEditor.tsx`, `Dialogs/Modal.tsx` | text, two confirmations, stack of dialogs | load, edit, save, delete | a refetch replaces the text; whom Escape is for |
| Redis value editor, `RedisValueEditor.tsx` | type, rows and ttl in the form | load, edit, save, delete | a save writes the whole key anew |
| index editor, `IndexPanel.tsx` | form, list of indexes | create, edit, drop | an edit drops, creates and restores, each of which may fail |
| schema, tools and server information | none | show a query's result | nothing |

### How they interact

The browser calls the API over HTTP and names its session in `X-Session-Id`
(no header means `default`).  withSession turns the ID into a `driver.Driver`
which the handler keeps in the request's locals until it answers.  The registry,
the ticket store and the history are the only state requests share in the
server; each is guarded by a mutex of its own and none calls another, so no lock
is ever held while another is taken or while the database is called.
Everything interesting happens between two such critical sections.

In the browser `App` holds what its parts share: the selection, the query that
was run, the tab and the document that is open.  Every part gets these as
properties and asks the server through the query cache, whose keys name neither
the session nor the moment.  Code runs to its end between two events, so a step
is one event: a click, a key, Back, or an answer that arrives.  A dialog covers
the page, which rules out clicks on it, but neither Back nor an answer; and an
answer's handler runs with the component's state of that moment, or with the one
it captured when it was sent, which are two different things.  Everything
interesting happens between a request and its answer.

### What makes each part correct

* registry and requests: a listed client is open; each client has one
  responsible party, is closed once, and closed in the end; a read-only session
  is not written.
* tickets: single use, exact deadline, bounded store, no 429 caused by dead
  tickets; a download reads the connection its ticket was issued on.
* history: the latest queries of the session, in order, bounded, and no one
  else's.
* Redis operations: a listing misses no key that was there throughout; a
  replace or rename loses nothing it does not report.
* session gate: what the app shows is replaced only by what the session in use
  returned; a session the server has is not dropped.
* pages: Back leads where the user was; a query stays on the collection it ran
  on; what is dropped is what was typed; a dialog shows no one else's error.
* list: it starts at a whole page, marks rows that are not its own, and loads no
  large page unasked.
* editors: what is saved began as what is replaced; what is sent is what was
  counted or confirmed; no index is lost without a word; a draft, or a script,
  is the collection's own.

## Modules

| Module | Models | Kind |
|---|---|---|
| `SessionRegistry` | `pkg/session`: the map and its critical sections | operators, one variable |
| `ConnectionContract` | what the server promises of one connection | abstract specification |
| `Sessions` | requests over the registry (`EXTENDS SessionRegistry`) | system specification |
| `SessionsProofs` | theorems about `Sessions` and `MCServers`, and that it implements `ConnectionContract` | proofs |
| `TicketContract` | what the ticket store promises | abstract specification |
| `ExportTickets` | `export_tickets.go` | component specification |
| `ExportFlow` | `handlers_export.go`: `Sessions` and `ExportTickets` composed | composition |
| `ExportFlowProofs` | theorems about `ExportFlow` (`EXTENDS SessionsProofs`) | proofs |
| `QueryHistory` | `pkg/history` and the handlers that feed it | component specification |
| `StoresProofs` | theorems about `ExportTickets`, that it implements `TicketContract`, and about `QueryHistory` | proofs |
| `RedisKeys` | `pkg/redis`: the operations on keys, command by command | component specification |
| `RedisKeysProofs` | theorems about `RedisKeys` | proofs |
| `QueryCache` | one entry of react-query's cache, as the hooks use it (external) | operators |
| `WebSession` | the session gate against the server (`EXTENDS QueryCache`) | system specification |
| `Navigation` | page, history of the browser, sidebar's dialogs | component specification |
| `DocumentList` | size guard, documents query, paging | component specification |
| `WebListProofs` | theorems about `DocumentList` and `WebSession` | proofs |
| `RedisConsole` | command runner | component specification |
| `WebPagesProofs` | theorems about `Navigation`, `RedisConsole` and their sum with the rest (`MCPages`) | proofs |
| `QueryEditor` | query editor, and what `App` keeps for it | component specification |
| `DocumentEditor` | document editor and the stack of dialogs | component specification |
| `RedisForm` | Redis value editor | component specification |
| `IndexEdit` | index editor against the database's indexes | component specification |
| `IndexEditProofs` | theorems about `IndexEdit` | proofs |
| `WebEditorsProofs` | theorems about `QueryEditor`, `DocumentEditor`, `RedisForm` and the editors' sum (`MCEditors`) | proofs |
| `MCServers` | two servers over `Sessions` | TLC |
| `MCStores`, `MCPages`, `MCEditors` | sums of components that share no state | TLC |
| `MCExportFlow`, `MCRedisKeys` | instances of one module | TLC |

### Sessions

Each member of `Requests` is a goroutine.  `pc` is its place in the handler,
`held` the `driver.Driver` in its locals, `sid` the resolved session ID.  One
action is one critical section or one call to the database:

| Action | Code |
|---|---|
| `ConnectArrives`, `DialSucceeds`/`DialFails`, `RegisterConnection` | `handleConnect`: validation, `d.connect` with its 10 s context, `registry.Put` |
| `ScopedArrives` | `rejectWrites` (on a `--readonly` server) |
| `LookUpClient`, `CheckReadonly` | `withSession`: `registry.Get`, then `registry.Info` |
| `RunHandler` | the route's handler: its driver calls, which may fail |
| `DisconnectArrives`, `RemoveEntry`, `CloseClient` | `handleDisconnect`, the two halves of `Registry.Remove` |

A client is `unused`, `open` or `closed` (`conn`); the access mode it was
registered with (`mode`) and the clients that were written (`written`) are kept
for the properties.  Of a scoped call only its method class matters: GET/HEAD is
`read`, all else `write`.  Requests refused before they touch the registry (bad
body, unknown bookmark, bad signature) are no steps.  `LazyPools` says whether
the driver dials a database on its first use, as the Redis one does: such a
client can still be written after it was closed, through a database it had not
been asked for before.  In single-connection mode `Init` has the client main
dialled; with `--sessions` the registry starts empty.

### ExportTickets and ExportFlow

`issue` and `claim` hold the store's mutex throughout, so each is one step; the
time a ticket's deadline is computed from was read before the mutex was taken,
so `Issue` takes it from `0 .. now`.  `TicketContract` has no expired tickets at
all: a ticket vanishes at its deadline.  `ExportFlow` runs both together: a
`read` handler may request a ticket, and a download, with no session header,
claims it, looks the session up and exports.

### QueryHistory

Fiber's strings are views of the request context's memory, and contexts are
reused; `handlers_export.go:56-60` says so and clones, `handleListDocuments`
does not.  The model therefore stores, instead of a string, the context it
came from, and reads it when the history is listed.  The session ID under which
a list is filed is such a view too whenever a header names it, be it `default`,
which a browser sends that connected through the form; only a request without the
header is filed under the constant (`KeyOf`).  A map whose key changed may or may
not find it by its new spelling, which is a nondeterministic choice (`Found`).

### RedisKeys

A method of the Redis driver is a sequence of commands, each atomic at the
server.  A behaviour of the model is one call, from any keyspace in `Starts`:
`at` is the command it sends next, and each action runs that command at the
server and takes the branch the method takes on its reply.

| Method | Actions |
|---|---|
| `InsertOne` | `WriteValue`, `ApplyTTL` |
| `ReplaceOne` | `CheckExists`, `DeleteKey`, `WriteValue`, `ApplyTTL` |
| `DeleteOne` | `DeleteKey` |
| `FindOne` | `ReadType`, `ReadTTL`, `ReadValue` |
| `Find` | `ScanReturns`*, `ScanEnds`, `Page`, then those of FindOne for each key |
| `ListCollections`, `Stats` | `ScanReturns`*, `ScanEnds` |
| `DropCollection` | `ScanReturns`*, `ScanEnds`, `Unlink` |
| `RenameCollection` | `ScanReturns`*, `ScanEnds`, `RenameKey`* |
| `DropDatabase` | `FlushDB` |

`Others` is a command of anyone else, other calls of this program included,
between any two of the call's own.  `CommandFails` is a command that never
reached the server, `ReturnReply` a last reply lost on the way back; a reply lost
earlier is the same as the next command failing.  SCAN gives what Redis
promises and no more: every key that is there throughout, any other key or not,
any key more than once.

A key is what stands before its first `:` and what stands after it; a key
without one is in the collection `(no prefix)`.  The new name of a collection is
any text, which may be such a pair itself: then `After` joins its rest to that of
each key (`Joined`).  Hashes, lists, sets and sorted
sets are one kind of type: writing one adds to the key, writing none of its
elements sends no command.  A ttl matters by what `applyKeyTTL` does with it:
absent, cleared, set, cut to 0 by `time.Duration` (and EXPIRE in 0 seconds
deletes the key), or not a number.

### WebSession, over QueryCache

`QueryCache` is what the hooks rely on of react-query: an entry has the answer it
shows (`data`), the request under way (`asked`) and whether it was invalidated.
What matters is what `invalidateQueries` does.  On a query that a component shows,
a request under way is given up if there is data to show, but a first load is
joined, and its answer taken, although it was asked before (`Invalidated`).  A query
that none shows is only marked, and its request under way goes on (`Marked`), to be
joined when it is shown again.  `WebSession` has two entries, the session list,
which is always shown, and `rows`, which stands for each session-scoped query: on
the Server tab, where the session is switched, most of them are hidden (`shown`).
`overtaken` is a ghost: when the session was set, the rows were being asked for, and
hidden or without data.

| Action | Code |
|---|---|
| `Connect`, `ServeConnect`, `ConnectAnswered`/`ConnectFails` | `ConnectionModal`: the mutation, `handleConnect`, `onSuccess`, which stores the ID and invalidates everything, also when its screen is gone |
| `AddConnection`, `CancelAdding`, `SwitchSession` | `ServerPanel` |
| `Disconnect`, `DisconnectAfterConnectionLost` | the two buttons in `App` |
| `ListArrives` (with `GateEffect`), `ListFails`, `RowsArrive`, `RowsFail` | answers; the effect that drops a stored ID runs when the list changed |
| `ShowRows`, `HideRows`, `DropRows` | tabs and collections, whose queries mount and unmount; `gcTime` |
| `PollInfo`, `Refocus`, `Reload` | `useInfo` every five seconds; focus; the page loaded again, with the ID in `localStorage` |
| `ServeList`, `ServeRows` | the server takes up a request: `handleListSessions`, and `resolveSessionID` with `registry.Get` |
| `ServerStops`, `ServerStarts`, `OtherConnects`, `OtherDisconnects` | the server, and other browsers |

`View` is what `App` renders: the gate, the placeholder of a lost connection or
the app.  A stored ID is an ID and whether it is signed; the server takes it only
in the form it hands out, while the list and the effect compare raw IDs.

### Navigation

`page` is `selectedDb`, `selection` and `tab`; `entries` and `pos` are
`window.history`.  `SelectTab`, `SelectDatabase`, `SelectCollection` and
`ReplayHistory` push an entry; `Pop` is Back or Forward, which pushes none and is
not stopped by a dialog; `CapabilitiesChange` may take the tab away.  The five
dialogs of the sidebar share `OpenDialog`, `TypeText`, `CancelDialog` and
`ConfirmDialog`, which sends a mutation; `SidebarSucceeds` and `SidebarFails` are
its answers, that move the page and close the dialog, whichever is open by then.
A mutation that `OpenDialog` reset is no longer heard: it shows no error, but its
`onSuccess` still runs.  A dialog that needs a database is not rendered without
one and forgets its text (`Retyped`).

### DocumentList

`view` is what is to be listed, `stats` what is known of each collection's
average document.  `DocumentsEnabled` is the size guard; an action that changes
its operands ends in `Continued` (the same query, asked for when it becomes
enabled) or `Replaced` (another query, whose rows may be cached, and the rows
shown so far as its placeholder).  `Screen` and `RowsShown` are what `Results`
shows.  The user's actions are `List` (select, replay, Back), `FollowRenamed` (the
selected collection is renamed, which keeps page and query), `ReturnToList`,
`RunQuery`, `ConfirmSize`, `ReducePage`, `PreviousPage`, `NextPage` and
`ChangeLimit`; the server's `StatsArrive`, `DocumentsArrive`, `DocumentsFail`; and
`Refetch` is focus or a saved document.  A total may be of other rows, or an
estimate.

### RedisConsole

One script for each collection (`scripts`, with `localStorage`), one in the
editor.  `RunNow` runs a text, the whole script or the part selected; one that
wipes is put into `pendingWipe`, and `TypeName`, `ConfirmWipe` run it.
`RunSucceeds` and `RunFails` answer, wherever the user is; a run whose runner was
unmounted is not heard.  Of a script counts which of the names FLUSHALL and
FLUSHDB the regular expression of `wipesEverything` sees, in their order: the
sequence of them is the script.  The dialog asks for the first.  A name in quotes is
not seen and not in the sequence, although the server's tokenizer takes quotes off.

### QueryEditor

`drafts` is `draftCache` with `localStorage`, `draft` the one in the editor: mode
and four texts.  `SelectCollectionHere` is any way to a collection, Back under the
dialog included; `ReturnToDocuments` and `Replay` mount the editor, whose effects
then load the draft and write the last pick over it (`Mounts`).  `TypeIn`,
`FixJson`, `ApplyPreset`, `SwitchMode` and `PickFromResults` change the draft;
`RunFind` and `RunAggregate` run it.  An update of many is `PrepareUpdateMany`,
`CountAnswers`, which opens the dialog, `ConfirmUpdate` or `CancelUpdate`, and
`UpdateAnswers`.

### DocumentEditor

A document is one ID in each collection, so the collection selected (`at`) stands
for the document.  `OpenDocument`, `Arrives`, `LoadFails`, `Focus` and `BackTo`
are its query and the effect that puts the answer into the editor; `Type`,
`SortFields`, `SaveDocument`, `AskToDelete`, `Confirm`, `CancelConfirmation` and
`Cancel` the user's; `CallSucceeds` and `CallFails` the answers of the mutations,
which close the editor, whichever is open by then; `OtherWrites` another client.
`stack` is `modalStack` of `Modal.tsx`: each render of a component passes its
dialogs a new `onClose`, so their effects run again and they enter the stack anew,
the outer first (`Restack`); `Escape` goes to the last.

### RedisForm

Loading a key fills the form (`Fills`), saving builds a value from it
(`BuildValue`) that replaces the key and its ttl.  Between the two the key may
expire (`TimePasses`), be written by others, or be another one, the form being
open on a name that other databases have too (`BackToKey`).  The driver's side of
either, command by command in `RedisKeys`, is one step here with all the ways it can
end.  A load (`Readings`) brings the rows through JSON (`Decoded`), which changes
what is not valid text, and may miss the ttl.  A save that fails may have done
nothing, everything, or stopped halfway (`Halfway`): the key deleted, or written
and without its ttl.  `exact` and `untouched` are ghosts: what fills the form is all
of the key; and neither the user nor anybody else changed either since.

### IndexEdit

`indexes` is the database's, `listed` the panel's query, `form` what is typed.
`Save` captures the collection, the form, the index edited and the list of that
moment, as the mutation's function does; `DropsFirst`, `CreatesNew` and `Restores`
are its requests, each of which is refused, or carried out with or without an
answer, while `ShowCollection`, `LeavePanel`, `TypeForm` and other clients go on.
What the panel can ask for of an index is `Expressed`: a text or hashed key (`Odd`)
becomes a plain one, and of the options only what a request has stays (`Carried`),
not a collation, for example.  `told` is the error shown.

## Runs

| Run | Question | Result |
|---|---|---|
| `sessions_servers` | two requests and three clients, on a single-connection server with lazy pools and on a `--sessions --readonly` one: every invariant, the contract, and clients are closed in the end | holds |
| `readonly_race` | is the check in withSession enough, as its comment says? | no |
| `replace_leak` | is every client closed or reachable, as Connect asks its callers? | no |
| `server_stores` | the ticket store: its cap and its contract; the history of one session: the latest queries, newest first, bounded, as long as no header names it | holds |
| `export_flow` | does a ticket only export from where it was issued, and is no client out of reach, with `--sessions`? | holds |
| `history_foreign` | are the rows what this session ran, as the docs say? | no |
| `redis_keys` | every call, from every set of at most three of five keys: exact when alone, within its bounds otherwise | holds |
| `redis_rename` | does a rename keep every key, as its comment says? | no |
| `web_pages` | the session gate, the navigation, the document list and the Redis console, against late answers, Back, and others | holds |
| `web_signed` | is a session with a signed ID kept, as the docs say? | no |
| `web_editors` | the editors of indexes, documents, Redis values and queries, against late answers, Back under a dialog, failing steps, and others | holds |
| `web_update` | does an update go where its matches were counted? | no |

The six disagreements:

* **readonly_race.**  A write passes `Get`, another request disconnects the
  session, `Info` returns an error and `err == nil && ...` lets the write
  through, on a client registered read-only.  It can only happen while that
  client is being closed (`ReadonlyWhileRegistered` holds), and not on a
  `--readonly` server (`ReadonlyServerNeverWrites`).
* **replace_leak.**  In single-connection mode `POST /api/connect` is open to
  any caller and `Put` drops the old entry; its client stays connected.
* **history_foreign.**  After a later request on the same context, an entry
  shows that request's database and filter, and the list may be found under
  that request's session.  In single-connection mode too: a browser that disconnects
  and connects through the form stores the ID it gets, `default`, and sends it from
  then on, so the key of the history is memory of its requests.  What overwrites that
  memory splits the history in two, or hides it.  `MostRecentFirst` still holds.
* **redis_rename.**  The keys of `(no prefix)` have nothing to keep after a
  prefix, so each is renamed to the new name itself, over the one before: of
  the whole collection one value is left.  And a new name may contain `:`: renaming
  `a` to `a:b`, the new name of `a:1` is `a:b:1`, which is a key of `a` itself that
  the rename overwrites, if it comes first.
* **web_signed.**  With `--session-secret`, connecting returns a signed ID, the
  list has raw ones, and `App`'s effect takes the first list after the connect
  for proof that the session is gone: back to the connection screen, with the
  session open on the server.  The docs say that the browser needs to do nothing
  differently.
* **web_update.**  `runUpdateMany` takes database and collection from the render
  in which the user confirms, the rest from the one in which Run was pressed.  Back
  under the open dialog sends the update to a collection nobody counted.  What is
  sent is always what was counted (`UpdateSentAsCounted`).

### Bounds, and why they are enough

Two requests give every race between two handlers: each of the properties
relates one handler to one change of the registry.  Three clients let one replace
another that is there from the start while a third is dialled.  Three IDs are the
default, which leads nowhere with `--sessions`, and one for each connect.  Clients
are never reused, so behaviours are finite in connects and unbounded in
everything else.  For tickets, a cap of 2 with 4 tokens and a lifetime of 2 in 4
ticks lets a store be full of live, full of dead and of mixed tickets; in
`ExportFlow` a lifetime of 0 and one token suffice, since the store is explored on
its own, and two downloads race for it.  `MaxTime` stops the clock.  For the
history, a cap of 2 is passed twice in 4 queries (`MaxLog`), with and without the
header; `history_foreign` has bounds of its own.  For the
Redis driver, two prefixes, one with three keys `1`, `1:1` and bare, the other with
two, and the group `(no prefix)` beside a prefix of that very name let a collection
be empty, share the database, fill a page or more, and be renamed onto free and
taken names, its own included; at most three keys are there at the start.  What a
rename joins stays within three rests (`Joined`, `Fits`); `MaxOthers` lets one foreign command fall into each gap of a call and
`MaxRepeats` lets SCAN repeat one key, and the theorems about scans and scopes
cover any number of both.  Skip takes -1, 0, 1 and 3, which is before, at, inside
and beyond the page.

`MCStores`, `MCPages` and `MCEditors` are sums: a behaviour is one of one part,
chosen at the start, while the others keep one initial state.  The parts share no
variable, so nothing is lost, and one instance stands for several.

| Bound | Value | Why |
|---|---|---|
| `Conns` | 2 | the one in use and the one switched to, lost or added |
| `Servers` | unsigned, single or multi | signed ones are `web_signed` |
| `MaxOpened` | 1 | the server stops after at most one connect, and the other connection is opened when it is back; the theorems cover any |
| `MaxEntries` of the browser's history | 2 | one entry to go back to, and forward; the theorems cover any |
| `MaxPending`, `MaxCalls`, `MaxAsked` | 1 | a request that outlives what sent it; the theorems cover any number |
| `Standard`, `Fine`, `Threshold`, `Averages` | <<4>>, <<1, 2>>, 4, {0, 2, 9} | a size unknown, one that leaves two options, one that leaves none |
| `Totals`, `MaxSkip` | {0, 9}, 2 | none and more than a page; two small pages forward |
| `MaxRunning` | 2 | a run, and one left behind by an unmounted runner |
| `Scripts` | no wipe seen; FLUSHALL; FLUSHDB, then FLUSHALL | a script that asks for nothing, for its name, for the first of two |
| `MaxIndexes`, one save at a time | 1 | an index in the way, or another collection's |
| `Foreign` | three indexes | one the form can ask for again, one with an option it cannot, and a text key |
| `Options` | two carried, a collation | an edit of the options, and one that drops what it has not |
| `Contents`, `Risky` | 2, one of them | a text that asks and one that does not |
| `MaxRows`, `MaxTtl`, `KeyValues` | 1, 1, an expiring list | a row with and without text; a key about to expire |
| `Strings` | text, no text, bytes that are not text | the last comes back from JSON as the first |
| `MaxTouched` | 1 | a text of one box that another collection's may be mistaken for |

Symmetry (of connections, databases and collections, and of the keys of the Redis
form) is used where a run checks invariants and step properties only, never with
liveness.  No run allows deadlock; a call of the Redis driver that returned
stutters.

### Fairness

`MCServers` asks weak fairness of `Serve(r)` of the server at hand: a handler
that started goes on.  The Go scheduler runs every goroutine, no lock is held
across a call, and the dial ends after 10 seconds at the latest.  Nothing is
assumed of clients: requests need never arrive.  The models of the browser assume
no fairness and state no liveness: a request there has no timeout, and a server
that never answers leaves the page waiting.

## Proofs

All theorems hold for any sets of requests, clients, IDs, tokens, collections,
scripts and texts and any value of the numeric constants, from the named
assumptions `RegistryAssumption`, `SessionsAssumption`, `TicketAssumption`,
`FlowAssumption`, `HistoryAssumption`, `RedisAssumption`, `WebSessionAssumption`,
`NavigationAssumption`, `DocumentListAssumption`, `RedisConsoleAssumption`,
`QueryEditorAssumption`, `DocumentEditorAssumption`, `RedisFormAssumption`,
`RedisValuesAssumption`, `IndexEditAssumption` and `ForeignAssumption`.  Every invariant and every step
property that a passing run checks is also a theorem.  A sum that a run explores
is covered by a theorem that its behaviours are behaviours of each part
(`ServersAreSessions`, `StoresAreOfParts`, `PagesAreOfParts`, `EditorsAreOfParts`).

* `SessionsProofs`.  The safety invariants are not inductive.  `IInv` adds: an
  entry's read-only flag is its client's mode; a client not dialled yet has no
  mode; what a connect is about to register is open and new; what a disconnect
  is about to close is open and unlisted; and the client a scoped request uses
  is either listed under the very ID it resolved, or in no session any more.
  The last one is the heart of `ReadonlyWhileRegistered`: if
  the client is still listed at the second lookup, it is listed under that ID,
  so the flag that is read is its own.  Two mode-dependent facts complete
  it (`ModeInv`): on a `--readonly` server no write is under way and nothing was
  written (`ReadonlyServerSafe`; `ReadonlyServerWritesNothing`, of the one in the sum);
  with `--sessions` no ID has an entry before it was issued, so `Put`
  never replaces one, whence `NoLeakInSessionsMode`.
  The refinement `ImplementsContract`: each step of a request is one step of one
  connection of the contract, or none.  `RegisterConnection` maps to `List` or,
  when it replaces an entry, `Replace`.
* `StoresProofs`.  Of the tickets: type, cap (the store is finite, a sweep only
  shrinks it, an issue adds one to less than the cap) and `ImplementsTicketContract`
  (the tickets a sweep leaves are exactly those the contract calls good).  Of the
  history: `HistoryIsOrdered` needs no more than that each slot's list is in order
  and within the cap (`ListsOrdered`), whichever slot a changed key leads to.
  `LatestFirst` speaks of one session whose queries come without the header; then
  (`OneSession`) there is one slot, filed under the constant, whose entries are the
  last of the log, `Latest`, which appending and cutting at the cap keep.  With the
  header it does not hold, since a changed key splits the list.
* `ExportFlowProofs`.  `FlowImplementsSessions`: to the registry a request for a
  ticket is one more scoped read, and a download is nothing, so every theorem about
  `Sessions` holds of the composition (`NoLeakUnderExports` is one).
  `FlowImplementsTickets` is the other half: to the store, sessions are nothing, and
  what is issued names a session and a client because a handler that runs has both
  in hand, which is the type invariant of `Sessions`.  For
  `ExportsFromIssuer` the notion that lasts is `LeadsTo(id, c)`: the ID was handed
  out, and while it leads anywhere it leads to c.  With `--sessions` no step
  changes that (`LeadingLasts`), as an ID is handed out once.  It holds of what a
  request uses from its lookup on (`SessionsLead`), hence of the ticket it is
  issued, of the ticket when it is claimed, and of the client that the download
  looks up (`TicketsLead`).
* `RedisKeysProofs`.  `KInv` says that each program point belongs to the methods
  that send its command, that what was collected, and what is still to be
  renamed, is of the collection, and that while SCAN goes on whatever it returned
  is collected.  When the cursor comes back to 0 its guarantee turns the last
  part into `ScanMissesNothing`, whence `DropLeavesNothing`; the second part
  gives `OnlyOwnKeys`.  `CallTypes` completes the types: a value is only read as of a
  type that some key had, whence `ReadsAreWhole` under any number of foreign writes.
  The three exactness theorems follow a call that nobody disturbed command by
  command.  `WriteInv` says what the database is between DEL, the write and EXPIRE;
  `CollectionInv` that the scan has found each key once and that the keys renamed so
  far, and no others, have moved (`Moved`), which stays true when a target is itself
  a source still to be renamed; `ReadInv` that the documents read so far are the
  first of the page.  The page is a slice of a sorted list: sorting is by rank
  (`Rank`, `Sorted`), the number of keys that come before, so that it can be
  reasoned about without induction over sequences.
  The run `redis_rename` shows that a rename can lose keys, in two ways: of the group
  without a prefix, and along a chain, where the new name of one key is the old name
  of another (`a` to `a:b`).  What `LoneCollectionCallIsExact` says of values is
  therefore weaker for a chain (`NoChain`), and the theorems about
  `PrefixedKeysMove` and `PrefixedRenameKeepsEveryKey` have the condition `SafeName`:
  the new name has no `:`, or there is no chain.  Then two keys of a prefix differ
  in their rests, which the new names keep, so that keys before and after correspond
  one to one.  That `r:s` and `r:t` differ if s and t do is all that is assumed of
  joining.
* `WebPagesProofs`.  `ConsoleConfirmsWipes` says that a text in which the code sees a
  wipe runs only after one of the names seen was typed, not that every wipe does.  For the console, `ConsoleInv` adds to the types that the
  editor has the script of its collection, that a run is heard only while the
  screen it was sent from is there, and that what is heard is the latest run, of
  which there is one at most: the race of two runs that `ResultsAreOfLatestRun`
  excludes.  For the navigation, `NavInv` is `PageInv`, the page against its
  entry and the query against its collection, and `SidebarInv`.
  `ErrorsAreOfThisOpening` alone is not inductive, as the error comes with a later
  step: what is needed is that a mutation of the open dialog's kind that is still
  heard was submitted since it opened, which is what the reset in `OpenDialog`
  establishes.
* `WebEditorsProofs`.  `DraftInv` (the editor has the draft of its collection, an
  editor that is away none) is kept by each of the ways to a collection.
  `UpdateInv` follows an update from the count to the request.  For
  `SavesWhatItLoaded`, `SaveInv` says that the text of an editor whose document is
  in the cache is of that document, whatever answers and moves came before.
  `EscapeIsForInnermost` rests on `StackInv`: the stack is at every moment the one
  the open dialogs imply (`Nested`), whichever effect of which dialog pushed or
  removed last.  For `SaveKeepsWhatWasLoaded`, `FormInv`: a form that may be saved
  was filled from its key (`FilledInv`); one that neither the user nor another client
  touched was read of what the key holds, all of it if the reading was `exact`
  (`Told`), and so was the mutation it sent (`SentInv`).  That needs that the form
  builds back the value it was filled with, if no row is empty (`Built`,
  `NonEmptyRows`); that rows that went through JSON once do not change again
  (`JsonRows`); and that time passing keeps either side what the other was read of
  (`ToldLater`, `Expires`).  What a save leaves is nothing, what was there, or read of
  it, however it ends (`LeftOfKey`, `ReplaceLeaves`).
* `WebListProofs`.  `EnabledIsAsked`, a query that is enabled has been asked, is what
  makes rows of another query always come with a load under way, and so
  `OldRowsAreMarked`.  Every step that starts the query does so with the guard open
  (`StartsEnabled`), and the guard opens for a large page only by what was
  agreed, whence `LargeLoadIsAgreed`.  `WholePages` is arithmetic of multiples,
  which the solver gets through once a page is named as a factor (`NumberOfPages`).
  For `RowsReplacedByOwn`, `RowsInv`: an answer under way is of the session its
  request names, and a request that no switch overtook was sent for the session
  stored now, because what stores another one gives up the request of every query
  that is shown and has data.  The condition `~overtaken` is what the code lacks:
  without it TLC finds the answer of the session before among the rows.
  `LiveSessionIsKept` needs `KeptInv`: a connection that is gone stays gone, and the
  stored one, if the list under way misses it, is.  Its theorem assumes that no
  server has a session secret; with one the promise is broken (`web_signed`).
* `IndexEditProofs`.  A save keeps the collection it was started in, and nothing is
  edited in the panel but what it shows, so an edit is of its own collection
  (`SoundSave`).  `Brought` says how far a save has brought the indexes as long as
  nobody else touched them: all there, all but the edited one, or at least these.
  `SaveTouchesOwnIndex` and `EditIsWholeOrUndone` follow request by request, and a
  change by anyone else (`Disturbed`) ends the second promise, not the first.

Model-checked only: liveness (`SharedDetachedIsClosed`), which needs fairness and
ENABLED; and the disagreements of the runs that expect a violation.  The types of
the gate (`SessionTypeCorrect`) come with the list's proofs: a query has one request
and one answer at most (`FewOf`), and a screen waits only for connects it sent
(`ScreenInv`).

## Not modelled, and what is left

| Left out | Why |
|---|---|
| MongoDB driver | each method is one call of the official driver, whose atomicity is the server's; the methods of several calls only read |
| BSON and Extended JSON conversion, export formats | structural recursion and rendering, under unit tests |
| document and console handlers | parsing of a request and one driver call, or a loop over lines, failing ones included; what they record is in `QueryHistory`, what limit and skip do in `RedisKeys` |
| Redis connection pools | that one can be opened after `Close` is `LazyPools` of `Sessions`; how many there are makes no difference |
| bookmarks | only loaded: `Save` has no caller in the program |
| command-line options | read once, at the start |
| verification of a signature | `Reached` of `WebSession` says what it lets through |
| schema, tools and server information panels; Explain and Export | they show or download a result and keep no state that anything depends on |
| rendering, translations, static files, TLS, basic authentication | no state |

Of `RedisKeys` are missing: generated IDs (an insert on a key that is absent),
`$keyPattern`, types the driver refuses, the sizes `Stats` samples, retries of a
command inside go-redis; of `QueryHistory` two lists of corrupted slots that share a
backing array, which could only corrupt them further; of `RedisForm` a ttl that is
not a whole number, which `RedisKeys` has; of the web client retries of react-query,
and requests it holds back while the browser is offline, when rows of the page left
stay without a mark.

Where a property names an exception because the code does less than a document or a
comment of the repository says:

| Property | Excepted | Said |
|---|---|---|
| `LatestFirst` | sessions that a header names, in single-connection mode `default` after a connect through the form | `web/src/api/http.ts:4-6`: in that mode every request goes out with no header; `docs/features/history.md:3`: the tab lists the queries of the session |
| `WipesAreConfirmed` | a name in quotes, which is not seen; the second of two names, which is not asked for | `docs/features/documents.md:105`: type the name to confirm |
| `RowsReplacedByOwn` | an answer on its way when the session was set, to a query that was hidden (those of the other tabs, as the switch is made on the Server tab) or had no data: it is joined when the query is shown, and its rows count as new | `docs/features/server-and-sessions.md:26-28`: switching reloads data |
| `SaveKeepsWhatWasLoaded` | bytes that are not valid UTF-8, which `json.Marshal` replaces, so that saving an untouched binary value changes it | `pkg/redis/codec.go:11-14`: JSON round-trips Redis values exactly |

`docs/features/redis-valkey.md:35-36` says that the ttl is shown but not editable in
the form; it is an input whose text is sent with every save, which `EditTtl` models.

Worth proving next: that the driver's undisturbed calls implement one specification
in which each call is a single step, of which the three exactness theorems are the
parts; and a contract common to the editors (load, edit, send, land), with what
`SavesWhatItLoaded` excepts named in it.

Behaviour that is modelled although nothing in the repository says what it should
be, so that no property holds the code to it:

* A replace of a Redis key deletes it before it validates the document, so a
  document it refuses costs the key; one key of a page that expires between SCAN
  and TYPE turns the whole page into a 404; concurrent writes of one container
  merge; a rename that fails half way leaves the collection in two.
* An aggregation that is answered late is shown as the rows of the collection
  selected by then.
* The last pick of the results' menu is written again over whatever draft the
  editor mounts with.  A replay from the History tab runs at once, and leaves an
  existing draft as it was; `docs/features/history.md:4-6` describes the reverse.
* A first load of rows in flight at a switch of session is joined, and shows the
  rows of the session before; rows that nothing replaces stay those of the session
  before.
* A ttl that is missed when a key is loaded (TTL fails, or less than a second is
  left) makes the key permanent at the next save of the form.  A save that fails may
  have deleted the key, or made it permanent, and the form stays open over it.
* Editing an index drops what a request cannot carry of its options, a collation for
  example, and a restore after a failed edit does too, though it says `restored`.
* A mutation of the sidebar, or of an editor, that succeeds late closes whichever
  dialog, or editor, is open by then.  A wipe's dialog closes before its result is
  known.
* The number-precision dialog of the document editor does not look again at what
  is loaded: confirmed after Back, it saves one document's text over another, which
  `SavesWhatItLoaded` excepts.
* Rows of a page that was left stay clickable while the next one loads.

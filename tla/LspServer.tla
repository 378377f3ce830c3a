------------------------------ MODULE LspServer ------------------------------
(***************************************************************************)
(* The diagnostics side of the language server: crates/lsp/src/main.rs.     *)
(*                                                                         *)
(* An editor opens, edits, saves and closes files.  Its notifications reach *)
(* the server in order but late.  The first open and every accepted save    *)
(* queue a run of the analysis; `analysis_guard' lets one run at a time.  A *)
(* run snapshots the open documents, reads every file from DISK, and then   *)
(* pushes and caches the findings of each file unless the snapshot shows    *)
(* that the file is stale.  Clients that pull are answered from the cache.  *)
(*                                                                         *)
(* The findings of a file are abstracted to the text they were computed     *)
(* from.                                                                    *)
(***************************************************************************)
EXTENDS Integers, Sequences, FiniteSets

CONSTANTS
    Uris,          \* files of the workspace
    Texts,         \* what a file can contain
    Clean,         \* texts without findings
    Muted,         \* texts all of whose findings have a disabled code
    PullClient,    \* TRUE: the editor uses textDocument/diagnostic
    ResetVersions, \* TRUE: a reopened document starts again at version 1
    MayFail,       \* TRUE: an analysis may panic or fail to load its config
    MaxEvents,     \* bound: things the editor's user does
    MaxInbox       \* bound: notifications on their way to the server

None == "none"     \* no text, no findings

ASSUME LspAssumption ==
    /\ Clean \subseteq Texts
    /\ Muted \subseteq Texts
    /\ None \notin Texts
    /\ {PullClient, ResetVersions, MayFail} \subseteq BOOLEAN
    /\ MaxEvents \in Nat
    /\ MaxInbox \in Nat

VARIABLES
    disk,      \* each file on disk
    buf,       \* the editor's documents
    inbox,     \* notifications the server has not handled yet
    pushed,    \* findings the editor shows from publishDiagnostics
    pulled,    \* findings the editor shows from textDocument/diagnostic
    owed,      \* documents the editor is about to pull
    refresh,   \* a workspace/diagnostic/refresh is on its way to the editor
    events,    \* what the user has done so far, for the bound
    documents, \* the server's open documents
    opening,   \* did_open handlers past their insert
    pulling,   \* diagnostic handlers: "no", "clear" or "reply"
    clientPulls, startupStarted,
    recent,    \* less than 500 ms since the last accepted did_save
    life,      \* "running", "cancelled" (shutdown called), "replied"
    waiting,   \* run_analysis calls waiting for analysis_guard
    phase,     \* where the run that holds analysis_guard is
    snap,      \* its snapshot of the open documents
    unread,    \* files it has yet to read
    seen,      \* what it read of each file; None: it reports nothing there
    live,      \* live_documents, read when it starts to publish
    usePull,   \* client_pulls, read at the same moment
    todo,      \* files with findings it has yet to publish
    newUris,   \* new_uris
    previous,  \* previous_diagnostic_uris
    cache,     \* cached_diagnostics
    results,   \* what code actions, lenses and hovers are built from
    calm,      \* history: nothing happened to files or documents since snap
    touched,   \* history: files another program wrote, or the editor reopened, since
               \* snap was taken
    unanalysed \* history: files whose save was accepted since snap was taken

editor   == <<disk, buf, events, calm, touched>>
client   == <<pulled, owed>>
handlers == <<documents, opening, startupStarted, recent>>
pulls    == <<pulling, clientPulls>>
run      == <<snap, unread, seen, live, usePull, todo, newUris>>
store    == <<previous, cache, results>>
queue    == <<waiting, unanalysed>>

vars == <<editor, inbox, pushed, client, refresh, handlers, pulls, life,
          queue, phase, run, store>>

-----------------------------------------------------------------------------
\* A document is open when it has a text.  The editor remembers the last
\* version of a document it closed.
Closed == [version |-> 0, text |-> None]

IsOpen(d) == d.text # None

NoSnap == [version |-> 0, fresh |-> FALSE]

InSnap(u) == snap[u] # NoSnap

\* build_diagnostics: the files that have findings at all.
Reported(u) == seen[u] \in Texts \ Clean

\* filter_disabled_diagnostics: what is left of the findings for a text.
Diagnostics(t) == IF t \in Clean \cup Muted THEN None ELSE t

OpenDocs(d) == {u \in Uris : IsOpen(d[u])}

Document == [version : Nat, text : Texts \cup {None}]

Message == [kind : {"open", "change", "save", "close"}, uri : Uris, doc : Document]

Findings == [Uris -> Texts \cup {None}]

EditorTypeOK ==
    /\ disk \in [Uris -> Texts]
    /\ buf \in [Uris -> Document]
    /\ events \in Nat
    /\ calm \in BOOLEAN
    /\ touched \subseteq Uris
    /\ inbox \in Seq(Message)

ClientTypeOK ==
    /\ pushed \in Findings
    /\ pulled \in Findings
    /\ owed \subseteq Uris
    /\ refresh \in BOOLEAN

ServerTypeOK ==
    /\ documents \in [Uris -> Document]
    /\ opening \subseteq Uris
    /\ startupStarted \in BOOLEAN
    /\ recent \in BOOLEAN
    /\ pulling \in [Uris -> {"no", "clear", "reply"}]
    /\ clientPulls \in BOOLEAN
    /\ life \in {"running", "cancelled", "replied"}
    /\ waiting \in Nat
    /\ unanalysed \subseteq Uris

RunTypeOK ==
    /\ phase \in {"idle", "reading", "apply", "publish", "store"}
    /\ snap \in [Uris -> [version : Nat, fresh : BOOLEAN]]
    /\ unread \subseteq Uris
    /\ seen \in Findings
    /\ live \in [Uris -> Document]
    /\ usePull \in BOOLEAN
    /\ todo \subseteq Uris
    /\ newUris \subseteq Uris

StoreTypeOK ==
    /\ previous \subseteq Uris
    /\ cache \in Findings
    /\ results \in Findings

TypeOK == EditorTypeOK /\ ClientTypeOK /\ ServerTypeOK /\ RunTypeOK /\ StoreTypeOK

Init ==
    /\ disk \in [Uris -> Texts]
    /\ buf = [u \in Uris |-> Closed]
    /\ inbox = <<>>
    /\ pushed = [u \in Uris |-> None]
    /\ pulled = [u \in Uris |-> None]
    /\ owed = {}
    /\ refresh = FALSE
    /\ events = 0
    /\ documents = [u \in Uris |-> Closed]
    /\ opening = {}
    /\ pulling = [u \in Uris |-> "no"]
    /\ clientPulls = FALSE
    /\ startupStarted = FALSE
    /\ recent = FALSE
    /\ life = "running"
    /\ waiting = 0
    /\ phase = "idle"
    /\ snap = [u \in Uris |-> NoSnap]
    /\ unread = {}
    /\ seen = [u \in Uris |-> None]
    /\ live = [u \in Uris |-> Closed]
    /\ usePull = FALSE
    /\ todo = {}
    /\ newUris = {}
    /\ previous = {}
    /\ cache = [u \in Uris |-> None]
    /\ results = [u \in Uris |-> None]
    /\ calm = FALSE
    /\ touched = {}
    /\ unanalysed = {}

-----------------------------------------------------------------------------
(* The editor.  It sends nothing more once it has asked for a shutdown. *)

UserActs ==
    /\ life = "running"
    /\ events < MaxEvents
    /\ events' = events + 1
    /\ calm' = FALSE

Send(kind, u, d) ==
    /\ Len(inbox) < MaxInbox
    /\ inbox' = Append(inbox, [kind |-> kind, uri |-> u, doc |-> d])

\* The editor pulls a document it opened or changed.
WillPull(u) == IF PullClient THEN owed \cup {u} ELSE owed

ClientOpen(u) ==
    /\ UserActs
    /\ ~IsOpen(buf[u])
    /\ LET d == [version |-> IF ResetVersions THEN 1 ELSE buf[u].version + 1,
                 text |-> disk[u]]
       IN  buf' = [buf EXCEPT ![u] = d] /\ Send("open", u, d)
    /\ touched' = touched \cup {u}
    /\ owed' = WillPull(u)
    /\ UNCHANGED <<disk, pushed, pulled, refresh, handlers, pulls, life, queue, phase, run, store>>

ClientEdit(u, t) ==
    /\ UserActs
    /\ IsOpen(buf[u]) /\ t # buf[u].text
    /\ LET d == [version |-> buf[u].version + 1, text |-> t]
       IN  buf' = [buf EXCEPT ![u] = d] /\ Send("change", u, d)
    /\ owed' = WillPull(u)
    /\ UNCHANGED <<disk, touched, pushed, pulled, refresh, handlers, pulls, life, queue, phase, run,
                   store>>

\* The file is on disk before the notification is sent.
ClientSave(u) ==
    /\ UserActs
    /\ IsOpen(buf[u])
    /\ disk' = [disk EXCEPT ![u] = buf[u].text]
    /\ Send("save", u, Closed)
    /\ UNCHANGED <<buf, touched, pushed, client, refresh, handlers, pulls, life, queue, phase, run,
                   store>>

\* Unsaved changes are discarded, and with them the pulled findings.
ClientClose(u) ==
    /\ UserActs
    /\ IsOpen(buf[u])
    /\ buf' = [buf EXCEPT ![u].text = None]
    /\ Send("close", u, Closed)
    /\ pulled' = [pulled EXCEPT ![u] = None]
    /\ owed' = owed \ {u}
    /\ UNCHANGED <<disk, touched, pushed, refresh, handlers, pulls, life, queue, phase, run, store>>

\* Another program (git, a formatter, `fallow fix') writes a file, open or not.  An
\* editor that then reloads an open document goes on with ClientEdit.
ExternalWrite(u, t) ==
    /\ UserActs
    /\ t # disk[u]
    /\ disk' = [disk EXCEPT ![u] = t]
    /\ touched' = touched \cup {u}
    /\ UNCHANGED <<buf, inbox, pushed, client, refresh, handlers, pulls, life, queue, phase, run, store>>

\* The editor's mute toggle: refresh_diagnostics.
RefreshDiagnostics ==
    /\ life = "running"
    /\ clientPulls
    /\ refresh' = TRUE
    /\ UNCHANGED <<editor, inbox, pushed, client, handlers, pulls, life, queue, phase, run, store>>

\* The editor answers a refresh by pulling every open document again.
RefreshArrives ==
    /\ refresh
    /\ refresh' = FALSE
    /\ owed' = owed \cup OpenDocs(buf)
    /\ UNCHANGED <<editor, inbox, pushed, pulled, handlers, pulls, life, queue, phase, run, store>>

-----------------------------------------------------------------------------
(* The notification handlers, in arrival order. *)

Receive(kind, u) ==
    /\ inbox # <<>>
    /\ Head(inbox).kind = kind /\ Head(inbox).uri = u
    /\ inbox' = Tail(inbox)

\* Mutant: a run that is asked for while another is under way joins it.
RunAnalysisJoins ==
    waiting' = IF life = "running" /\ phase = "idle" THEN waiting + 1 ELSE waiting

\* run_analysis up to the guard: a cancelled server does not even queue.  (Without a
\* workspace root, which initialize sets once, it returns here as well: the sessions
\* modelled have one.)
RunAnalysis == waiting' = IF life = "running" THEN waiting + 1 ELSE waiting

DidOpen(u) ==
    /\ Receive("open", u)
    /\ documents' = [documents EXCEPT ![u] = Head(inbox).doc]
    /\ opening' = opening \cup {u}
    /\ UNCHANGED <<editor, pushed, client, refresh, startupStarted, recent, pulls, life, queue,
                   phase, run, store>>

\* The rest of did_open: a pulling client gets its push findings cleared, and
\* the first open of the session spawns the startup analysis.
FinishOpen(u) ==
    /\ u \in opening
    /\ opening' = opening \ {u}
    /\ pushed' = IF clientPulls THEN [pushed EXCEPT ![u] = None] ELSE pushed
    /\ refresh' = (refresh \/ clientPulls)
    /\ startupStarted' = TRUE
    /\ IF startupStarted THEN UNCHANGED waiting ELSE RunAnalysis
    /\ UNCHANGED <<editor, inbox, client, documents, recent, pulls, life, unanalysed, phase, run,
                   store>>

DidChange(u) ==
    /\ Receive("change", u)
    /\ documents' = [documents EXCEPT ![u] = Head(inbox).doc]
    /\ UNCHANGED <<editor, pushed, client, refresh, opening, startupStarted, recent, pulls, life,
                   queue, phase, run, store>>

DidClose(u) ==
    /\ Receive("close", u)
    /\ documents' = [documents EXCEPT ![u] = Closed]
    /\ UNCHANGED <<editor, pushed, client, refresh, opening, startupStarted, recent, pulls, life,
                   queue, phase, run, store>>

\* A save within 500 ms of the last accepted one is dropped.
DidSave(u) ==
    /\ Receive("save", u)
    /\ \/ recent /\ UNCHANGED <<recent, startupStarted, queue>>
       \/ /\ ~recent
          /\ recent' = TRUE
          /\ unanalysed' = unanalysed \cup {u}
          /\ startupStarted' = TRUE
          /\ RunAnalysis
    /\ UNCHANGED <<editor, pushed, client, refresh, documents, opening, pulls, life, phase, run,
                   store>>

DebounceExpires ==
    /\ recent
    /\ recent' = FALSE
    /\ UNCHANGED <<editor, inbox, pushed, client, refresh, documents, opening, startupStarted,
                   pulls, life, queue, phase, run, store>>

\* shutdown is the last thing the editor sends.
Shutdown ==
    /\ life = "running"
    /\ inbox = <<>>
    /\ life' = "cancelled"
    /\ calm' = FALSE
    /\ UNCHANGED <<disk, buf, events, touched, inbox, pushed, client, refresh, handlers, pulls, queue,
                   phase, run, store>>

\* It is answered when the guard is free or 250 ms have passed, so at any time.
ShutdownReplies ==
    /\ life = "cancelled"
    /\ life' = "replied"
    /\ UNCHANGED <<editor, inbox, pushed, client, refresh, handlers, pulls, queue, phase, run, store>>

-----------------------------------------------------------------------------
(* textDocument/diagnostic *)

DiagnosticArrives(u) ==
    /\ u \in owed /\ pulling[u] = "no"
    /\ IsOpen(documents[u])
    /\ life = "running"
    /\ owed' = owed \ {u}
    /\ clientPulls' = TRUE
    /\ pulling' = [pulling EXCEPT ![u] = IF clientPulls THEN "reply" ELSE "clear"]
    /\ UNCHANGED <<editor, inbox, pushed, pulled, refresh, handlers, life, queue, phase, run, store>>

\* The first pull of the session clears what was pushed for open documents.
ClearPushed(u) ==
    /\ pulling[u] = "clear"
    /\ pushed' = [v \in Uris |-> IF IsOpen(documents[v]) THEN None ELSE pushed[v]]
    /\ pulling' = [pulling EXCEPT ![u] = "reply"]
    /\ UNCHANGED <<editor, inbox, client, refresh, handlers, clientPulls, life, queue, phase, run,
                   store>>

DiagnosticReplies(u) ==
    /\ pulling[u] = "reply"
    /\ pulling' = [pulling EXCEPT ![u] = "no"]
    /\ pulled' = IF IsOpen(buf[u]) THEN [pulled EXCEPT ![u] = cache[u]] ELSE pulled
    /\ UNCHANGED <<editor, inbox, pushed, owed, refresh, handlers, clientPulls, life, queue, phase,
                   run, store>>

-----------------------------------------------------------------------------
(* run_analysis, by the holder of analysis_guard *)

\* Files with a didOpen on its way to the server.
OpensUnderWay ==
    {u \in Uris : \E i \in 1..Len(inbox) : inbox[i].kind = "open" /\ inbox[i].uri = u}

\* The guard is taken; a shutdown in the meantime ends the run here.
StartAnalysis ==
    /\ phase = "idle" /\ waiting > 0
    /\ life = "running"
    /\ waiting' = waiting - 1
    /\ phase' = "reading"
    /\ snap' = [u \in Uris |->
                  IF IsOpen(documents[u])
                  THEN [version |-> documents[u].version, fresh |-> documents[u].text = disk[u]]
                  ELSE NoSnap]
    /\ unread' = Uris
    /\ seen' = [u \in Uris |-> None]
    /\ calm' = (inbox = <<>>)
    /\ touched' = OpensUnderWay
    /\ unanalysed' = {}
    /\ UNCHANGED <<disk, buf, events, inbox, pushed, client, refresh, handlers, pulls, life, live,
                   usePull, todo, newUris, store>>

AbandonQueued ==
    /\ phase = "idle" /\ waiting > 0
    /\ life # "running"
    /\ waiting' = waiting - 1
    /\ UNCHANGED <<editor, inbox, pushed, client, refresh, handlers, pulls, life, unanalysed, phase,
                   run, store>>

\* spawn_blocking: the files are read one after the other.
ReadFile(u) ==
    /\ phase = "reading" /\ u \in unread
    /\ seen' = [seen EXCEPT ![u] = disk[u]]
    /\ unread' = unread \ {u}
    /\ UNCHANGED <<editor, inbox, pushed, client, refresh, handlers, pulls, life, queue, phase, snap,
                   live, usePull, todo, newUris, store>>

\* A config or an analysis error leaves the merged results empty.
LoadFails ==
    /\ MayFail
    /\ phase = "reading" /\ unread # {}
    /\ seen' = [u \in Uris |-> None]
    /\ unread' = {}
    /\ calm' = FALSE
    /\ UNCHANGED <<disk, buf, events, touched, inbox, pushed, client, refresh, handlers, pulls, life,
                   queue, phase, snap, live, usePull, todo, newUris, store>>

\* The blocking task panicked: the error is logged and the guard released.
AnalysisPanics ==
    /\ MayFail
    /\ phase = "reading" /\ unread # {}
    /\ phase' = "idle"
    /\ calm' = FALSE
    /\ UNCHANGED <<disk, buf, events, touched, inbox, pushed, client, refresh, handlers, pulls, life,
                   queue, run, store>>

\* Mutant: no cancellation check before publishing.
ApplyOutputAlways ==
    /\ phase = "reading" /\ unread = {}
    /\ phase' = "apply"
    /\ UNCHANGED <<editor, inbox, pushed, client, refresh, handlers, pulls, life, queue, run, store>>

\* apply_analysis_output: after a shutdown the results are dropped.
ApplyAnalysisOutput ==
    /\ phase = "reading" /\ unread = {}
    /\ phase' = IF life = "running" THEN "apply" ELSE "idle"
    /\ UNCHANGED <<editor, inbox, pushed, client, refresh, handlers, pulls, life, queue, run, store>>

BeginPublish ==
    /\ phase = "apply"
    /\ phase' = "publish"
    /\ live' = documents
    /\ usePull' = clientPulls
    /\ todo' = {u \in Uris : Reported(u)}
    /\ newUris' = {}
    /\ UNCHANGED <<editor, inbox, pushed, client, refresh, handlers, pulls, life, queue, snap,
                   unread, seen, store>>

\* Mutant: the snapshot does not record whether the buffer matched the disk.
VersionOnlyStale(u) ==
    \/ InSnap(u) /\ ~IsOpen(live[u])
    \/ InSnap(u) /\ IsOpen(live[u]) /\ live[u].version > snap[u].version
    \/ ~InSnap(u) /\ IsOpen(live[u]) /\ live[u].text # disk[u]

\* uri_is_stale.  A document opened during the run is compared with the disk
\* as it is now.
UriIsStale(u) ==
    \/ InSnap(u) /\ ~IsOpen(live[u])
    \/ InSnap(u) /\ IsOpen(live[u]) /\ (~snap[u].fresh \/ live[u].version > snap[u].version)
    \/ ~InSnap(u) /\ IsOpen(live[u]) /\ live[u].text # disk[u]

\* Open documents of a pulling client get no push.
Pushes(u) == ~usePull \/ ~IsOpen(live[u])

\* Mutant: a file whose findings are all disabled is skipped.
PublishOneSkipsEmpty(u) ==
    /\ phase = "publish" /\ u \in todo
    /\ todo' = todo \ {u}
    /\ newUris' = newUris \cup {u}
    /\ LET found == Diagnostics(seen[u])
       IN  IF UriIsStale(u) \/ found = None
           THEN UNCHANGED <<pushed, cache>>
           ELSE /\ pushed' = IF Pushes(u) THEN [pushed EXCEPT ![u] = found] ELSE pushed
                /\ cache' = [cache EXCEPT ![u] = found]
    /\ UNCHANGED <<editor, inbox, client, refresh, handlers, pulls, life, queue, phase, snap, unread,
                   seen, live, usePull, previous, results>>

\* One round of the loop of publish_collected_diagnostics.
PublishOne(u) ==
    /\ phase = "publish" /\ u \in todo
    /\ todo' = todo \ {u}
    /\ newUris' = newUris \cup {u}
    /\ LET found == Diagnostics(seen[u])
       IN  IF UriIsStale(u)
           THEN UNCHANGED <<pushed, cache>>
           ELSE /\ pushed' = IF Pushes(u) THEN [pushed EXCEPT ![u] = found] ELSE pushed
                /\ cache' = [cache EXCEPT ![u] = found]
    /\ UNCHANGED <<editor, inbox, client, refresh, handlers, pulls, life, queue, phase, snap, unread,
                   seen, live, usePull, previous, results>>

\* Mutant: a stale file's findings are kept but no longer tracked.
FinishPublishForgets ==
    /\ phase = "publish" /\ todo = {}
    /\ phase' = "store"
    /\ LET gone == {u \in previous \ newUris : ~UriIsStale(u)}
       IN  /\ previous' = newUris
           /\ cache' = [u \in Uris |-> IF u \in gone THEN None ELSE cache[u]]
           /\ pushed' = [u \in Uris |-> IF u \in gone /\ Pushes(u) THEN None ELSE pushed[u]]
    /\ refresh' = (refresh \/ usePull)
    /\ UNCHANGED <<editor, inbox, client, handlers, pulls, life, queue, run, results>>

\* Mutant: no refresh after the cache has changed.
FinishPublishSilent ==
    /\ phase = "publish" /\ todo = {}
    /\ phase' = "store"
    /\ LET gone == {u \in previous \ newUris : ~UriIsStale(u)}
       IN  /\ previous' = (newUris \cup previous) \ gone
           /\ cache' = [u \in Uris |-> IF u \in gone THEN None ELSE cache[u]]
           /\ pushed' = [u \in Uris |-> IF u \in gone /\ Pushes(u) THEN None ELSE pushed[u]]
    /\ UNCHANGED <<editor, inbox, client, refresh, handlers, pulls, life, queue, run, results>>

\* clear_stale_diagnostics, the new previous_diagnostic_uris and the refresh.
FinishPublish ==
    /\ phase = "publish" /\ todo = {}
    /\ phase' = "store"
    /\ LET old  == previous \ newUris
           kept == {u \in old : UriIsStale(u)}
           gone == old \ kept
       IN  /\ previous' = newUris \cup kept
           /\ cache' = [u \in Uris |-> IF u \in gone THEN None ELSE cache[u]]
           /\ pushed' = [u \in Uris |-> IF u \in gone /\ Pushes(u) THEN None ELSE pushed[u]]
    /\ refresh' = (refresh \/ usePull)
    /\ UNCHANGED <<editor, inbox, client, handlers, pulls, life, queue, run, results>>

\* The end of apply_analysis_output; the guard is released.
StoreResults ==
    /\ phase = "store"
    /\ phase' = "idle"
    /\ results' = seen
    /\ UNCHANGED <<editor, inbox, pushed, client, refresh, handlers, pulls, life, queue, run,
                   previous, cache>>

-----------------------------------------------------------------------------
Handle(u) == DidOpen(u) \/ DidChange(u) \/ DidClose(u) \/ DidSave(u)

Editor(u) ==
    \/ ClientOpen(u) \/ ClientSave(u) \/ ClientClose(u)
    \/ \E t \in Texts : ClientEdit(u, t) \/ ExternalWrite(u, t)

Pull(u) == DiagnosticArrives(u) \/ ClearPushed(u) \/ DiagnosticReplies(u)

Analyse ==
    \/ StartAnalysis \/ AbandonQueued \/ LoadFails \/ AnalysisPanics
    \/ ApplyAnalysisOutput \/ BeginPublish \/ FinishPublish \/ StoreResults
    \/ \E u \in Uris : ReadFile(u) \/ PublishOne(u)

Next ==
    \/ \E u \in Uris : Editor(u) \/ Handle(u) \/ FinishOpen(u) \/ Pull(u)
    \/ RefreshDiagnostics \/ RefreshArrives
    \/ DebounceExpires
    \/ Shutdown \/ ShutdownReplies
    \/ Analyse

Spec == Init /\ [][Next]_vars

\* The runtime polls every handler and every run to its end, messages arrive,
\* time passes, and a pulling editor sends the pulls it owes.  Nobody has to
\* touch a file, to shut down or to toggle the mute.
Fairness ==
    /\ \A u \in Uris : WF_vars(Handle(u)) /\ WF_vars(FinishOpen(u)) /\ WF_vars(Pull(u))
    /\ WF_vars(RefreshArrives)
    /\ WF_vars(DebounceExpires)
    /\ WF_vars(ShutdownReplies)
    /\ WF_vars(Analyse)

FairSpec == Spec /\ Fairness

-----------------------------------------------------------------------------
(* Properties *)

\* A document that was open at the snapshot and is not stale was read with the
\* very text the editor shows, whatever was edited, saved or closed while the
\* run was reading (uri_is_stale, first two arms).  The arms compare versions, which
\* do not tell that another program wrote the file during the run, nor, where the
\* editor restarts versions, that the document was reopened: such a document is left
\* out.  (Where versions only grow, a reopened document is always stale.)
NonStaleIsCurrent ==
    phase = "publish" =>
        \A u \in Uris \ touched :
            InSnap(u) /\ IsOpen(live[u]) /\ live[u] = buf[u] /\ ~UriIsStale(u)
                => seen[u] \in {live[u].text, None}

\* Every finding the server has cached, and every one a push-only editor
\* shows, is in the set the next run clears from: none can be orphaned by a
\* skipped or a failed run (publish_collected_diagnostics, clear_stale_diagnostics).
TrackedForClearing ==
    \A u \in Uris :
        (cache[u] # None \/ (pushed[u] # None /\ ~clientPulls))
            => u \in previous \/ (phase = "publish" /\ u \in newUris)

\* When nothing happened to the files since the last run took its snapshot,
\* what the server holds and a push-only editor shows is exactly what the disk
\* says, for every file that is closed or open without unsaved changes.
CalmConverged ==
    phase = "idle" /\ calm =>
        /\ results = disk
        /\ \A u \in Uris :
             ~IsOpen(documents[u]) \/ documents[u].text = disk[u] =>
                 /\ cache[u] = Diagnostics(disk[u])
                 /\ ~clientPulls => pushed[u] = Diagnostics(disk[u])

\* Nothing is on its way between editor and server and no run is active.
Quiet ==
    /\ phase = "idle" /\ waiting = 0
    /\ inbox = <<>> /\ opening = {}
    /\ owed = {} /\ ~refresh
    /\ \A u \in Uris : pulling[u] = "no"

\* When the last run knew that the client pulls, an editor at rest shows for
\* every open document what the cache holds: no update of the cache goes
\* without a refresh that comes after it.
PulledMatchesCache ==
    Quiet /\ usePull /\ life = "running" =>
        \A u \in OpenDocs(buf) : pulled[u] = cache[u]

\* After shutdown a run that has not begun to publish never does: what it
\* computed is dropped (cancellation checks of run_analysis, apply_analysis_output).
CancelDropsResults ==
    [][life # "running" /\ phase \in {"idle", "reading"}
          => phase' \in {"idle", "reading"} /\ UNCHANGED store /\ waiting' <= waiting]_vars

\* An accepted save is followed by a run whose snapshot is younger than the save,
\* also when it arrives in the middle of a run that has already read the file
\* (did_save, run_analysis). A save inside the window is dropped for good.
AcceptedSaveAnalysed ==
    \A u \in Uris : u \in unanalysed ~> (u \notin unanalysed \/ life # "running")

=============================================================================

--------------------------- MODULE LspServerProofs ---------------------------
(***************************************************************************)
(* What LspServer guarantees for any number of files and texts and any      *)
(* bounds: types, dropped results after a shutdown, tracked findings, and   *)
(* that findings which pass for current were computed from the current text. *)
(***************************************************************************)
EXTENDS LspServer, TLAPS

-----------------------------------------------------------------------------
(* Type correctness, group by group of variables. *)

\* What a notification adds to the inbox.
LEMMA SendType ==
  ASSUME NEW u \in Uris, NEW k \in {"open", "change", "save", "close"},
         NEW d \in Document, inbox \in Seq(Message), Send(k, u, d)
  PROVE  inbox' \in Seq(Message)
<1>1. [kind |-> k, uri |-> u, doc |-> d] \in Message
  BY DEF Message
<1>. QED BY <1>1 DEF Send

\* A received notification is one the editor sent.
LEMMA ReceiveType ==
  ASSUME inbox \in Seq(Message), inbox # <<>>
  PROVE  /\ Head(inbox) \in Message
         /\ Head(inbox).doc \in Document
         /\ Tail(inbox) \in Seq(Message)
<1>1. Head(inbox) \in Message /\ Tail(inbox) \in Seq(Message)
  OBVIOUS
<1>. QED BY <1>1 DEF Message

\* The findings shown or cached for one file are replaced.
LEMMA UpdateType ==
  ASSUME NEW f \in Findings, NEW u \in Uris, NEW x \in Texts \cup {None}
  PROVE  [f EXCEPT ![u] = x] \in Findings
BY DEF Findings

\* A closed document is a document.
LEMMA ClosedType == Closed \in Document
BY DEF Closed, Document

\* Steps of the editor.
LEMMA EditorType ==
  ASSUME TypeOK, NEW u \in Uris, Editor(u)
  PROVE  TypeOK'
<1>. USE DEF TypeOK
<1>0. ASSUME UserActs PROVE events' \in Nat /\ calm' \in BOOLEAN
  <2>1. events' \in Nat
    BY <1>0 DEF UserActs, EditorTypeOK
  <2>2. calm' \in BOOLEAN
    BY <1>0, Zenon DEF UserActs
  <2>. QED BY <2>1, <2>2
<1>1. CASE ClientOpen(u)
  <2>. DEFINE d == [version |-> IF ResetVersions THEN 1 ELSE buf[u].version + 1, text |-> disk[u]]
  <2>1. d \in Document
    BY DEF EditorTypeOK, Document
  <2>2. EditorTypeOK'
    <3>1. inbox' \in Seq(Message)
      BY <1>1, <2>1, SendType DEF ClientOpen, EditorTypeOK
    <3>. QED BY <1>0, <1>1, <2>1, <3>1 DEF ClientOpen, EditorTypeOK
  <2>3. ClientTypeOK'
    BY <1>1 DEF ClientOpen, ClientTypeOK, WillPull
  <2>4. ServerTypeOK' /\ RunTypeOK' /\ StoreTypeOK'
    BY <1>1 DEF ClientOpen, ServerTypeOK, RunTypeOK, StoreTypeOK, handlers, pulls, queue, run, store
  <2>. QED BY <2>2, <2>3, <2>4
<1>2. ASSUME NEW t \in Texts, ClientEdit(u, t) PROVE TypeOK'
  <2>. DEFINE d == [version |-> buf[u].version + 1, text |-> t]
  <2>1. d \in Document
    BY DEF EditorTypeOK, Document
  <2>2. EditorTypeOK'
    <3>1. inbox' \in Seq(Message)
      BY <1>2, <2>1, SendType DEF ClientEdit, EditorTypeOK
    <3>. QED BY <1>0, <1>2, <2>1, <3>1 DEF ClientEdit, EditorTypeOK
  <2>3. ClientTypeOK'
    BY <1>2 DEF ClientEdit, ClientTypeOK, WillPull
  <2>4. ServerTypeOK' /\ RunTypeOK' /\ StoreTypeOK'
    BY <1>2 DEF ClientEdit, ServerTypeOK, RunTypeOK, StoreTypeOK, handlers, pulls, queue, run, store
  <2>. QED BY <2>2, <2>3, <2>4
<1>3. CASE ClientSave(u)
  <2>1. EditorTypeOK'
    <3>1. inbox' \in Seq(Message)
      BY <1>3, ClosedType, SendType DEF ClientSave, EditorTypeOK
    <3>2. buf[u].text \in Texts
      BY <1>3 DEF ClientSave, IsOpen, EditorTypeOK, Document
    <3>. QED BY <1>0, <1>3, <3>1, <3>2 DEF ClientSave, EditorTypeOK
  <2>2. ClientTypeOK' /\ ServerTypeOK' /\ RunTypeOK' /\ StoreTypeOK'
    BY <1>3 DEF ClientSave, ClientTypeOK, ServerTypeOK, RunTypeOK, StoreTypeOK, client, handlers,
       pulls, queue, run, store
  <2>. QED BY <2>1, <2>2
<1>4. CASE ClientClose(u)
  <2>1. EditorTypeOK'
    <3>1. inbox' \in Seq(Message)
      BY <1>4, ClosedType, SendType DEF ClientClose, EditorTypeOK
    <3>2. [buf[u] EXCEPT !.text = None] \in Document
      BY DEF EditorTypeOK, Document
    <3>. QED BY <1>0, <1>4, <3>1, <3>2 DEF ClientClose, EditorTypeOK
  <2>2. ClientTypeOK'
    BY <1>4 DEF ClientClose, ClientTypeOK, Findings
  <2>3. ServerTypeOK' /\ RunTypeOK' /\ StoreTypeOK'
    BY <1>4 DEF ClientClose, ServerTypeOK, RunTypeOK, StoreTypeOK, handlers, pulls, queue, run, store
  <2>. QED BY <2>1, <2>2, <2>3
<1>5. ASSUME NEW t \in Texts, ExternalWrite(u, t) PROVE TypeOK'
  BY <1>0, <1>5 DEF ExternalWrite, EditorTypeOK, ClientTypeOK, ServerTypeOK, RunTypeOK, StoreTypeOK,
     client, handlers, pulls, queue, run, store
<1>. QED BY <1>1, <1>2, <1>3, <1>4, <1>5 DEF Editor

\* Steps of the handlers.
LEMMA HandlerType ==
  ASSUME TypeOK, NEW u \in Uris, Handle(u) \/ FinishOpen(u) \/ Pull(u)
  PROVE  TypeOK'
<1>. USE DEF TypeOK, EditorTypeOK, ClientTypeOK, ServerTypeOK, RunTypeOK, StoreTypeOK,
        editor, client, handlers, pulls, queue, run, store
<1>1. CASE DidOpen(u)
  BY <1>1, ReceiveType DEF DidOpen, Receive
<1>2. CASE DidChange(u)
  BY <1>2, ReceiveType DEF DidChange, Receive
<1>3. CASE DidClose(u)
  BY <1>3, ReceiveType, ClosedType DEF DidClose, Receive
<1>4. CASE DidSave(u)
  <2>1. inbox' \in Seq(Message)
    BY <1>4, ReceiveType DEF DidSave, queue, Receive
  <2>2. waiting' \in Nat
    BY <1>4 DEF DidSave, RunAnalysis, queue
  <2>3. recent' \in BOOLEAN /\ startupStarted' \in BOOLEAN
    BY <1>4, Zenon DEF DidSave, queue
  <2>. QED BY <1>4, <2>1, <2>2, <2>3 DEF DidSave, queue
<1>5. CASE FinishOpen(u)
  <2>1. pushed' \in Findings
    BY <1>5 DEF FinishOpen, Findings
  <2>2. waiting' \in Nat
    BY <1>5 DEF FinishOpen, RunAnalysis
  <2>3. refresh' \in BOOLEAN
    BY <1>5 DEF FinishOpen
  <2>. QED BY <1>5, <2>1, <2>2, <2>3 DEF FinishOpen
<1>6. CASE DiagnosticArrives(u)
  BY <1>6 DEF DiagnosticArrives
<1>7. CASE ClearPushed(u)
  BY <1>7 DEF ClearPushed, Findings
<1>8. CASE DiagnosticReplies(u)
  BY <1>8 DEF DiagnosticReplies, Findings
<1>. QED BY <1>1, <1>2, <1>3, <1>4, <1>5, <1>6, <1>7, <1>8 DEF Handle, Pull

\* Steps of the run that holds the guard.
LEMMA AnalyseType ==
  ASSUME TypeOK, Analyse
  PROVE  TypeOK'
<1>. USE DEF TypeOK, EditorTypeOK, ClientTypeOK, ServerTypeOK, RunTypeOK, StoreTypeOK,
        editor, client, handlers, pulls, queue, run, store
<1>1. CASE StartAnalysis
  <2>1. snap' \in [Uris -> [version : Nat, fresh : BOOLEAN]]
    BY <1>1 DEF StartAnalysis, NoSnap, Document
  <2>2. calm' \in BOOLEAN
    BY <1>1 DEF StartAnalysis
  <2>3. seen' \in Findings
    BY <1>1 DEF StartAnalysis, Findings
  <2>4. touched' \subseteq Uris
    BY <1>1 DEF StartAnalysis, OpensUnderWay
  <2>. QED BY <1>1, <2>1, <2>2, <2>3, <2>4 DEF StartAnalysis
<1>2. CASE AbandonQueued \/ ApplyAnalysisOutput
  BY <1>2 DEF AbandonQueued, ApplyAnalysisOutput
<1>3. CASE LoadFails \/ AnalysisPanics
  <2>1. calm' \in BOOLEAN
    BY <1>3, Zenon DEF LoadFails, AnalysisPanics
  <2>. QED BY <1>3, <2>1 DEF LoadFails, AnalysisPanics, Findings
<1>4. CASE BeginPublish \/ StoreResults
  BY <1>4 DEF BeginPublish, StoreResults
<1>5. CASE FinishPublish
  <2>1. previous' \subseteq Uris
    BY <1>5 DEF FinishPublish
  <2>2. cache' \in Findings /\ pushed' \in Findings
    BY <1>5 DEF FinishPublish, Findings
  <2>3. refresh' \in BOOLEAN
    BY <1>5 DEF FinishPublish
  <2>. QED BY <1>5, <2>1, <2>2, <2>3 DEF FinishPublish
<1>6. ASSUME NEW u \in Uris, ReadFile(u) PROVE TypeOK'
  BY <1>6 DEF ReadFile, Findings
<1>7. ASSUME NEW u \in Uris, PublishOne(u) PROVE TypeOK'
  <2>1. Diagnostics(seen[u]) \in Texts \cup {None}
    BY DEF Diagnostics, Findings
  <2>2. cache' \in Findings /\ pushed' \in Findings
    <3>1. CASE UriIsStale(u)
      BY <1>7, <3>1 DEF PublishOne
    <3>2. CASE ~UriIsStale(u)
      <4>1. /\ cache' = [cache EXCEPT ![u] = Diagnostics(seen[u])]
            /\ pushed' \in {pushed, [pushed EXCEPT ![u] = Diagnostics(seen[u])]}
        BY <1>7, <3>2, Zenon DEF PublishOne
      <4>2. [cache EXCEPT ![u] = Diagnostics(seen[u])] \in Findings
        BY <2>1, UpdateType, Zenon
      <4>3. [pushed EXCEPT ![u] = Diagnostics(seen[u])] \in Findings
        BY <2>1, UpdateType, Zenon
      <4>. QED BY <4>1, <4>2, <4>3, Zenon
    <3>. QED BY <3>1, <3>2
  <2>. QED BY <1>7, <2>2 DEF PublishOne
<1>. QED BY <1>1, <1>2, <1>3, <1>4, <1>5, <1>6, <1>7 DEF Analyse

\* The initial state has the types.
LEMMA TypeInit == Init => TypeOK
<1>. SUFFICES ASSUME Init PROVE TypeOK
  OBVIOUS
<1>1. /\ calm \in BOOLEAN /\ refresh \in BOOLEAN /\ usePull \in BOOLEAN
      /\ startupStarted \in BOOLEAN /\ recent \in BOOLEAN /\ clientPulls \in BOOLEAN
  BY Zenon DEF Init
<1>. QED BY <1>1 DEF Init, TypeOK, EditorTypeOK, ClientTypeOK, ServerTypeOK, RunTypeOK,
            StoreTypeOK, Closed, Document, Findings, NoSnap

\* Every step keeps the variables in their types.
LEMMA TypeStep == TypeOK /\ [Next]_vars => TypeOK'
<1>. SUFFICES ASSUME TypeOK, [Next]_vars PROVE TypeOK'
  OBVIOUS
<1>1. CASE \E u \in Uris : Editor(u) \/ Handle(u) \/ FinishOpen(u) \/ Pull(u)
  BY <1>1, EditorType, HandlerType
<1>2. CASE RefreshDiagnostics \/ RefreshArrives \/ DebounceExpires \/ Shutdown \/ ShutdownReplies
  <2>1. refresh' \in BOOLEAN /\ recent' \in BOOLEAN /\ calm' \in BOOLEAN
    BY <1>2, Zenon DEF TypeOK, EditorTypeOK, ClientTypeOK, ServerTypeOK, RefreshDiagnostics,
       RefreshArrives, DebounceExpires, Shutdown, ShutdownReplies, editor, handlers
  <2>. QED BY <1>2, <2>1 DEF TypeOK, EditorTypeOK, ClientTypeOK, ServerTypeOK, RunTypeOK, StoreTypeOK,
     RefreshDiagnostics, RefreshArrives, DebounceExpires, Shutdown, ShutdownReplies, OpenDocs,
     editor, client, handlers, pulls, queue, run, store
<1>3. CASE Analyse
  BY <1>3, AnalyseType
<1>4. CASE UNCHANGED vars
  BY <1>4 DEF TypeOK, EditorTypeOK, ClientTypeOK, ServerTypeOK, RunTypeOK, StoreTypeOK,
     vars, editor, client, handlers, pulls, queue, run, store
<1>. QED BY <1>1, <1>2, <1>3, <1>4 DEF Next

\* The type invariant of the server and its editor.
THEOREM TypeCorrect == Spec => []TypeOK
BY TypeInit, TypeStep, PTL DEF Spec

-----------------------------------------------------------------------------
(* Steps that are not of the run leave it and what it stored alone. *)

\* The steps of the editor, the handlers and the timers.
Outside ==
    \/ \E u \in Uris : Editor(u) \/ Handle(u) \/ FinishOpen(u) \/ Pull(u)
    \/ RefreshDiagnostics \/ RefreshArrives \/ DebounceExpires \/ Shutdown \/ ShutdownReplies
    \/ UNCHANGED vars

\* They touch neither the run nor the store, queue no run once the server is
\* cancelled, never forget that the client pulls, and only empty what is pushed.
LEMMA OutsideStep ==
  ASSUME TypeOK, Outside
  PROVE  /\ UNCHANGED <<phase, run, store>>
         /\ clientPulls => clientPulls'
         /\ \A v \in Uris : pushed'[v] \in {pushed[v], None}
         /\ life # "running" => waiting' <= waiting
<1>. USE DEF TypeOK, ClientTypeOK, ServerTypeOK, Findings
<1>1. ASSUME NEW u \in Uris, Editor(u)
      PROVE  UNCHANGED <<phase, run, store, clientPulls, pushed, waiting>>
  BY <1>1 DEF Editor, ClientOpen, ClientSave, ClientClose, ClientEdit, ExternalWrite, pulls, queue
<1>2. ASSUME NEW u \in Uris, DidOpen(u) \/ DidChange(u) \/ DidClose(u)
      PROVE  UNCHANGED <<phase, run, store, clientPulls, pushed, waiting>>
  BY <1>2 DEF DidOpen, DidChange, DidClose, pulls, queue
<1>3. ASSUME NEW u \in Uris, DidSave(u)
      PROVE  /\ UNCHANGED <<phase, run, store, clientPulls, pushed>>
             /\ life # "running" => waiting' <= waiting
  BY <1>3 DEF DidSave, RunAnalysis, pulls, queue
<1>4. ASSUME NEW u \in Uris, FinishOpen(u)
      PROVE  /\ UNCHANGED <<phase, run, store, clientPulls>>
             /\ \A v \in Uris : pushed'[v] \in {pushed[v], None}
             /\ life # "running" => waiting' <= waiting
  BY <1>4 DEF FinishOpen, RunAnalysis, pulls
<1>5. ASSUME NEW u \in Uris, Pull(u)
      PROVE  /\ UNCHANGED <<phase, run, store, waiting>>
             /\ clientPulls => clientPulls'
             /\ \A v \in Uris : pushed'[v] \in {pushed[v], None}
  <2>1. CASE DiagnosticArrives(u)
    BY <2>1 DEF DiagnosticArrives, queue
  <2>2. CASE ClearPushed(u)
    BY <2>2 DEF ClearPushed, queue
  <2>3. CASE DiagnosticReplies(u)
    BY <2>3 DEF DiagnosticReplies, queue
  <2>. QED BY <1>5, <2>1, <2>2, <2>3 DEF Pull
<1>6. ASSUME \/ RefreshDiagnostics \/ RefreshArrives \/ DebounceExpires \/ Shutdown
             \/ ShutdownReplies \/ UNCHANGED vars
      PROVE  UNCHANGED <<phase, run, store, clientPulls, pushed, waiting>>
  BY <1>6 DEF RefreshDiagnostics, RefreshArrives, DebounceExpires, Shutdown, ShutdownReplies,
     vars, pulls, queue
<1>. QED BY <1>1, <1>2, <1>3, <1>4, <1>5, <1>6 DEF Outside, Handle

LEMMA NextSplits == [Next]_vars => Outside \/ Analyse
BY DEF Next, Outside

-----------------------------------------------------------------------------
(* After a shutdown the results of a run are dropped. *)

\* Once shutdown was called, a run that has not begun to publish never does,
\* no run is queued, and nothing is cached, tracked or stored.
THEOREM ResultsDroppedAfterCancel == Spec => CancelDropsResults
<1>1. ASSUME TypeOK, [Next]_vars, life # "running", phase \in {"idle", "reading"}
      PROVE  phase' \in {"idle", "reading"} /\ UNCHANGED store /\ waiting' <= waiting
  <2>1. CASE Outside
    BY <1>1, <2>1, OutsideStep
  <2>2. CASE Analyse
    <3>1. waiting \in Nat
      BY <1>1 DEF TypeOK, ServerTypeOK
    <3>. QED BY <1>1, <2>2, <3>1 DEF Analyse, StartAnalysis, AbandonQueued, LoadFails,
                AnalysisPanics, ApplyAnalysisOutput, BeginPublish, FinishPublish, StoreResults,
                ReadFile, PublishOne, queue
  <2>. QED BY <1>1, <2>1, <2>2, NextSplits
<1>2. TypeOK /\ [Next]_vars =>
        [life # "running" /\ phase \in {"idle", "reading"}
            => phase' \in {"idle", "reading"} /\ UNCHANGED store /\ waiting' <= waiting]_vars
  BY <1>1
<1>. QED BY TypeCorrect, <1>2, PTL DEF Spec, CancelDropsResults

-----------------------------------------------------------------------------
(* Every finding is tracked until it is cleared. *)

\* A run that withholds pushes has seen a pull, and client_pulls is never reset.
TrackInv == TrackedForClearing /\ (usePull => clientPulls)

\* Every step preserves TrackInv.
LEMMA TrackStep ==
  ASSUME TypeOK, TrackInv, [Next]_vars
  PROVE  TrackInv'
<1>1. CASE Outside
  <2>1. /\ UNCHANGED <<phase, run, store>>
        /\ clientPulls => clientPulls'
        /\ \A v \in Uris : pushed'[v] \in {pushed[v], None}
    BY <1>1, OutsideStep
  <2>. QED BY <2>1 DEF TrackInv, TrackedForClearing, run, store
<1>2. CASE Analyse
  <2>. USE DEF TrackInv, TrackedForClearing, pulls, run, store
  <2>1. CASE StartAnalysis \/ AbandonQueued \/ LoadFails \/ AnalysisPanics \/ ApplyAnalysisOutput
    BY <2>1 DEF StartAnalysis, AbandonQueued, LoadFails, AnalysisPanics, ApplyAnalysisOutput
  <2>2. CASE BeginPublish \/ StoreResults
    BY <2>2 DEF BeginPublish, StoreResults
  <2>3. ASSUME NEW u \in Uris, ReadFile(u) PROVE TrackInv'
    BY <2>3 DEF ReadFile
  <2>4. ASSUME NEW u \in Uris, PublishOne(u) PROVE TrackInv'
    <3>1. ASSUME NEW v \in Uris, v # u PROVE cache'[v] = cache[v] /\ pushed'[v] = pushed[v]
      <4>1. CASE UriIsStale(u)
        BY <2>4, <4>1 DEF PublishOne
      <4>2. CASE ~UriIsStale(u)
        BY <2>4, <3>1, <4>2 DEF PublishOne, TypeOK, ClientTypeOK, StoreTypeOK, Findings
      <4>. QED BY <4>1, <4>2
    <3>2. /\ newUris' = newUris \cup {u}
          /\ phase = "publish"
          /\ UNCHANGED <<phase, previous, clientPulls, usePull>>
      BY <2>4 DEF PublishOne
    <3>. QED BY <3>1, <3>2
  <2>5. CASE FinishPublish
    <3>1. /\ phase' = "store" /\ phase = "publish"
          /\ UNCHANGED <<clientPulls, usePull>>
      BY <2>5 DEF FinishPublish
    <3>2. ASSUME NEW v \in Uris, v \in previous \cup newUris, v \notin previous'
          PROVE  cache'[v] = None /\ (Pushes(v) => pushed'[v] = None)
      BY <2>5, <3>2 DEF FinishPublish
    <3>3. ASSUME NEW v \in Uris, v \notin previous \cup newUris
          PROVE  cache'[v] = cache[v] /\ pushed'[v] = pushed[v]
      BY <2>5, <3>3 DEF FinishPublish
    <3>4. ~clientPulls => \A v \in Uris : Pushes(v)
      BY DEF Pushes
    <3>. QED BY <3>1, <3>2, <3>3, <3>4
  <2>. QED BY <1>2, <2>1, <2>2, <2>3, <2>4, <2>5 DEF Analyse
<1>. QED BY <1>1, <1>2, NextSplits

\* Every finding in the cache, and every one a push-only editor shows, belongs
\* to a file that the next complete run clears or replaces.
THEOREM FindingsStayTracked == Spec => []TrackedForClearing
<1>1. Init => TrackInv
  BY DEF Init, TrackInv, TrackedForClearing
<1>2. TypeOK /\ TrackInv /\ [Next]_vars => TrackInv'
  BY TrackStep
<1>3. TrackInv => TrackedForClearing
  BY DEF TrackInv
<1>. QED BY TypeCorrect, <1>1, <1>2, <1>3, PTL DEF Spec

-----------------------------------------------------------------------------
(* What passes for current is current. *)

\* A state of the document that the editor has open: not newer than what it has
\* now, and the same if it has the same version.
Agrees(d, u) ==
    /\ d.version <= buf[u].version
    /\ d.version = buf[u].version /\ IsOpen(buf[u]) => d = buf[u]

\* A text of u is sent by message m.
Carries(m, u) == m.kind \in {"open", "change"} /\ m.uri = u

Opens(m, u) == m.kind = "open" /\ m.uri = u

\* Versions may restart when a document is reopened, so that only what was sent since
\* the last didOpen agrees with the editor.
MessagesInv ==
    \A u \in Uris : \A i \in 1..Len(inbox) :
        Carries(inbox[i], u) /\ (\A j \in i + 1..Len(inbox) : ~Opens(inbox[j], u))
            => Agrees(inbox[i].doc, u)

DocumentsInv ==
    \A u \in Uris \ OpensUnderWay : IsOpen(documents[u]) => Agrees(documents[u], u)

SnapInv == \A u \in Uris \ touched : snap[u].version <= buf[u].version

\* While the editor's document is the one of a fresh snapshot, the disk has its
\* text, and so has whatever the run read of it.
ReadInv ==
    phase \in {"reading", "apply", "publish"} =>
        \A u \in Uris \ touched :
            snap[u].fresh /\ IsOpen(buf[u]) /\ snap[u].version = buf[u].version =>
                /\ disk[u] = buf[u].text
                /\ u \notin unread => seen[u] \in {buf[u].text, None}

\* Publishing begins when every file has been read.
UnreadInv == phase \in {"apply", "publish"} => unread = {}

CurrentInv == MessagesInv /\ DocumentsInv /\ SnapInv /\ ReadInv /\ UnreadInv

\* The editor's document moves on without reusing a version.
MovesOn(u) ==
    /\ buf'[u].version >= buf[u].version
    /\ buf'[u] # buf[u] => buf'[u].version > buf[u].version \/ ~IsOpen(buf'[u])

\* A document state the editor had stays one it had.
LEMMA AgreesStable ==
  ASSUME EditorTypeOK, EditorTypeOK', NEW u \in Uris, NEW d \in Document, MovesOn(u), Agrees(d, u)
  PROVE  Agrees(d, u)'
BY DEF EditorTypeOK, Document, MovesOn, Agrees, IsOpen

\* Every step but its opening moves a document of the editor on.
LEMMA EditorMovesOn ==
  ASSUME TypeOK, [Next]_vars, NEW v \in Uris, ~ClientOpen(v)
  PROVE  MovesOn(v)
<1>. USE DEF TypeOK, EditorTypeOK, Document, MovesOn
<1>1. ASSUME NEW u \in Uris, ClientOpen(u) PROVE MovesOn(v)
  <2>1. u # v
    BY <1>1
  <2>. QED BY <1>1, <2>1 DEF ClientOpen
<1>2. ASSUME NEW u \in Uris, NEW t \in Texts, ClientEdit(u, t) PROVE MovesOn(v)
  BY <1>2 DEF ClientEdit
<1>3. ASSUME NEW u \in Uris, ClientClose(u) PROVE MovesOn(v)
  BY <1>3 DEF ClientClose, IsOpen
<1>4. ASSUME buf' = buf PROVE MovesOn(v)
  BY <1>4
<1>5. ASSUME NEW u \in Uris, Editor(u) PROVE MovesOn(v)
  <2>1. CASE ClientSave(u)
    BY <2>1, <1>4 DEF ClientSave
  <2>2. ASSUME NEW t \in Texts, ExternalWrite(u, t) PROVE MovesOn(v)
    BY <2>2, <1>4 DEF ExternalWrite
  <2>. QED BY <1>1, <1>2, <1>3, <1>5, <2>1, <2>2 DEF Editor
<1>6. ASSUME NEW u \in Uris, Handle(u) \/ FinishOpen(u) \/ Pull(u) PROVE MovesOn(v)
  BY <1>4, <1>6 DEF Handle, Pull, DidOpen, DidChange, DidClose, DidSave, FinishOpen,
     DiagnosticArrives, ClearPushed, DiagnosticReplies, editor
<1>7. CASE RefreshDiagnostics \/ RefreshArrives \/ DebounceExpires \/ Shutdown \/ ShutdownReplies
  BY <1>4, <1>7 DEF RefreshDiagnostics, RefreshArrives, DebounceExpires, Shutdown,
     ShutdownReplies, editor
<1>8. CASE Analyse
  BY <1>4, <1>8 DEF Analyse, StartAnalysis, AbandonQueued, LoadFails, AnalysisPanics,
     ApplyAnalysisOutput, BeginPublish, FinishPublish, StoreResults, ReadFile, PublishOne, editor
<1>9. CASE UNCHANGED vars
  BY <1>4, <1>9 DEF vars, editor
<1>. QED BY <1>5, <1>6, <1>7, <1>8, <1>9 DEF Next

\* One message more, which carries the editor's document if it carries one.
Sends(u) ==
    \E m \in Message :
        /\ inbox' = Append(inbox, m) /\ m.uri = u
        /\ m.kind \in {"open", "change"} => buf'[u] = m.doc
        /\ ClientOpen(u) => m.kind = "open"

\* An open sends the document.
LEMMA OpenSends ==
  ASSUME TypeOK, NEW v \in Uris, ClientOpen(v)
  PROVE  /\ Len(inbox') = Len(inbox) + 1
         /\ \E m \in Message : /\ inbox' = Append(inbox, m)
                               /\ m.uri = v /\ m.kind = "open" /\ buf'[v] = m.doc
<1>. USE DEF TypeOK, EditorTypeOK
<1>. DEFINE d == [version |-> IF ResetVersions THEN 1 ELSE buf[v].version + 1, text |-> disk[v]]
            m == [kind |-> "open", uri |-> v, doc |-> d]
<1>1. d \in Document
  BY DEF Document
<1>2. m \in Message
  BY <1>1 DEF Message
<1>3. inbox' = Append(inbox, m) /\ buf'[v] = d
  BY DEF ClientOpen, Send
<1>4. m.uri = v /\ m.kind = "open" /\ m.doc = d
  OBVIOUS
<1>. HIDE DEF m
<1>. QED BY <1>2, <1>3, <1>4

\* What is appended comes last.
LEMMA LastAppended ==
  ASSUME TypeOK, NEW m \in Message, inbox' = Append(inbox, m)
  PROVE  inbox'[Len(inbox) + 1] = m
BY DEF TypeOK, EditorTypeOK

\* So do the other things the user does, except a write behind the editor's back.
LEMMA EditorSends ==
  ASSUME TypeOK, NEW u \in Uris, Editor(u)
  PROVE  inbox' = inbox \/ (Sends(u) /\ \A v \in Uris : ClientOpen(v) => v = u)
<1>. USE DEF TypeOK, EditorTypeOK
<1>1. CASE ClientOpen(u)
  <2>1. PICK m \in Message : /\ inbox' = Append(inbox, m)
                             /\ m.uri = u /\ m.kind = "open" /\ buf'[u] = m.doc
    BY OpenSends, <1>1
  <2>2. ASSUME NEW v \in Uris, ClientOpen(v) PROVE v = u
    <3>1. PICK n \in Message : inbox' = Append(inbox, n) /\ n.uri = v
      BY OpenSends, <2>2
    <3>2. inbox'[Len(inbox) + 1] = n
      BY <3>1, LastAppended
    <3>3. inbox'[Len(inbox) + 1] = m
      BY <2>1, LastAppended
    <3>. QED BY <2>1, <3>1, <3>2, <3>3
  <2>. QED BY <2>1, <2>2 DEF Sends
<1>2. ASSUME NEW m \in Message, inbox' = Append(inbox, m), m.uri = u, m.kind # "open",
             m.kind = "change" => buf'[u] = m.doc
      PROVE  Sends(u) /\ \A v \in Uris : ClientOpen(v) => v = u
  <2>1. ASSUME NEW v \in Uris, ClientOpen(v) PROVE FALSE
    <3>1. PICK n \in Message : inbox' = Append(inbox, n) /\ n.kind = "open"
      BY OpenSends, <2>1
    <3>2. inbox'[Len(inbox) + 1] = n /\ inbox'[Len(inbox) + 1] = m
      BY <1>2, <3>1, LastAppended
    <3>. QED BY <1>2, <3>1, <3>2
  <2>. QED BY <1>2, <2>1 DEF Sends
<1>3. ASSUME NEW t \in Texts, ClientEdit(u, t)
      PROVE  Sends(u) /\ \A v \in Uris : ClientOpen(v) => v = u
  <2>. DEFINE d == [version |-> buf[u].version + 1, text |-> t]
              m == [kind |-> "change", uri |-> u, doc |-> d]
  <2>1. d \in Document
    BY DEF Document
  <2>2. m \in Message
    BY <2>1 DEF Message
  <2>3. inbox' = Append(inbox, m) /\ buf'[u] = d
    BY <1>3 DEF ClientEdit, Send
  <2>4. m.uri = u /\ m.kind = "change" /\ m.doc = d
    OBVIOUS
  <2>. HIDE DEF m
  <2>. QED BY <1>2, <2>2, <2>3, <2>4
<1>4. CASE ClientSave(u) \/ ClientClose(u)
  <2>1. PICK k \in {"save", "close"} : inbox' = Append(inbox, [kind |-> k, uri |-> u, doc |-> Closed])
    BY <1>4 DEF ClientSave, ClientClose, Send
  <2>. DEFINE m == [kind |-> k, uri |-> u, doc |-> Closed]
  <2>2. m \in Message
    BY DEF Message, Document, Closed
  <2>3. m.uri = u /\ m.kind \notin {"open", "change"} /\ inbox' = Append(inbox, m)
    BY <2>1
  <2>. HIDE DEF m
  <2>. QED BY <1>2, <2>2, <2>3
<1>5. ASSUME NEW t \in Texts, ExternalWrite(u, t) PROVE inbox' = inbox
  BY <1>5 DEF ExternalWrite
<1>. QED BY <1>1, <1>3, <1>4, <1>5 DEF Editor

\* The inbox of a step: it stays, gets a message of the editor, or loses its first.
LEMMA InboxStep ==
  ASSUME TypeOK, TypeOK', [Next]_vars
  PROVE  \/ inbox' = inbox /\ \A v \in Uris : ~ClientOpen(v)
         \/ \E u \in Uris : Sends(u) /\ \A v \in Uris : ClientOpen(v) => v = u
         \/ inbox # <<>> /\ inbox' = Tail(inbox) /\ \A v \in Uris : ~ClientOpen(v)
<1>. USE DEF TypeOK, EditorTypeOK
<1>2. ASSUME inbox' = inbox \/ (inbox' = Tail(inbox) /\ inbox # <<>>), NEW v \in Uris
      PROVE  ~ClientOpen(v)
  <2>1. Len(inbox') # Len(inbox) + 1
    BY <1>2
  <2>. QED BY OpenSends, <2>1
<1>4. ASSUME NEW u \in Uris, Handle(u) PROVE inbox # <<>> /\ inbox' = Tail(inbox)
  BY <1>4 DEF Handle, DidOpen, DidChange, DidClose, DidSave, Receive
<1>5. ASSUME NEW u \in Uris, FinishOpen(u) \/ Pull(u) PROVE inbox' = inbox
  BY <1>5 DEF FinishOpen, Pull, DiagnosticArrives, ClearPushed, DiagnosticReplies
<1>6. CASE RefreshDiagnostics \/ RefreshArrives \/ DebounceExpires \/ Shutdown \/ ShutdownReplies
  BY <1>2, <1>6 DEF RefreshDiagnostics, RefreshArrives, DebounceExpires, Shutdown, ShutdownReplies
<1>7. CASE Analyse
  <2>1. inbox' = inbox
    BY <1>7 DEF Analyse, StartAnalysis, AbandonQueued, LoadFails, AnalysisPanics,
       ApplyAnalysisOutput, BeginPublish, FinishPublish, StoreResults, ReadFile, PublishOne
  <2>. QED BY <1>2, <2>1
<1>8. CASE UNCHANGED vars
  BY <1>2, <1>8 DEF vars
<1>. QED BY <1>2, <1>4, <1>5, <1>6, <1>7, <1>8, EditorSends DEF Next

\* What the server has yet to hear stays true of the editor's documents.
LEMMA MessagesStep ==
  ASSUME TypeOK, TypeOK', [Next]_vars, MessagesInv
  PROVE  MessagesInv'
<1>. USE DEF TypeOK, EditorTypeOK
<1>. SUFFICES ASSUME NEW v \in Uris, NEW i \in 1..Len(inbox'), Carries(inbox'[i], v),
                     \A j \in i + 1..Len(inbox') : ~Opens(inbox'[j], v)
              PROVE  Agrees(inbox[i].doc, v)'
  BY DEF MessagesInv, Carries, Opens
<1>1. ASSUME NEW k \in 1..Len(inbox), inbox[k] = inbox'[i], ~ClientOpen(v),
             \A j \in k + 1..Len(inbox) : ~Opens(inbox[j], v)
      PROVE  Agrees(inbox[i].doc, v)'
  <2>1. Agrees(inbox[k].doc, v)
    BY <1>1 DEF MessagesInv
  <2>2. inbox[k].doc \in Document
    <3>1. inbox[k] \in Message
      OBVIOUS
    <3>. QED BY <3>1 DEF Message
  <2>3. MovesOn(v)
    BY <1>1, EditorMovesOn
  <2>. QED BY <1>1, <2>1, <2>2, <2>3 DEF Document, MovesOn, Agrees, IsOpen
<1>2. CASE inbox' = inbox /\ \A u \in Uris : ~ClientOpen(u)
  BY <1>1, <1>2
<1>3. CASE inbox # <<>> /\ inbox' = Tail(inbox) /\ \A u \in Uris : ~ClientOpen(u)
  <2>1. /\ i + 1 \in 1..Len(inbox) /\ inbox[i + 1] = inbox'[i]
        /\ \A j \in (i + 1) + 1..Len(inbox) : j - 1 \in i + 1..Len(inbox') /\ inbox'[j - 1] = inbox[j]
    BY <1>3
  <2>2. \A j \in (i + 1) + 1..Len(inbox) : ~Opens(inbox[j], v)
    BY <2>1
  <2>. QED BY <1>1, <1>3, <2>1, <2>2
<1>4. ASSUME NEW u \in Uris, Sends(u), \A w \in Uris : ClientOpen(w) => w = u
      PROVE  Agrees(inbox[i].doc, v)'
  <2>1. PICK m \in Message : /\ inbox' = Append(inbox, m) /\ m.uri = u
                             /\ m.kind \in {"open", "change"} => buf'[u] = m.doc
                             /\ ClientOpen(u) => m.kind = "open"
    BY <1>4 DEF Sends
  <2>2. /\ Len(inbox') = Len(inbox) + 1 /\ inbox'[Len(inbox) + 1] = m
        /\ \A j \in 1..Len(inbox) : inbox'[j] = inbox[j]
    BY <2>1
  <2>3. CASE i = Len(inbox) + 1
    <3>1. u = v /\ buf'[v] = inbox'[i].doc
      BY <2>1, <2>2, <2>3 DEF Carries
    <3>2. buf'[v].version \in Nat
      BY DEF Document
    <3>. QED BY <3>1, <3>2 DEF Agrees, IsOpen
  <2>4. CASE i # Len(inbox) + 1
    <3>1. i \in 1..Len(inbox) /\ Len(inbox) + 1 \in i + 1..Len(inbox')
      BY <2>2, <2>4
    <3>2. ~Opens(m, v)
      BY <2>2, <3>1
    <3>3. ~ClientOpen(v)
      BY <1>4, <2>1, <3>2 DEF Opens
    <3>4. \A j \in i + 1..Len(inbox) : ~Opens(inbox[j], v)
      BY <2>2
    <3>. QED BY <1>1, <2>2, <3>1, <3>3, <3>4
  <2>. QED BY <2>3, <2>4
<1>. QED BY <1>2, <1>3, <1>4, InboxStep

\* The server's documents are states the editor had, unless it reopened them.
LEMMA DocumentsStep ==
  ASSUME TypeOK, TypeOK', [Next]_vars, MessagesInv, DocumentsInv
  PROVE  DocumentsInv'
<1>0. documents \in [Uris -> Document]
  BY DEF TypeOK, ServerTypeOK
<1>. SUFFICES ASSUME NEW v \in Uris, v \notin OpensUnderWay', IsOpen(documents'[v])
              PROVE  Agrees(documents[v], v)'
  BY DEF DocumentsInv, IsOpen
<1>1. \A j \in 1..Len(inbox') : ~Opens(inbox'[j], v)
  BY DEF OpensUnderWay, Opens
<1>2. ~ClientOpen(v)
  <2>1. SUFFICES ASSUME ClientOpen(v) PROVE FALSE
    OBVIOUS
  <2>2. PICK u \in Uris : Sends(u) /\ \A w \in Uris : ClientOpen(w) => w = u
    BY <2>1, InboxStep
  <2>3. PICK m \in Message : inbox' = Append(inbox, m) /\ m.uri = v /\ m.kind = "open"
    BY <2>1, <2>2 DEF Sends
  <2>4. Len(inbox) + 1 \in 1..Len(inbox') /\ inbox'[Len(inbox) + 1] = m
    BY <2>3 DEF TypeOK, EditorTypeOK
  <2>. QED BY <1>1, <2>3, <2>4 DEF Opens
<1>3. ASSUME documents'[v] = documents[v], v \notin OpensUnderWay PROVE Agrees(documents[v], v)'
  <2>1. Agrees(documents[v], v)
    BY <1>3 DEF DocumentsInv
  <2>2. documents[v] \in Document
    BY <1>0
  <2>3. MovesOn(v)
    BY <1>2, EditorMovesOn
  <2>. QED BY <1>3, <2>1, <2>2, <2>3 DEF TypeOK, EditorTypeOK, Document, MovesOn, Agrees, IsOpen
<1>4. ASSUME documents'[v] = documents[v], inbox' = inbox \/ \E u \in Uris : Sends(u)
      PROVE  Agrees(documents[v], v)'
  <2>1. \A j \in 1..Len(inbox) : j \in 1..Len(inbox') /\ inbox'[j] = inbox[j]
    BY <1>4 DEF Sends, TypeOK, EditorTypeOK
  <2>2. v \notin OpensUnderWay
    BY <1>1, <2>1 DEF OpensUnderWay, Opens
  <2>. QED BY <1>3, <1>4, <2>2
<1>5. ASSUME NEW u \in Uris, Handle(u) PROVE Agrees(documents[v], v)'
  <2>1. /\ inbox # <<>> /\ inbox' = Tail(inbox) /\ Head(inbox).uri = u
        /\ buf' = buf
        /\ \/ Head(inbox).kind \in {"open", "change"}
              /\ documents' = [documents EXCEPT ![u] = Head(inbox).doc]
           \/ Head(inbox).kind = "close" /\ documents' = [documents EXCEPT ![u] = Closed]
           \/ Head(inbox).kind = "save" /\ documents' = documents
    BY <1>5 DEF Handle, DidOpen, DidChange, DidClose, DidSave, Receive, editor, handlers
  <2>2. /\ Head(inbox) = inbox[1] /\ 1 \in 1..Len(inbox)
        /\ \A j \in 2..Len(inbox) : j - 1 \in 1..Len(inbox') /\ inbox'[j - 1] = inbox[j]
    BY <2>1 DEF TypeOK, EditorTypeOK
  <2>3. \A j \in 1 + 1..Len(inbox) : ~Opens(inbox[j], v)
    BY <1>1, <2>2
  <2>4. CASE v = u /\ Head(inbox).kind \in {"open", "change"}
    <3>1. Agrees(inbox[1].doc, v)
      BY <2>1, <2>2, <2>3, <2>4 DEF MessagesInv, Carries
    <3>2. documents'[v] = inbox[1].doc
      BY <1>0, <2>1, <2>2, <2>4
    <3>. QED BY <2>1, <3>1, <3>2 DEF Agrees, IsOpen
  <2>5. CASE v = u /\ Head(inbox).kind = "close"
    BY <1>0, <2>1, <2>5 DEF IsOpen, Closed
  <2>6. CASE v # u \/ Head(inbox).kind = "save"
    <3>1. documents'[v] = documents[v]
      BY <1>0, <2>1, <2>6
    <3>2. ~Opens(inbox[1], v)
      BY <2>1, <2>2, <2>6 DEF Opens
    <3>3. v \notin OpensUnderWay
      BY <2>3, <3>2 DEF OpensUnderWay, Opens, TypeOK, EditorTypeOK
    <3>. QED BY <1>3, <3>1, <3>3
  <2>. QED BY <2>1, <2>4, <2>5, <2>6
<1>6. ASSUME NEW u \in Uris, Editor(u) PROVE documents' = documents
  BY <1>6 DEF Editor, ClientOpen, ClientEdit, ClientSave, ClientClose, ExternalWrite, handlers
<1>7. ASSUME NEW u \in Uris, FinishOpen(u) \/ Pull(u) PROVE UNCHANGED <<documents, inbox>>
  BY <1>7 DEF FinishOpen, Pull, DiagnosticArrives, ClearPushed, DiagnosticReplies, handlers
<1>8. CASE RefreshDiagnostics \/ RefreshArrives \/ DebounceExpires \/ Shutdown \/ ShutdownReplies
  BY <1>4, <1>8 DEF RefreshDiagnostics, RefreshArrives, DebounceExpires, Shutdown, ShutdownReplies,
     handlers
<1>9. CASE Analyse
  BY <1>4, <1>9 DEF Analyse, StartAnalysis, AbandonQueued, LoadFails, AnalysisPanics,
     ApplyAnalysisOutput, BeginPublish, FinishPublish, StoreResults, ReadFile, PublishOne, handlers
<1>10. CASE UNCHANGED vars
  BY <1>4, <1>10 DEF vars, handlers
<1>11. ASSUME NEW u \in Uris, Editor(u) PROVE Agrees(documents[v], v)'
  <2>1. inbox' = inbox \/ \E w \in Uris : Sends(w)
    BY <1>11, EditorSends
  <2>. QED BY <1>4, <1>6, <1>11, <2>1
<1>. QED BY <1>4, <1>5, <1>7, <1>8, <1>9, <1>10, <1>11 DEF Next

\* The run's snapshot and what it read keep up with the editor.
LEMMA SnapStep ==
  ASSUME TypeOK, TypeOK', [Next]_vars, CurrentInv
  PROVE  SnapInv' /\ ReadInv' /\ UnreadInv'
<1>. USE DEF TypeOK, EditorTypeOK, ServerTypeOK, RunTypeOK, Document, Findings
<1>0. SnapInv /\ ReadInv /\ UnreadInv /\ DocumentsInv
  BY DEF CurrentInv
<1>1. \A v \in Uris : ~ClientOpen(v) => MovesOn(v)
  BY EditorMovesOn
<1>2. CASE Outside
  <2>1. UNCHANGED <<phase, run>>
    BY <1>2, OutsideStep
  <2>0. touched \subseteq touched' /\ \A v \in Uris \ touched' : ~ClientOpen(v)
    <3>1. \A v \in Uris : ClientOpen(v) => v \in touched'
      BY DEF ClientOpen
    <3>2. ASSUME NEW u \in Uris, Editor(u) PROVE touched \subseteq touched'
      BY <3>2 DEF Editor, ClientOpen, ClientEdit, ClientSave, ClientClose, ExternalWrite
    <3>3. ASSUME NEW u \in Uris, Handle(u) \/ FinishOpen(u) \/ Pull(u) PROVE touched' = touched
      BY <3>3 DEF Handle, Pull, DidOpen, DidChange, DidClose, DidSave, FinishOpen,
         DiagnosticArrives, ClearPushed, DiagnosticReplies, editor
    <3>4. ASSUME \/ RefreshDiagnostics \/ RefreshArrives \/ DebounceExpires \/ Shutdown
                 \/ ShutdownReplies \/ UNCHANGED vars
          PROVE  touched' = touched
      BY <3>4 DEF RefreshDiagnostics, RefreshArrives, DebounceExpires, Shutdown, ShutdownReplies,
         vars, editor
    <3>. QED BY <1>2, <3>1, <3>2, <3>3, <3>4 DEF Outside
  <2>2. ASSUME NEW v \in Uris \ touched', IsOpen(buf'[v]), buf'[v] = buf[v], disk[v] = buf[v].text
        PROVE  disk'[v] = buf[v].text
    <3>1. ASSUME NEW u \in Uris, Editor(u) PROVE disk'[v] = buf[v].text
      <4>1. ASSUME NEW t \in Texts, ExternalWrite(u, t) PROVE u # v /\ disk' = [disk EXCEPT ![u] = t]
        BY <2>2, <4>1 DEF ExternalWrite
      <4>2. ASSUME NEW t \in Texts, ExternalWrite(u, t) PROVE disk'[v] = buf[v].text
        BY <2>2, <4>1, <4>2
      <4>3. CASE ClientSave(u)
        BY <2>2, <4>3 DEF ClientSave
      <4>4. CASE ClientOpen(u) \/ ClientClose(u) \/ \E t \in Texts : ClientEdit(u, t)
        BY <2>2, <4>4 DEF ClientOpen, ClientClose, ClientEdit
      <4>. QED BY <3>1, <4>2, <4>3, <4>4 DEF Editor
    <3>2. CASE disk' = disk
      BY <2>2, <3>2
    <3>3. ASSUME NEW u \in Uris, Handle(u) \/ FinishOpen(u) \/ Pull(u) PROVE disk' = disk
      BY <3>3 DEF Handle, Pull, DidOpen, DidChange, DidClose, DidSave, FinishOpen,
         DiagnosticArrives, ClearPushed, DiagnosticReplies, editor
    <3>4. ASSUME \/ RefreshDiagnostics \/ RefreshArrives \/ DebounceExpires \/ Shutdown
                 \/ ShutdownReplies \/ UNCHANGED vars
          PROVE  disk' = disk
      BY <3>4 DEF RefreshDiagnostics, RefreshArrives, DebounceExpires, Shutdown, ShutdownReplies,
         vars, editor
    <3>. QED BY <1>2, <3>1, <3>2, <3>3, <3>4 DEF Outside
  <2>3. SnapInv'
    BY <1>0, <1>1, <2>0, <2>1 DEF SnapInv, MovesOn, run
  <2>4. ReadInv'
    <3>. SUFFICES ASSUME phase \in {"reading", "apply", "publish"}, NEW v \in Uris \ touched',
                         snap[v].fresh, IsOpen(buf'[v]), snap[v].version = buf'[v].version
                  PROVE  /\ disk'[v] = buf'[v].text
                         /\ v \notin unread => seen[v] \in {buf'[v].text, None}
      BY <2>1 DEF ReadInv, IsOpen, run
    <3>1. buf'[v] = buf[v]
      BY <1>0, <1>1, <2>0 DEF SnapInv, MovesOn
    <3>2. /\ disk[v] = buf[v].text
          /\ v \notin unread => seen[v] \in {buf[v].text, None}
      BY <1>0, <2>0, <3>1 DEF ReadInv
    <3>. QED BY <2>2, <3>1, <3>2
  <2>5. UnreadInv'
    BY <1>0, <2>1 DEF UnreadInv, run
  <2>. QED BY <2>3, <2>4, <2>5
<1>3. CASE StartAnalysis
  <2>1. /\ UNCHANGED <<buf, disk>> /\ phase' = "reading" /\ unread' = Uris
        /\ touched' = OpensUnderWay
    BY <1>3 DEF StartAnalysis
  <2>2. ASSUME NEW v \in Uris
        PROVE  snap'[v] = IF IsOpen(documents[v])
                          THEN [version |-> documents[v].version,
                                fresh |-> documents[v].text = disk[v]]
                          ELSE NoSnap
    BY <1>3, <2>2 DEF StartAnalysis
  <2>3. ASSUME NEW v \in Uris, ~IsOpen(documents[v])
        PROVE  snap'[v].version = 0 /\ snap'[v].fresh = FALSE
    BY <2>2, <2>3 DEF NoSnap
  <2>4. ASSUME NEW v \in Uris \ OpensUnderWay, IsOpen(documents[v])
        PROVE  /\ snap'[v].version = documents[v].version
               /\ snap'[v].fresh => documents[v].text = disk[v]
               /\ Agrees(documents[v], v)
    BY <1>0, <2>2, <2>4 DEF DocumentsInv
  <2>5. SnapInv'
    <3>. SUFFICES ASSUME NEW v \in Uris \ OpensUnderWay PROVE snap'[v].version <= buf[v].version
      BY <2>1 DEF SnapInv
    <3>1. CASE IsOpen(documents[v])
      BY <2>4, <3>1 DEF Agrees
    <3>2. CASE ~IsOpen(documents[v])
      <4>1. buf[v] \in Document
        OBVIOUS
      <4>2. buf[v].version >= 0
        BY <4>1
      <4>3. snap'[v].version = 0
        BY <2>3, <3>2
      <4>. QED BY <4>2, <4>3
    <3>. QED BY <3>1, <3>2
  <2>6. ReadInv'
    <3>. SUFFICES ASSUME NEW v \in Uris \ OpensUnderWay, snap'[v].fresh, IsOpen(buf[v]),
                         snap'[v].version = buf[v].version
                  PROVE  disk[v] = buf[v].text
      BY <2>1 DEF ReadInv, IsOpen
    <3>1. IsOpen(documents[v])
      BY <2>3
    <3>2. documents[v] = buf[v] /\ documents[v].text = disk[v]
      BY <2>4, <3>1 DEF Agrees
    <3>. QED BY <3>2
  <2>. QED BY <2>1, <2>5, <2>6 DEF UnreadInv
<1>4. ASSUME NEW u \in Uris, ReadFile(u) PROVE SnapInv' /\ ReadInv' /\ UnreadInv'
  BY <1>0, <1>4 DEF ReadFile, SnapInv, ReadInv, UnreadInv, IsOpen, editor
<1>5. CASE LoadFails
  BY <1>0, <1>5 DEF LoadFails, SnapInv, ReadInv, UnreadInv, IsOpen
<1>6. CASE AbandonQueued \/ AnalysisPanics \/ ApplyAnalysisOutput
  BY <1>0, <1>6 DEF AbandonQueued, AnalysisPanics, ApplyAnalysisOutput, SnapInv, ReadInv, UnreadInv,
     IsOpen, editor, run
<1>7. CASE BeginPublish
  BY <1>0, <1>7 DEF BeginPublish, SnapInv, ReadInv, UnreadInv, IsOpen, editor
<1>8. CASE FinishPublish \/ StoreResults
  BY <1>0, <1>8 DEF FinishPublish, StoreResults, SnapInv, ReadInv, UnreadInv, editor, run
<1>9. ASSUME NEW u \in Uris, PublishOne(u) PROVE SnapInv' /\ ReadInv' /\ UnreadInv'
  <2>1. UNCHANGED <<buf, disk, touched, phase, snap, unread, seen>>
    BY <1>9 DEF PublishOne, editor
  <2>. QED BY <1>0, <2>1 DEF SnapInv, ReadInv, UnreadInv, IsOpen
<1>. QED BY <1>2, <1>3, <1>4, <1>5, <1>6, <1>7, <1>8, <1>9, NextSplits DEF Analyse

\* Every step preserves CurrentInv.
LEMMA CurrentStep ==
  ASSUME TypeOK, TypeOK', [Next]_vars, CurrentInv
  PROVE  CurrentInv'
<1>1. MessagesInv /\ DocumentsInv
  BY DEF CurrentInv
<1>2. MessagesInv' /\ DocumentsInv'
  BY <1>1, MessagesStep, DocumentsStep
<1>. QED BY <1>2, SnapStep DEF CurrentInv

\* For editors that restart versions as for those that do not, and whatever is
\* edited, saved or closed during a run: a document that was in the snapshot and is
\* not stale was analysed with the text the editor shows, unless it was reopened or
\* written by another program since the snapshot (uri_is_stale).
THEOREM PublishedIsCurrent == Spec => []NonStaleIsCurrent
<1>1. Init => CurrentInv
  BY DEF Init, CurrentInv, MessagesInv, DocumentsInv, SnapInv, ReadInv, UnreadInv, Closed, NoSnap,
     IsOpen
<1>2. TypeOK /\ TypeOK' /\ CurrentInv /\ [Next]_vars => CurrentInv'
  BY CurrentStep
<1>3. TypeOK /\ CurrentInv => NonStaleIsCurrent
  <2>. SUFFICES ASSUME TypeOK, CurrentInv, phase = "publish", NEW u \in Uris \ touched,
                       InSnap(u), IsOpen(live[u]), live[u] = buf[u], ~UriIsStale(u)
                PROVE  seen[u] \in {live[u].text, None}
    BY DEF NonStaleIsCurrent
  <2>1. snap[u].fresh /\ ~(live[u].version > snap[u].version)
    BY DEF UriIsStale
  <2>2. snap[u].version = buf[u].version
    <3>1. snap[u].version \in Nat /\ buf[u].version \in Nat
      BY DEF TypeOK, RunTypeOK, EditorTypeOK, Document
    <3>2. snap[u].version <= buf[u].version
      BY DEF CurrentInv, SnapInv
    <3>. QED BY <2>1, <3>1, <3>2
  <2>3. u \notin unread
    BY DEF CurrentInv, UnreadInv
  <2>. QED BY <2>1, <2>2, <2>3 DEF CurrentInv, ReadInv, IsOpen
<1>. QED BY TypeCorrect, <1>1, <1>2, <1>3, PTL DEF Spec

-----------------------------------------------------------------------------
(* A pulling editor ends up with what the cache holds. *)

\* The editor has been told to pull the document, is about to, or is doing it.
Asked(u) == refresh \/ u \in owed \/ pulling[u] # "no"

\* An editor that only takes pushes is never seen to pull.
PushOnlyInv == ~PullClient => owed = {} /\ ~refresh /\ ~clientPulls /\ ~usePull

\* Between publications every open document shows the cache or will be pulled.
PullInv ==
    usePull /\ phase # "publish" =>
        \A u \in Uris : IsOpen(buf[u]) => pulled[u] = cache[u] \/ Asked(u)

\* Every step preserves PushOnlyInv.
LEMMA PushOnlyStep ==
  ASSUME TypeOK, PushOnlyInv, [Next]_vars
  PROVE  PushOnlyInv'
<1>. SUFFICES ASSUME ~PullClient, owed = {}, ~refresh, ~clientPulls, ~usePull
              PROVE  owed' = {} /\ ~refresh' /\ ~clientPulls' /\ ~usePull'
  BY DEF PushOnlyInv
<1>1. ASSUME UNCHANGED <<owed, refresh, clientPulls, usePull>>
      PROVE  owed' = {} /\ ~refresh' /\ ~clientPulls' /\ ~usePull'
  BY <1>1, Zenon
<1>2. ASSUME NEW u \in Uris, Editor(u)
      PROVE  UNCHANGED <<owed, refresh, clientPulls, usePull>>
  BY <1>2 DEF Editor, ClientOpen, ClientEdit, ClientSave, ClientClose, ExternalWrite, WillPull,
     client, pulls, run
<1>3. ASSUME NEW u \in Uris, Handle(u)
      PROVE  UNCHANGED <<owed, refresh, clientPulls, usePull>>
  BY <1>3 DEF Handle, DidOpen, DidChange, DidClose, DidSave, client, pulls, run
<1>4. ASSUME NEW u \in Uris, FinishOpen(u)
      PROVE  owed' = {} /\ ~refresh' /\ ~clientPulls' /\ ~usePull'
  <2>1. /\ UNCHANGED <<owed, clientPulls, usePull>>
        /\ refresh' = (refresh \/ clientPulls)
    BY <1>4 DEF FinishOpen, client, pulls, run
  <2>. QED BY <2>1
<1>5. ASSUME NEW u \in Uris, Pull(u)
      PROVE  UNCHANGED <<owed, refresh, clientPulls, usePull>>
  BY <1>5 DEF Pull, DiagnosticArrives, ClearPushed, DiagnosticReplies, client, run
<1>6. ASSUME DebounceExpires \/ Shutdown \/ ShutdownReplies \/ UNCHANGED vars
      PROVE  UNCHANGED <<owed, refresh, clientPulls, usePull>>
  BY <1>6 DEF DebounceExpires, Shutdown, ShutdownReplies, vars, client, pulls, run
<1>7. ~RefreshDiagnostics /\ ~RefreshArrives
  BY DEF RefreshDiagnostics, RefreshArrives
<1>8. CASE Analyse
  <2>1. CASE BeginPublish
    BY <2>1, Zenon DEF BeginPublish, client, pulls
  <2>2. CASE FinishPublish
    <3>1. /\ UNCHANGED <<owed, clientPulls, usePull>>
          /\ refresh' = (refresh \/ usePull)
      BY <2>2 DEF FinishPublish, client, pulls, run
    <3>. QED BY <3>1
  <2>3. ASSUME \/ StartAnalysis \/ AbandonQueued \/ LoadFails \/ AnalysisPanics
               \/ ApplyAnalysisOutput \/ StoreResults
               \/ \E u \in Uris : ReadFile(u) \/ PublishOne(u)
        PROVE  UNCHANGED <<owed, refresh, clientPulls, usePull>>
    BY <2>3 DEF StartAnalysis, AbandonQueued, LoadFails, AnalysisPanics, ApplyAnalysisOutput,
       StoreResults, ReadFile, PublishOne, client, pulls, run
  <2>. QED BY <1>1, <1>8, <2>1, <2>2, <2>3 DEF Analyse
<1>. QED BY <1>1, <1>2, <1>3, <1>4, <1>5, <1>6, <1>7, <1>8 DEF Next

\* Every step preserves PullInv: a document that is opened is pulled, the run
\* that changes the cache asks for a refresh when it is through, and a refresh
\* has every open document pulled.
LEMMA PullStep ==
  ASSUME TypeOK, TypeOK', PushOnlyInv, PullInv, [Next]_vars
  PROVE  PullInv'
<1>. USE DEF PullInv, Asked
<1>0. /\ pulled \in Findings /\ cache \in Findings
      /\ buf \in [Uris -> Document]
      /\ pulling \in [Uris -> {"no", "clear", "reply"}]
      /\ refresh \in BOOLEAN /\ usePull \in BOOLEAN
  BY DEF TypeOK, EditorTypeOK, ClientTypeOK, ServerTypeOK, RunTypeOK, StoreTypeOK
<1>1. ASSUME UNCHANGED <<phase, usePull, pulled, cache, refresh, owed, pulling, buf>>
      PROVE  PullInv'
  BY <1>1 DEF IsOpen
<1>2. ASSUME NEW u \in Uris, Editor(u) PROVE PullInv'
  <2>0. UNCHANGED <<phase, usePull, cache, refresh, pulling>>
    BY <1>2 DEF Editor, ClientOpen, ClientEdit, ClientSave, ClientClose, ExternalWrite, pulls,
       run, store
  <2>1. ASSUME buf' = buf, UNCHANGED client PROVE PullInv'
    BY <1>1, <2>0, <2>1 DEF client
  <2>2. ASSUME NEW v \in Uris, v # u
        PROVE  /\ buf'[v] = buf[v] /\ pulled'[v] = pulled[v]
               /\ v \in owed => v \in owed'
    BY <1>0, <1>2, <2>2 DEF Editor, ClientOpen, ClientEdit, ClientSave, ClientClose,
       ExternalWrite, WillPull, Findings, client
  <2>3. CASE ClientOpen(u) \/ \E t \in Texts : ClientEdit(u, t)
    <3>1. usePull => u \in owed'
      BY <2>3 DEF ClientOpen, ClientEdit, WillPull, PushOnlyInv
    <3>. QED BY <2>0, <2>2, <3>1 DEF IsOpen
  <2>4. CASE ClientClose(u)
    <3>1. ~IsOpen(buf'[u])
      BY <1>0, <2>4 DEF ClientClose, IsOpen, Document
    <3>. QED BY <2>0, <2>2, <3>1 DEF IsOpen
  <2>5. CASE ClientSave(u) \/ \E t \in Texts : ExternalWrite(u, t)
    BY <2>1, <2>5 DEF ClientSave, ExternalWrite
  <2>. QED BY <1>2, <2>3, <2>4, <2>5 DEF Editor
<1>3. ASSUME NEW u \in Uris, Handle(u)
      PROVE  UNCHANGED <<phase, usePull, pulled, cache, refresh, owed, pulling, buf>>
  BY <1>3 DEF Handle, DidOpen, DidChange, DidClose, DidSave, editor, client, pulls, run, store
<1>4. ASSUME NEW u \in Uris, FinishOpen(u) PROVE PullInv'
  <2>1. /\ UNCHANGED <<phase, usePull, pulled, cache, owed, pulling, buf>>
        /\ refresh => refresh'
    BY <1>4 DEF FinishOpen, editor, client, pulls, run, store
  <2>. QED BY <2>1 DEF IsOpen
<1>5. ASSUME NEW u \in Uris, DiagnosticArrives(u) PROVE PullInv'
  <2>1. /\ UNCHANGED <<phase, usePull, pulled, cache, refresh, buf>>
        /\ owed' = owed \ {u}
        /\ pulling'[u] # "no"
        /\ \A v \in Uris : v # u => pulling'[v] = pulling[v]
    BY <1>0, <1>5 DEF DiagnosticArrives, editor, run, store
  <2>. QED BY <2>1 DEF IsOpen
<1>6. ASSUME NEW u \in Uris, ClearPushed(u) PROVE PullInv'
  <2>1. /\ UNCHANGED <<phase, usePull, pulled, cache, refresh, owed, buf>>
        /\ pulling'[u] # "no"
        /\ \A v \in Uris : v # u => pulling'[v] = pulling[v]
    BY <1>0, <1>6 DEF ClearPushed, editor, client, run, store
  <2>. QED BY <2>1 DEF IsOpen
<1>7. ASSUME NEW u \in Uris, DiagnosticReplies(u) PROVE PullInv'
  <2>1. /\ UNCHANGED <<phase, usePull, cache, refresh, owed, buf>>
        /\ IsOpen(buf[u]) => pulled'[u] = cache[u]
        /\ \A v \in Uris : v # u => pulling'[v] = pulling[v] /\ pulled'[v] = pulled[v]
    BY <1>0, <1>7 DEF DiagnosticReplies, editor, run, store, Findings
  <2>. QED BY <2>1 DEF IsOpen
<1>8. CASE RefreshDiagnostics
  <2>1. /\ UNCHANGED <<phase, usePull, pulled, cache, owed, pulling, buf>>
        /\ refresh'
    BY <1>8, Zenon DEF RefreshDiagnostics, editor, client, pulls, run, store
  <2>. QED BY <2>1 DEF IsOpen
<1>9. CASE RefreshArrives
  <2>1. UNCHANGED <<phase, usePull, buf>> /\ owed' = owed \cup OpenDocs(buf)
    BY <1>9 DEF RefreshArrives, editor, run
  <2>. QED BY <2>1 DEF OpenDocs, IsOpen
<1>10. ASSUME DebounceExpires \/ Shutdown \/ ShutdownReplies \/ UNCHANGED vars
       PROVE  UNCHANGED <<phase, usePull, pulled, cache, refresh, owed, pulling, buf>>
  BY <1>10 DEF DebounceExpires, Shutdown, ShutdownReplies, vars, editor, client, pulls, run, store
<1>11. CASE BeginPublish
  BY <1>11 DEF BeginPublish
<1>12. ASSUME NEW u \in Uris, PublishOne(u) PROVE PullInv'
  BY <1>12 DEF PublishOne
<1>13. CASE FinishPublish
  <2>1. usePull' = usePull /\ refresh' = (refresh \/ usePull)
    BY <1>13 DEF FinishPublish, run
  <2>. QED BY <2>1
<1>14. ASSUME \/ StartAnalysis \/ AbandonQueued \/ LoadFails \/ AnalysisPanics
              \/ ApplyAnalysisOutput \/ StoreResults \/ \E u \in Uris : ReadFile(u)
       PROVE  /\ UNCHANGED <<usePull, pulled, cache, refresh, owed, pulling, buf>>
              /\ phase # "publish"
  BY <1>14 DEF StartAnalysis, AbandonQueued, LoadFails, AnalysisPanics, ApplyAnalysisOutput,
     StoreResults, ReadFile, editor, client, pulls, run, store
<1>15. CASE Analyse
  <2>1. CASE /\ UNCHANGED <<usePull, pulled, cache, refresh, owed, pulling, buf>>
             /\ phase # "publish"
    BY <2>1 DEF IsOpen
  <2>. QED BY <1>11, <1>12, <1>13, <1>14, <1>15, <2>1, Zenon DEF Analyse
<1>. QED BY <1>1, <1>2, <1>3, <1>4, <1>5, <1>6, <1>7, <1>8, <1>9, <1>10, <1>15 DEF Next, Pull

\* An editor that pulls shows what the cache holds whenever nothing is under way,
\* however opens, closes, pulls, refreshes and runs are interleaved.
THEOREM PullsMatchTheCache == Spec => []PulledMatchesCache
<1>1. Init => PushOnlyInv /\ PullInv
  BY DEF Init, PushOnlyInv, PullInv
<1>2. TypeOK /\ TypeOK' /\ PushOnlyInv /\ PullInv /\ [Next]_vars => PushOnlyInv' /\ PullInv'
  BY PushOnlyStep, PullStep
<1>3. TypeOK /\ PullInv => PulledMatchesCache
  <2>. SUFFICES ASSUME PullInv, Quiet, usePull, NEW u \in OpenDocs(buf)
                PROVE  pulled[u] = cache[u]
    BY DEF PulledMatchesCache
  <2>1. u \in Uris /\ IsOpen(buf[u])
    BY DEF OpenDocs
  <2>2. ~Asked(u) /\ phase # "publish"
    BY <2>1 DEF Asked, Quiet
  <2>. QED BY <2>1, <2>2 DEF PullInv
<1>. QED BY TypeCorrect, <1>1, <1>2, <1>3, PTL DEF Spec

-----------------------------------------------------------------------------
(* A run that nothing disturbs leaves everybody with what the disk says. *)

\* The document has no unsaved changes as far as the server knows.
Settled(u) == ~IsOpen(documents[u]) \/ documents[u].text = disk[u]

\* The server, and an editor that only takes pushes, have the file's findings.
UpToDate(u) ==
    /\ cache[u] = Diagnostics(disk[u])
    /\ ~clientPulls => pushed[u] = Diagnostics(disk[u])

\* The first pull clears the pushes only after client_pulls is set.
ClearInv == \A u \in Uris : pulling[u] = "clear" => clientPulls

\* Without a disturbance the server runs and no notification is under way.
StillInv == calm => inbox = <<>> /\ life = "running"

\* The run reads what is on disk, and its snapshot stays that of the documents.
SameInv ==
    calm /\ phase # "idle" =>
        /\ \A u \in Uris : seen[u] = disk[u] \/ u \in unread
        /\ phase # "reading" => unread = {}
        /\ \A u \in Uris :
             /\ ~IsOpen(documents[u]) => snap[u] = NoSnap
             /\ documents[u].text = disk[u] =>
                    snap[u].fresh /\ snap[u].version = documents[u].version

\* The loop has brought up to date what it went through, and goes through
\* exactly the files with findings.
LoopInv ==
    calm /\ phase = "publish" =>
        /\ live = documents
        /\ \A u \in Uris : u \in todo \cup newUris <=> disk[u] \notin Clean
        /\ \A u \in newUris : Settled(u) => UpToDate(u)

\* After the loop everything settled is up to date.
DoneInv ==
    calm /\ phase \in {"store", "idle"} => \A u \in Uris : Settled(u) => UpToDate(u)

\* After the run the stored results are what is on disk.
ResultsInv == calm /\ phase = "idle" => results = disk

CalmInv == ClearInv /\ StillInv /\ SameInv /\ LoopInv /\ DoneInv /\ ResultsInv

\* Every step preserves ClearInv.
LEMMA ClearStep ==
  ASSUME TypeOK, ClearInv, [Next]_vars
  PROVE  ClearInv'
<1>. USE DEF ClearInv
<1>0. pulling \in [Uris -> {"no", "clear", "reply"}]
  BY DEF TypeOK, ServerTypeOK
<1>1. ASSUME NEW u \in Uris, DiagnosticArrives(u) PROVE ClearInv'
  BY <1>1, Zenon DEF DiagnosticArrives
<1>2. ASSUME NEW u \in Uris, ClearPushed(u) \/ DiagnosticReplies(u) PROVE ClearInv'
  <2>1. clientPulls' = clientPulls /\ \A v \in Uris : pulling'[v] = "clear" => pulling[v] = "clear"
    BY <1>0, <1>2 DEF ClearPushed, DiagnosticReplies
  <2>. QED BY <2>1
<1>3. ASSUME UNCHANGED pulls PROVE ClearInv'
  BY <1>3 DEF pulls
<1>4. ASSUME NEW u \in Uris, Editor(u) \/ Handle(u) \/ FinishOpen(u) PROVE UNCHANGED pulls
  BY <1>4 DEF Editor, ClientOpen, ClientEdit, ClientSave, ClientClose, ExternalWrite, Handle,
     DidOpen, DidChange, DidClose, DidSave, FinishOpen
<1>5. ASSUME \/ RefreshDiagnostics \/ RefreshArrives \/ DebounceExpires \/ Shutdown
             \/ ShutdownReplies \/ UNCHANGED vars
      PROVE  UNCHANGED pulls
  BY <1>5 DEF RefreshDiagnostics, RefreshArrives, DebounceExpires, Shutdown, ShutdownReplies, vars
<1>6. ASSUME Analyse PROVE UNCHANGED pulls
  BY <1>6 DEF Analyse, StartAnalysis, AbandonQueued, LoadFails, AnalysisPanics,
     ApplyAnalysisOutput, BeginPublish, FinishPublish, StoreResults, ReadFile, PublishOne
<1>. QED BY <1>1, <1>2, <1>3, <1>4, <1>5, <1>6 DEF Next, Pull

\* A step outside the run that leaves the history calm changes neither files nor
\* documents, and nothing that an editor which only takes pushes shows.
LEMMA CalmOutside ==
  ASSUME TypeOK, ClearInv, StillInv, Outside, calm'
  PROVE  /\ calm /\ UNCHANGED <<disk, documents, inbox, life, phase, run, store>>
         /\ clientPulls => clientPulls'
         /\ ~clientPulls => pushed' = pushed
<1>1. UNCHANGED <<phase, run, store>> /\ (clientPulls => clientPulls')
  BY OutsideStep
<1>2. ASSUME NEW u \in Uris, Editor(u) PROVE FALSE
  <2>1. UserActs
    BY <1>2 DEF Editor, ClientOpen, ClientEdit, ClientSave, ClientClose, ExternalWrite
  <2>. QED BY <2>1, Zenon DEF UserActs
<1>3. ASSUME NEW u \in Uris, Handle(u) PROVE FALSE
  <2>1. calm' = calm /\ inbox # <<>>
    BY <1>3 DEF Handle, DidOpen, DidChange, DidClose, DidSave, Receive, editor
  <2>. QED BY <2>1 DEF StillInv
<1>4. ASSUME NEW u \in Uris, FinishOpen(u) \/ Pull(u)
      PROVE  /\ UNCHANGED <<calm, disk, documents, inbox, life>>
             /\ ~clientPulls => pushed' = pushed
  <2>1. CASE FinishOpen(u)
    BY <2>1 DEF FinishOpen, editor
  <2>2. CASE DiagnosticArrives(u) \/ DiagnosticReplies(u)
    BY <2>2 DEF DiagnosticArrives, DiagnosticReplies, editor, handlers
  <2>3. CASE ClearPushed(u)
    BY <2>3 DEF ClearPushed, ClearInv, editor, handlers
  <2>. QED BY <1>4, <2>1, <2>2, <2>3 DEF Pull
<1>5. ASSUME Shutdown \/ ShutdownReplies PROVE FALSE
  <2>1. CASE Shutdown
    BY <2>1, Zenon DEF Shutdown
  <2>2. CASE ShutdownReplies
    BY <2>2 DEF ShutdownReplies, StillInv, editor
  <2>. QED BY <1>5, <2>1, <2>2
<1>6. ASSUME RefreshDiagnostics \/ RefreshArrives \/ DebounceExpires \/ UNCHANGED vars
      PROVE  UNCHANGED <<calm, disk, documents, inbox, life, pushed>>
  BY <1>6 DEF RefreshDiagnostics, RefreshArrives, DebounceExpires, vars, editor, handlers
<1>. QED BY <1>1, <1>2, <1>3, <1>4, <1>5, <1>6 DEF Outside

\* Such steps preserve what CalmInv says of the run.
LEMMA CalmOutsideStep ==
  ASSUME TypeOK, CalmInv, Outside
  PROVE  StillInv' /\ SameInv' /\ LoopInv' /\ DoneInv' /\ ResultsInv'
<1>. SUFFICES ASSUME calm' PROVE StillInv' /\ SameInv' /\ LoopInv' /\ DoneInv' /\ ResultsInv'
  BY DEF StillInv, SameInv, LoopInv, DoneInv, ResultsInv
<1>1. /\ calm /\ UNCHANGED <<disk, documents, inbox, life, phase, run, store>>
      /\ clientPulls => clientPulls'
      /\ ~clientPulls => pushed' = pushed
  BY CalmOutside DEF CalmInv
<1>2. UNCHANGED <<snap, unread, seen, live, usePull, todo, newUris, cache, results>>
  BY <1>1 DEF run, store
<1>3. ASSUME NEW u \in Uris, UpToDate(u) PROVE UpToDate(u)'
  BY <1>1, <1>2, <1>3 DEF UpToDate, Diagnostics
<1>4. StillInv' /\ SameInv' /\ ResultsInv'
  BY <1>1, <1>2 DEF CalmInv, StillInv, SameInv, ResultsInv, IsOpen
<1>5. LoopInv' /\ DoneInv'
  <2>1. \A u \in Uris : Settled(u)' => Settled(u)
    BY <1>1 DEF Settled, IsOpen
  <2>2. newUris \subseteq Uris
    BY DEF TypeOK, RunTypeOK
  <2>. QED BY <1>1, <1>2, <1>3, <2>1, <2>2 DEF CalmInv, LoopInv, DoneInv
<1>. QED BY <1>4, <1>5

\* A settled document is never stale for a run that nothing disturbed.
LEMMA SettledNotStale ==
  ASSUME TypeOK, SameInv, LoopInv, calm, phase = "publish", NEW u \in Uris, Settled(u)
  PROVE  ~UriIsStale(u)
<1>1. live[u] = documents[u]
  BY DEF LoopInv
<1>2. CASE ~IsOpen(documents[u])
  <2>1. ~InSnap(u)
    BY <1>2 DEF SameInv, InSnap
  <2>. QED BY <1>1, <1>2, <2>1 DEF UriIsStale
<1>3. CASE documents[u].text = disk[u]
  <2>1. /\ snap[u].fresh /\ snap[u].version = documents[u].version
    BY <1>3 DEF SameInv
  <2>2. documents[u].version \in Nat
    BY DEF TypeOK, ServerTypeOK, Document
  <2>3. ~(live[u].version > snap[u].version)
    BY <1>1, <2>1, <2>2
  <2>4. IsOpen(live[u])
    <3>1. disk[u] \in Texts
      BY DEF TypeOK, EditorTypeOK
    <3>. QED BY <1>1, <1>3, <3>1, LspAssumption DEF IsOpen
  <2>5. InSnap(u)
    BY <2>1 DEF InSnap, NoSnap
  <2>. QED BY <2>1, <2>3, <2>4, <2>5 DEF UriIsStale
<1>. QED BY <1>2, <1>3 DEF Settled

\* One round of the publishing loop brings its file up to date.
LEMMA CalmPublishOne ==
  ASSUME TypeOK, TrackInv, CalmInv, NEW u \in Uris, PublishOne(u), calm
  PROVE  LoopInv'
<1>0. SameInv /\ LoopInv /\ phase = "publish" /\ u \in todo
  BY DEF CalmInv, PublishOne
<1>1. /\ UNCHANGED <<disk, documents, live, seen, clientPulls, calm>>
      /\ todo' = todo \ {u} /\ newUris' = newUris \cup {u}
  BY DEF PublishOne, editor, handlers, pulls
<1>2. cache \in Findings /\ pushed \in Findings /\ newUris \subseteq Uris
  BY DEF TypeOK, StoreTypeOK, ClientTypeOK, RunTypeOK
<1>3. ASSUME NEW v \in Uris, v # u PROVE cache'[v] = cache[v] /\ pushed'[v] = pushed[v]
  <2>1. CASE UriIsStale(u)
    BY <2>1 DEF PublishOne
  <2>2. CASE ~UriIsStale(u)
    BY <1>2, <1>3, <2>2 DEF PublishOne, Findings
  <2>. QED BY <2>1, <2>2
<1>4. seen[u] = disk[u]
  BY <1>0 DEF SameInv, CalmInv
<1>5. ASSUME Settled(u) PROVE UpToDate(u)'
  <2>1. ~UriIsStale(u)
    BY <1>0, <1>5, SettledNotStale
  <2>2. cache'[u] = Diagnostics(disk[u])
    BY <1>2, <1>4, <2>1 DEF PublishOne, Findings
  <2>3. ASSUME ~clientPulls PROVE pushed'[u] = Diagnostics(disk[u])
    <3>1. Pushes(u)
      BY <2>3 DEF Pushes, TrackInv
    <3>. QED BY <1>2, <1>4, <2>1, <3>1 DEF PublishOne, Findings
  <2>. QED BY <1>1, <2>2, <2>3 DEF UpToDate, Diagnostics
<1>6. ASSUME NEW v \in newUris, v # u, Settled(v) PROVE UpToDate(v)'
  <2>1. UpToDate(v)
    BY <1>0, <1>6 DEF LoopInv
  <2>. QED BY <1>1, <1>2, <1>3, <1>6, <2>1 DEF UpToDate, Diagnostics
<1>7. ASSUME NEW v \in Uris PROVE Settled(v)' => Settled(v)
  BY <1>1 DEF Settled, IsOpen
<1>8. \A v \in newUris' : Settled(v)' => UpToDate(v)'
  BY <1>1, <1>2, <1>5, <1>6, <1>7
<1>9. live' = documents' /\ \A v \in Uris : v \in todo' \cup newUris' <=> disk'[v] \notin Clean
  BY <1>0, <1>1 DEF LoopInv
<1>. QED BY <1>8, <1>9 DEF LoopInv

\* What the loop did not go through has no findings and is cleared.
LEMMA CalmFinishPublish ==
  ASSUME TypeOK, TrackInv, CalmInv, FinishPublish, calm
  PROVE  DoneInv'
<1>0. SameInv /\ LoopInv /\ phase = "publish" /\ todo = {}
  BY DEF CalmInv, FinishPublish
<1>1. UNCHANGED <<disk, documents, newUris, clientPulls>>
  BY DEF FinishPublish, editor, handlers, pulls, run
<1>. DEFINE gone == {v \in previous \ newUris : ~UriIsStale(v)}
<1>2. ASSUME NEW v \in Uris
      PROVE  /\ cache'[v] = IF v \in gone THEN None ELSE cache[v]
             /\ pushed'[v] = IF v \in gone /\ Pushes(v) THEN None ELSE pushed[v]
  BY <1>2 DEF FinishPublish
<1>3. ASSUME NEW v \in Uris, Settled(v) PROVE UpToDate(v)'
  <2>1. ~UriIsStale(v)
    BY <1>0, <1>3, SettledNotStale
  <2>2. CASE v \in newUris
    <3>1. UpToDate(v)
      BY <1>0, <1>3, <2>2 DEF LoopInv
    <3>. QED BY <1>1, <1>2, <2>2, <3>1 DEF UpToDate, Diagnostics
  <2>3. CASE v \notin newUris
    <3>1. Diagnostics(disk[v]) = None
      BY <1>0, <2>3 DEF LoopInv, Diagnostics
    <3>2. v \notin previous => cache[v] = None /\ (~clientPulls => pushed[v] = None)
      BY <1>0, <2>3 DEF TrackInv, TrackedForClearing
    <3>3. ~clientPulls => Pushes(v)
      BY DEF Pushes, TrackInv
    <3>4. cache'[v] = None /\ (~clientPulls => pushed'[v] = None)
      BY <1>2, <2>1, <2>3, <3>2, <3>3
    <3>. QED BY <1>1, <3>1, <3>4 DEF UpToDate, Diagnostics
  <2>. QED BY <2>2, <2>3
<1>4. ASSUME NEW v \in Uris PROVE Settled(v)' => Settled(v)
  BY <1>1 DEF Settled, IsOpen
<1>. QED BY <1>3, <1>4 DEF DoneInv

\* Steps of the run preserve what CalmInv says of it.
LEMMA CalmAnalyse ==
  ASSUME TypeOK, TrackInv, CalmInv, Analyse
  PROVE  StillInv' /\ SameInv' /\ LoopInv' /\ DoneInv' /\ ResultsInv'
<1>. SUFFICES ASSUME calm' PROVE StillInv' /\ SameInv' /\ LoopInv' /\ DoneInv' /\ ResultsInv'
  BY DEF StillInv, SameInv, LoopInv, DoneInv, ResultsInv
<1>. DEFINE Good == StillInv' /\ SameInv' /\ LoopInv' /\ DoneInv' /\ ResultsInv'
<1>1. CASE StartAnalysis
  <2>1. /\ UNCHANGED <<disk, documents, inbox, life>> /\ life = "running" /\ phase' = "reading"
        /\ unread' = Uris
        /\ calm' = (inbox = <<>>)
    BY <1>1 DEF StartAnalysis, handlers
  <2>2. ASSUME NEW v \in Uris
        PROVE  snap'[v] = IF IsOpen(documents[v])
                          THEN [version |-> documents[v].version,
                                fresh |-> documents[v].text = disk[v]]
                          ELSE NoSnap
    BY <1>1, <2>2 DEF StartAnalysis
  <2>3. ASSUME NEW v \in Uris, documents[v].text = disk[v]
        PROVE  snap'[v].fresh /\ snap'[v].version = documents[v].version
    <3>1. disk[v] \in Texts
      BY DEF TypeOK, EditorTypeOK
    <3>2. IsOpen(documents[v])
      BY <2>3, <3>1, LspAssumption DEF IsOpen
    <3>. DEFINE isFresh == documents[v].text = disk[v]
    <3>3. snap'[v] = [version |-> documents[v].version, fresh |-> isFresh]
      BY <2>2, <3>2
    <3>4. isFresh = TRUE
      BY <2>3
    <3>. HIDE DEF isFresh
    <3>. QED BY <3>3, <3>4
  <2>4. SameInv'
    BY <2>1, <2>2, <2>3 DEF SameInv, IsOpen
  <2>5. StillInv'
    BY <2>1 DEF StillInv
  <2>. QED BY <2>1, <2>4, <2>5 DEF LoopInv, DoneInv, ResultsInv
<1>2. CASE LoadFails \/ AnalysisPanics
  BY <1>2, Zenon DEF LoadFails, AnalysisPanics
<1>3. ASSUME ~StartAnalysis, ~LoadFails, ~AnalysisPanics
      PROVE  calm /\ UNCHANGED <<disk, documents, inbox, life, clientPulls, calm, snap>>
  BY <1>3 DEF Analyse, AbandonQueued, ReadFile, ApplyAnalysisOutput, BeginPublish, PublishOne,
     FinishPublish, StoreResults, editor, handlers, pulls, run
<1>4. CASE AbandonQueued
  <2>1. calm' = calm /\ life # "running"
    BY <1>4 DEF AbandonQueued, editor
  <2>. QED BY <2>1 DEF CalmInv, StillInv
<1>. DEFINE Kept == calm /\ UNCHANGED <<disk, documents, inbox, life, clientPulls, calm, snap>>
<1>5. ASSUME Kept PROVE StillInv'
  BY <1>5 DEF CalmInv, StillInv
<1>6. ASSUME NEW u \in Uris, ReadFile(u), Kept PROVE Good
  <2>1. /\ phase = "reading" /\ phase' = "reading"
        /\ seen' = [seen EXCEPT ![u] = disk[u]] /\ unread' = unread \ {u}
    BY <1>6 DEF ReadFile
  <2>2. seen \in [Uris -> Texts \cup {None}]
    BY DEF TypeOK, RunTypeOK, Findings
  <2>3. SameInv'
    BY <1>6, <2>1, <2>2 DEF CalmInv, SameInv, IsOpen
  <2>. QED BY <1>5, <1>6, <2>1, <2>3 DEF LoopInv, DoneInv, ResultsInv
<1>7. CASE ApplyAnalysisOutput /\ Kept
  <2>1. /\ phase = "reading" /\ unread = {} /\ phase' = "apply"
        /\ UNCHANGED <<seen, unread>>
    BY <1>7 DEF ApplyAnalysisOutput, CalmInv, StillInv, run
  <2>2. SameInv'
    BY <1>7, <2>1 DEF CalmInv, SameInv, IsOpen
  <2>. QED BY <1>5, <1>7, <2>1, <2>2 DEF LoopInv, DoneInv, ResultsInv
<1>8. CASE BeginPublish /\ Kept
  <2>1. /\ phase = "apply" /\ phase' = "publish" /\ UNCHANGED <<seen, unread>>
        /\ live' = documents /\ todo' = {v \in Uris : Reported(v)} /\ newUris' = {}
    BY <1>8 DEF BeginPublish
  <2>2. SameInv'
    BY <1>8, <2>1 DEF CalmInv, SameInv, IsOpen
  <2>3. ASSUME NEW v \in Uris PROVE Reported(v) <=> disk[v] \notin Clean
    <3>1. seen[v] = disk[v] /\ disk[v] \in Texts
      BY <1>8, <2>1 DEF CalmInv, SameInv, TypeOK, EditorTypeOK
    <3>. QED BY <3>1 DEF Reported
  <2>4. LoopInv'
    BY <1>8, <2>1, <2>3 DEF LoopInv
  <2>. QED BY <1>5, <1>8, <2>1, <2>2, <2>4 DEF DoneInv, ResultsInv
<1>9. ASSUME NEW u \in Uris, PublishOne(u), Kept PROVE Good
  <2>1. phase = "publish" /\ phase' = "publish" /\ UNCHANGED <<seen, unread>>
    BY <1>9 DEF PublishOne
  <2>2. SameInv'
    BY <1>9, <2>1 DEF CalmInv, SameInv, IsOpen
  <2>3. LoopInv'
    BY <1>9, CalmPublishOne
  <2>. QED BY <1>5, <1>9, <2>1, <2>2, <2>3 DEF DoneInv, ResultsInv
<1>10. CASE FinishPublish /\ Kept
  <2>1. phase = "publish" /\ phase' = "store" /\ UNCHANGED <<seen, unread>>
    BY <1>10 DEF FinishPublish, run
  <2>2. SameInv'
    BY <1>10, <2>1 DEF CalmInv, SameInv, IsOpen
  <2>3. DoneInv'
    BY <1>10, CalmFinishPublish
  <2>. QED BY <1>5, <1>10, <2>1, <2>2, <2>3 DEF LoopInv, ResultsInv
<1>11. CASE StoreResults /\ Kept
  <2>1. phase = "store" /\ phase' = "idle" /\ UNCHANGED <<cache, pushed>> /\ results' = seen
    BY <1>11 DEF StoreResults
  <2>2. seen = disk
    <3>1. seen \in [Uris -> Texts \cup {None}] /\ disk \in [Uris -> Texts]
      BY DEF TypeOK, RunTypeOK, EditorTypeOK, Findings
    <3>2. \A v \in Uris : seen[v] = disk[v]
      BY <1>11, <2>1 DEF CalmInv, SameInv
    <3>. QED BY <3>1, <3>2
  <2>3. DoneInv'
    BY <1>11, <2>1 DEF CalmInv, DoneInv, Settled, UpToDate, IsOpen, Diagnostics
  <2>. QED BY <1>5, <1>11, <2>1, <2>2, <2>3 DEF SameInv, LoopInv, ResultsInv
<1>. HIDE DEF Kept, Good
<1>12. CASE ~StartAnalysis /\ ~LoadFails /\ ~AnalysisPanics
  <2>1. Kept
    BY <1>3, <1>12 DEF Kept
  <2>. QED BY <1>4, <1>6, <1>7, <1>8, <1>9, <1>10, <1>11, <1>12, <2>1 DEF Analyse, Good
<1>. QED BY <1>1, <1>2, <1>12 DEF Good

\* When nothing happened to files and documents since the last run took its
\* snapshot, the stored results are what the disk says, and so are the findings
\* cached, and pushed to an editor that does not pull, for every file that is
\* closed or has no unsaved changes: whatever earlier runs had left behind,
\* skipped as stale or lost to a failure.
THEOREM CalmRunsConverge == Spec => []CalmConverged
<1>1. Init => TrackInv /\ CalmInv
  <2>. SUFFICES ASSUME Init PROVE TrackInv /\ CalmInv
    OBVIOUS
  <2>1. ~calm /\ ~usePull
    BY Zenon DEF Init
  <2>2. TrackInv /\ ClearInv
    BY <2>1 DEF Init, TrackInv, TrackedForClearing, ClearInv
  <2>. QED BY <2>1, <2>2 DEF CalmInv, StillInv, SameInv, LoopInv, DoneInv, ResultsInv
<1>2. TypeOK /\ TrackInv /\ CalmInv /\ [Next]_vars => TrackInv' /\ CalmInv'
  <2>. SUFFICES ASSUME TypeOK, TrackInv, CalmInv, [Next]_vars PROVE TrackInv' /\ CalmInv'
    OBVIOUS
  <2>1. TrackInv'
    BY TrackStep
  <2>2. ClearInv'
    BY ClearStep DEF CalmInv
  <2>3. StillInv' /\ SameInv' /\ LoopInv' /\ DoneInv' /\ ResultsInv'
    BY NextSplits, CalmOutsideStep, CalmAnalyse
  <2>. QED BY <2>1, <2>2, <2>3 DEF CalmInv
<1>3. CalmInv => CalmConverged
  BY DEF CalmInv, DoneInv, ResultsInv, CalmConverged, Settled, UpToDate
<1>. QED BY TypeCorrect, <1>1, <1>2, <1>3, PTL DEF Spec

=============================================================================

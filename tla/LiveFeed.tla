------------------------------ MODULE LiveFeed ------------------------------
(***************************************************************************)
(* The live feed, from LogEvent to a dashboard page: events are recorded,   *)
(* projected and published (events/event_logger.go), the hub fans them out  *)
(* to bounded channels (live/live_hub.go), the SSE handler subscribes,      *)
(* replays and streams (handlers/live_handler.go), and the page's client    *)
(* follows the stream, reconnects, resyncs and reloads                      *)
(* (dashboard liveClient.ts, liveRefreshTrigger.ts).                        *)
(*                                                                         *)
(* An event's id is its index in the log: it is taken when LogEvent inserts *)
(* the row, before the row can be read.  One tick is the debounce period.   *)
(***************************************************************************)
EXTENDS LiveFilters, Sequences, FiniteSets, SequencesExt

CONSTANTS
    Settings,     \* [scopes, prefixes, granted, kinds]: what a page subscribes to and
                  \* reacts to, its API key's scopes, the events that happen meanwhile
    MaxConns,     \* bound: connections at a time
    MaxEvents,    \* bound: events
    MaxDrops,     \* bound: connections lost by the network or the watchdog
    Buffer,       \* bufferSize
    ReplayCap,
    Margin,       \* watermarkSafetyMargin
    Overlap,      \* RESUME_OVERLAP
    MaxPerKey,    \* MaxConnectionsPerKey
    Calm          \* a debounce period sees at most Margin events, and a LogEvent
                  \* or the start of a page takes no longer than one

ASSUME LiveAssumption ==
    /\ MaxConns \in Nat
    /\ \A p \in Settings : /\ p.kinds \subseteq Events /\ p.scopes \subseteq Scopes
                          /\ Permissions(p.scopes) \subseteq p.granted
    /\ {MaxEvents, MaxDrops, Margin, Overlap} \subseteq Nat
    /\ {Buffer, MaxPerKey} \subseteq Nat \ {0}
    /\ ReplayCap \in Nat /\ ReplayCap >= Margin + Overlap
    /\ Calm \in BOOLEAN

Ids == 1 .. MaxEvents
Conns == 1 .. MaxConns
NoConn == 0
Summary == 0                 \* the synthetic platform.summary, which has no id
Resync == MaxEvents + 1      \* the "resync" frame
Stages == {"inserting", "recorded", "published", "coalesced", "unstreamed"}
Free == [pc |-> "free", after |-> 0, unreplayed |-> {}, delivered |-> {}, sent |-> <<>>]
Closed == [open |-> FALSE, buf |-> <<>>]

VARIABLES
    log,      \* event_envelopes: kind and how far LogEvent is with it
    recent,   \* lastPublished: the type and subject pairs inside their window
    summary,  \* summaryNotifier.pending
    burst,    \* events begun in this tick, counted when Calm
    hub,      \* connection -> its channel: still subscribed?, buffered ids
    handler,  \* connection -> GetLive: phase, cursor, replayed ids, frames sent; as
              \* history, what was projected after the cursor before it subscribed,
              \* until the replay has dealt with it
    active,   \* Limiter.active of the caller
    setting,  \* the one of Settings this is
    page,     \* the ids its data reflects, debounce, needsRefetch
    client,   \* connectLive: phase, state, connection, frames read, cursor, ...; as
              \* history, whether it was never LIVE before this connection
    drops

vars == <<log, recent, summary, burst, hub, handler, active, setting, page, client, drops>>
server == <<hub, handler, active, setting>>
logger == <<log, recent, summary, burst>>

Visible == {i \in DOMAIN log : log[i].stage # "inserting"}
Projected == {i \in Visible : log[i].stage # "recorded"}
InLog == {i \in DOMAIN log : log[i].stage \in {"inserting", "recorded"}}
MaxOf(S) == CHOOSE x \in S : \A y \in S : y <= x
SetStage(i, s) == log' = [log EXCEPT ![i].stage = s]

-----------------------------------------------------------------------------
(* LogEvent *)

(* The row's id is taken; the row cannot be read yet. *)
Insert ==
    /\ Len(log) < MaxEvents
    /\ Calm => burst < Margin
    /\ \E k \in setting.kinds : log' = Append(log, [kind |-> k, stage |-> "inserting"])
    /\ burst' = IF Calm THEN burst + 1 ELSE burst
    /\ UNCHANGED <<recent, summary, server, page, client, drops>>

Commit(i) ==
    /\ log[i].stage = "inserting"
    /\ SetStage(i, "recorded")
    /\ UNCHANGED <<recent, summary, burst, server, page, client, drops>>

Key(k) == <<k.type, k.subject>>

(* shouldCoalesce: never for a critical type. *)
shouldCoalesce(k) == PriorityOf(k.type) # "critical" /\ Key(k) \in recent

(* One subscriber's part of Hub.Publish: into its channel, or dropped, or cut. *)
Offer(ch, i, k) ==
    IF Len(ch.buf) < Buffer THEN [ch EXCEPT !.buf = Append(@, i)]
    ELSE IF PriorityOfEvent(k) = "informational" THEN ch
    ELSE [ch EXCEPT !.open = FALSE]

(* UpdateProjection, so that what the pages read reflects the event, then     *)
(* Hub.Publish and the summary the change arms.  A noise event is not         *)
(* published; a second one of its kind within the window is suppressed.      *)
Publish(i) ==
    LET k == log[i].kind
    IN /\ log[i].stage = "recorded"
       /\ IF IsNoise(k) THEN SetStage(i, "unstreamed") /\ UNCHANGED <<recent, summary, hub>>
          ELSE /\ summary' = WantsSummary(setting.scopes)      \* kept only for who listens
               /\ IF shouldCoalesce(k) THEN SetStage(i, "coalesced") /\ UNCHANGED <<recent, hub>>
                  ELSE /\ SetStage(i, "published")
                       /\ recent' = IF PriorityOf(k.type) = "critical" THEN recent ELSE recent \cup {Key(k)}
                       /\ hub' = [c \in Conns |-> IF hub[c].open /\ Matches(setting.scopes, k)
                                                  THEN Offer(hub[c], i, k) ELSE hub[c]]
       /\ UNCHANGED <<burst, handler, active, setting, page, client, drops>>

(* summaryNotifier.fire and PublishSummary: dropped when the channel is full. *)
FireSummary ==
    /\ summary
    /\ summary' = FALSE
    /\ hub' = [c \in Conns |-> IF hub[c].open /\ WantsSummary(setting.scopes) /\ Len(hub[c].buf) < Buffer
                               THEN [hub[c] EXCEPT !.buf = Append(@, Summary)] ELSE hub[c]]
    /\ UNCHANGED <<log, recent, burst, handler, active, setting, page, client, drops>>

-----------------------------------------------------------------------------
(* GetLive *)

(* The request is accepted: a slot of the limiter, then the subscription.    *)
(* A request over the limit is refused with 429 and the client dials again.  *)
AcquireOneMore == active <= MaxPerKey                      \* mutant: one connection too many
Acquire == active < MaxPerKey
Release == active' = IF active <= 1 THEN 0 ELSE active - 1

After == IF client.cursor > Overlap THEN client.cursor - Overlap ELSE 0

Accept(c) ==
    /\ client.pc = "dialing" /\ handler[c] = Free /\ \A d \in 1 .. c - 1 : handler[d] # Free
    /\ Acquire
    /\ active' = active + 1
    /\ hub' = [hub EXCEPT ![c] = [open |-> TRUE, buf |-> <<>>]]
    /\ handler' = [handler EXCEPT ![c] = [Free EXCEPT !.pc = "replay", !.after = After,
                                                     !.unreplayed = {i \in Projected : i > After}]]
    /\ client' = [client EXCEPT !.pc = "waiting", !.conn = c, !.read = 0, !.first = ~client.ever]
    /\ UNCHANGED <<logger, setting, page, drops>>

(* The rows of the replay query. *)
ReplayRows(c) ==
    {i \in Visible : /\ i > handler[c].after /\ ~IsNoise(log[i].kind)
                     /\ ReplaySQL(setting.scopes, log[i].kind)
                     /\ ~HiddenEventSQL(setting.granted, log[i].kind.type)}

CapReached(rows) == Cardinality(rows) >= ReplayCap         \* mutant: off by one
TooMany(rows) == Cardinality(rows) > ReplayCap

(* ORDER BY id ASC. *)
InOrder(rows) ==
    CHOOSE frames \in [1 .. Cardinality(rows) -> rows] : \A x, y \in DOMAIN frames : x < y => frames[x] < frames[y]

(* The replay, or the resync frame when there is too much to replay; after a *)
(* replay that sent something a summary client is told once.                 *)
Replay(c) ==
    /\ handler[c].pc = "replay"
    /\ LET rows == ReplayRows(c)
           frames == InOrder(rows)
       IN handler' = [handler EXCEPT ![c] =
            IF TooMany(rows)
            THEN [@ EXCEPT !.pc = "stream", !.unreplayed = {}, !.sent = <<Resync>>]
            ELSE [@ EXCEPT !.pc = "stream", !.unreplayed = {}, !.delivered = rows,
                           !.sent = IF rows # {} /\ WantsSummary(setting.scopes) THEN Append(frames, Summary) ELSE frames]]
    /\ UNCHANGED <<logger, hub, active, setting, page, client, drops>>

(* The query fails, its context cancelled or the database away: the handler    *)
(* prints it and streams on, with nothing replayed and no resync.  There is   *)
(* no query when the summary is all that is subscribed to.                   *)
ReplayFails(c) ==
    /\ handler[c].pc = "replay"
    /\ ReplayWanted(setting.scopes)
    /\ handler' = [handler EXCEPT ![c].pc = "stream"]
    /\ UNCHANGED <<logger, hub, active, setting, page, client, drops>>

(* The loop's filter: a replayed id is recognised by itself, not by a maximum. *)
AboveReplayed(c, i) ==                                     \* mutant: everything up to the highest
    i = Summary \/ (CanSee(setting.granted, log[i].kind.type) /\ \A r \in handler[c].delivered : i > r)
Forward(c, i) ==
    i = Summary \/ (CanSee(setting.granted, log[i].kind.type) /\ i \notin handler[c].delivered)

Stream(c) ==
    /\ handler[c].pc = "stream" /\ hub[c].buf # <<>>
    /\ hub' = [hub EXCEPT ![c].buf = Tail(@)]
    /\ handler' = [handler EXCEPT ![c].sent = IF Forward(c, Head(hub[c].buf)) THEN Append(@, Head(hub[c].buf)) ELSE @]
    /\ UNCHANGED <<logger, active, setting, page, client, drops>>

(* The handler returns: the request is gone, or the hub closed the channel   *)
(* and what was buffered is sent.  Unsubscribe, Release.                     *)
Return(c) ==
    /\ handler[c].pc = "stream"
    /\ client.conn # c \/ (~hub[c].open /\ hub[c].buf = <<>>)
    /\ hub' = [hub EXCEPT ![c] = Closed]
    /\ Release
    /\ handler' = [handler EXCEPT ![c] = IF client.conn = c THEN [@ EXCEPT !.pc = "ended"] ELSE Free]
    /\ UNCHANGED <<logger, setting, page, client, drops>>

-----------------------------------------------------------------------------
(* startLiveRefreshTrigger and connectLive *)

(* The page's components load their data, then the trigger starts. *)
Mount ==
    /\ client.pc = "mounting"
    /\ page' = [page EXCEPT !.view = Projected]
    /\ client' = [client EXCEPT !.pc = "handoff"]
    /\ UNCHANGED <<logger, server, drops>>

(* CurrentWatermark *)
Watermark == IF Visible # {} /\ MaxOf(Visible) > Margin THEN MaxOf(Visible) - Margin ELSE 0

Handoff ==
    /\ client.pc = "handoff"
    /\ client' = [client EXCEPT !.pc = "dialing", !.cursor = Watermark]
    /\ UNCHANGED <<logger, server, page, drops>>

(* scheduleReload: (re)starts the debounce; 1 is due, 0 is off. *)
NoDebounce == 1                                            \* mutant: reloads at once
Debounce == 2

(* The response arrives: LIVE, and a reload if the stream had been away. *)
CatchUp(p) == IF p.dirty THEN [p EXCEPT !.dirty = FALSE, !.timer = Debounce] ELSE p

Connected ==
    /\ client.pc = "waiting"
    /\ client' = [client EXCEPT !.pc = "reading", !.state = "LIVE", !.ever = TRUE, !.resync = FALSE]
    /\ page' = CatchUp(page)
    /\ UNCHANGED <<logger, server, drops>>

(* The stale guard: not older than what was seen of the same resource. *)
Fresh(i) == \A j \in client.newest : Resource(log[j].kind) = Resource(log[i].kind) => i > j

Frame == handler[client.conn].sent[client.read + 1]
HasFrame == client.pc = "reading" /\ client.read < Len(handler[client.conn].sent)

(* An event: dropped if its id was seen or its resource is known newer. *)
ReadEvent ==
    /\ HasFrame /\ Frame # Resync
    /\ LET i == Frame
           new == i = Summary \/ i \notin client.seen
           accepted == new /\ (i = Summary \/ Fresh(i))
           type == IF i = Summary THEN "platform.summary" ELSE log[i].kind.type
       IN /\ client' = [client EXCEPT !.read = @ + 1,
                          !.seen = @ \cup ({i} \ {Summary}),
                          !.cursor = IF new /\ i > @ THEN i ELSE @,
                          !.newest = IF accepted /\ i # Summary
                                     THEN {j \in @ : Resource(log[j].kind) # Resource(log[i].kind)} \cup {i} ELSE @]
          /\ page' = [page EXCEPT !.timer = IF accepted /\ PrefixesOf(type) \cap setting.prefixes # {} THEN Debounce ELSE @]
    /\ UNCHANGED <<logger, server, drops>>

(* A resync frame: the stream is given up for a fresh snapshot. *)
ReadResync ==
    /\ HasFrame /\ Frame = Resync
    /\ client' = [client EXCEPT !.pc = "resyncing", !.state = "RESYNCING", !.resync = TRUE]
    /\ page' = [page EXCEPT !.dirty = TRUE]
    /\ UNCHANGED <<logger, server, drops>>

(* Back to dialing; a connection whose handler has returned is free again. *)
State(ever, resync) == IF resync THEN "RESYNCING" ELSE IF ever THEN "RECONNECTING" ELSE "CONNECTING"
Leave ==
    /\ handler' = [handler EXCEPT ![client.conn] = IF @.pc = "ended" THEN Free ELSE @]
    /\ page' = [page EXCEPT !.dirty = @ \/ State(client.ever, client.resync) # "CONNECTING"]
    /\ UNCHANGED <<logger, hub, active, setting>>

Redial == [client EXCEPT !.pc = "dialing", !.conn = NoConn, !.read = 0,
                         !.state = State(client.ever, client.resync)]

SnapshotArrives ==
    /\ client.pc = "resyncing"
    /\ client' = [Redial EXCEPT !.cursor = Watermark, !.seen = {}, !.newest = {}]
    /\ Leave
    /\ UNCHANGED drops

(* The server closed the stream and everything it sent is read. *)
EndOfStream ==
    /\ client.pc = "reading" /\ ~HasFrame /\ handler[client.conn].pc = "ended"
    /\ client' = Redial
    /\ Leave
    /\ UNCHANGED drops

(* The connection is lost, or the watchdog or a failed snapshot gives it up. *)
Drop ==
    /\ client.pc \in {"waiting", "reading", "resyncing"} /\ drops < MaxDrops
    /\ drops' = drops + 1
    /\ client' = Redial
    /\ Leave

(* The debounce is over: the page reads its data again. *)
Reload ==
    /\ page.timer = 1
    /\ page' = [page EXCEPT !.timer = 0, !.view = Projected]
    /\ UNCHANGED <<logger, server, client, drops>>

(* startBoundedFallback: while the stream is away the page may poll. *)
Poll ==
    /\ client.state = "RECONNECTING"
    /\ page' = [page EXCEPT !.view = Projected]
    /\ UNCHANGED <<logger, server, client, drops>>

-----------------------------------------------------------------------------
(* Time passes: coalescing windows close, the debounce runs down. *)
Tick ==
    /\ recent # {} \/ page.timer > 1 \/ burst > 0
    /\ Calm => InLog = {} /\ client.pc # "handoff"
    /\ recent' = {} /\ burst' = 0
    /\ page' = [page EXCEPT !.timer = IF @ > 1 THEN @ - 1 ELSE @]
    /\ UNCHANGED <<log, summary, server, client, drops>>

(* The keepalive of an idle stream. *)
Ping(c) == handler[c].pc = "stream" /\ UNCHANGED vars

Init ==
    /\ log = <<>> /\ recent = {} /\ summary = FALSE /\ burst = 0
    /\ hub = [c \in Conns |-> Closed] /\ handler = [c \in Conns |-> Free] /\ active = 0
    /\ setting \in Settings /\ page = [view |-> {}, timer |-> 0, dirty |-> FALSE]
    /\ client = [pc |-> "mounting", state |-> "CONNECTING", conn |-> NoConn, read |-> 0, cursor |-> 0,
                 seen |-> {}, newest |-> {}, ever |-> FALSE, first |-> FALSE, resync |-> FALSE]
    /\ drops = 0

LogStep == \E i \in DOMAIN log : Commit(i) \/ Publish(i)
ServerStep == \E c \in Conns : Replay(c) \/ ReplayFails(c) \/ Stream(c) \/ Return(c)
ClientStep == Mount \/ Handoff \/ (\E c \in Conns : Accept(c)) \/ Connected \/ ReadEvent \/ ReadResync
              \/ SnapshotArrives \/ EndOfStream
Next == Insert \/ LogStep \/ FireSummary \/ ServerStep \/ ClientStep \/ Drop \/ Reload \/ Poll \/ Tick
        \/ (\E c \in Conns : Ping(c))

Spec == Init /\ [][Next]_vars

(* Some step of the server, of the page or of the clock is taken whenever one *)
(* can be: no event need happen and no connection need be lost.               *)
Progress == LogStep \/ FireSummary \/ ServerStep \/ ClientStep \/ Reload \/ Tick
FairSpec == Spec /\ WF_vars(Progress)

-----------------------------------------------------------------------------
TypeOK ==
    /\ setting \in Settings /\ log \in Seq([kind : setting.kinds, stage : Stages]) /\ Len(log) <= MaxEvents
    /\ summary \in BOOLEAN /\ burst \in 0 .. MaxEvents
    /\ hub \in [Conns -> [open : BOOLEAN, buf : Seq(0 .. MaxEvents)]]
    /\ handler \in [Conns -> [pc : {"free", "replay", "stream", "ended"}, after : 0 .. MaxEvents,
                              unreplayed : SUBSET Ids, delivered : SUBSET Ids, sent : Seq(0 .. MaxEvents + 1)]]
    /\ active \in Nat
    /\ page \in [view : SUBSET Ids, timer : 0 .. 2, dirty : BOOLEAN]
    /\ client.pc \in {"mounting", "handoff", "dialing", "waiting", "reading", "resyncing"}
    /\ client.state \in {"CONNECTING", "LIVE", "RECONNECTING", "RESYNCING"}
    /\ client.conn \in Conns \cup {NoConn} /\ client.read \in Nat /\ client.cursor \in 0 .. MaxEvents
    /\ client.seen \subseteq Ids /\ client.newest \subseteq client.seen
    /\ {client.ever, client.first, client.resync} \subseteq BOOLEAN /\ drops \in 0 .. MaxDrops

Sent(c) == ToSet(handler[c].sent)
Due(k) == Matches(setting.scopes, k) /\ CanSee(setting.granted, k.type) /\ ~IsNoise(k)

(* A connection that is still subscribed has been sent, or holds in its       *)
(* channel, every published fact after its cursor that its caller subscribed *)
(* to and may see: subscribing before the replay leaves no gap, ids may       *)
(* arrive in any order, and only samples are dropped (live_hub.go:350-362).  *)
(* A replay query that failed costs it what was over before it subscribed,    *)
(* and nothing else (live_handler.go:195-196).                               *)
NoUnheardFact ==
    \A c \in Conns, i \in DOMAIN log :
        (/\ hub[c].open /\ Resync \notin Sent(c)
         /\ log[i].stage = "published" /\ i > handler[c].after /\ i \notin handler[c].unreplayed
         /\ Due(log[i].kind) /\ PriorityOfEvent(log[i].kind) # "informational")
        => i \in Sent(c) \cup ToSet(hub[c].buf)

(* No connection is sent the same event twice, replayed and live.            *)
SentOnce ==
    \A c \in Conns : \A x, y \in DOMAIN handler[c].sent :
        (x # y /\ handler[c].sent[x] # Summary) => handler[c].sent[x] # handler[c].sent[y]

(* Nothing reaches a caller that it could not have read, neither from the     *)
(* replay nor from the hub (RFC-010 section 25 in live_scopes.go).            *)
OnlyAuthorised ==
    \A c \in Conns : \A i \in Sent(c) \ {Summary, Resync} : Due(log[i].kind)

(* The limiter counts exactly the handlers that run, at most MaxPerKey.       *)
LimiterExact ==
    /\ active = Cardinality({c \in Conns : handler[c].pc \in {"replay", "stream"}})
    /\ active <= MaxPerKey

(* Nothing is under way: every event is dealt with, the client is live and has *)
(* read all there is, no reload is due.                                        *)
Settled ==
    /\ InLog = {} /\ client.state = "LIVE" /\ page.timer = 0
    /\ handler[client.conn].pc = "stream" /\ ~HasFrame
    /\ hub[client.conn] = [open |-> TRUE, buf |-> <<>>]

(* What a failed replay costs a page on the first stream it gets: what was    *)
(* projected between its data and its subscription, and what was coalesced   *)
(* with that later.                                                          *)
Lost(i) ==
    /\ client.first
    /\ \E j \in handler[client.conn].unreplayed :
          j = i \/ (log[i].stage = "coalesced" /\ Key(log[j].kind) = Key(log[i].kind))

(* A page that says LIVE and waits for nothing shows every change that concerns *)
(* it, whether its event was streamed, replayed, coalesced with an earlier one, *)
(* rejected as stale or lost with a connection (liveRefreshTrigger.ts:44-46).   *)
(* After a failed replay it does so too when it was LIVE before, because it    *)
(* reloads when it is back; on its first stream but for what is Lost.         *)
Concerns(k) == Due(k) /\ PrefixesOf(k.type) \cap setting.prefixes # {} /\ PriorityOfEvent(k) # "informational"
ScreenCurrent ==
    Settled => \A i \in Projected : Concerns(log[i].kind) => i \in page.view \/ Lost(i)

(* And it gets there: cut, refused, or told to resync, the client ends up live  *)
(* with nothing left to do.                                                     *)
StreamSettles == <>[]Settled

(* What a connection is sent is exactly what its caller is owed: no fact is    *)
(* left out but by a replay that failed, none comes twice, none is one it may *)
(* not read.                                                                 *)
StreamExact == TypeOK /\ NoUnheardFact /\ SentOnce /\ OnlyAuthorised
=============================================================================

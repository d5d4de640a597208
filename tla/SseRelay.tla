------------------------------ MODULE SseRelay ------------------------------
(***************************************************************************)
(* One request through the proxy's front door: Proxy.ServeHTTP, the token  *)
(* ceiling, the dial, then relayJSON or relaySSE with its reader           *)
(* goroutine, keepalive ticker and client context; and the request's row   *)
(* in the Registry.  The engine and the client are external.               *)
(*                                                                         *)
(* A line of the stream is its kind: a data line that carries a token, a   *)
(* data line that carries an error, any other line, and the blank line     *)
(* that ends an event.                                                     *)
(***************************************************************************)
EXTENDS Naturals, Sequences, FiniteSets, SequencesExt

CONSTANTS
    StreamLines,   \* bound: lines of one stream
    MaxQuiet    \* bound: silent keepalive periods counted

ASSUME RelayBounds == StreamLines \in Nat /\ MaxQuiet \in Nat \ {0, 1}

VARIABLES
    engine,     \* "down", "loading" (answers errors) or "serving"
    client,     \* "reading", "stalled" or "gone"
    ctxDone,    \* r.Context(): the server has noticed that the client is gone
    req,        \* the request: a ceiling is set, the prompt is too long, it asks to stream
    pc,         \* the handler: "recv", "dial", "json", "relay", "write", "ping" or "closed"
    resp,       \* the status the client was answered with
    up,         \* the upstream answer: its status, and how its body stands
    cancelled,  \* the upstream request's context
    emitted,    \* history: the lines of the stream
    reader,     \* the reader goroutine: "none", "scan", "send" or "exit"
    scanned,    \* lines it has scanned; the last one is in its hand at "send"
    taken,      \* lines the relay loop has received; the last one is in its hand at "write"
    atBoundary, wroteSincePing,
    out,        \* history: the lines and pings written to the client
    quiet,      \* ticks since anything was written to the client
    leftFirst,  \* history: the client left while the answer was incomplete
    cut,        \* history: the reader gave up at a line too long for it
    row         \* the registry row

worldVars == <<engine, client, req>>
streamVars == <<emitted, reader, scanned, taken>>
flags == <<atBoundary, wroteSincePing>>
hist == <<out, quiet, cut>>
relayVars == <<engine, client, ctxDone, req, pc, resp, up, cancelled, emitted, reader,
          scanned, taken, atBoundary, wroteSincePing, out, quiet, leftFirst, cut, row>>

LineKinds == {"tok", "err", "other", "blank"}
Terminal == {"done", "error", "aborted"}
NoRow == [in |-> "none", phase |-> "prefill", tokens |-> 0, first |-> FALSE, aborted |-> FALSE]

RelayTypeOK ==
    /\ engine \in {"down", "loading", "serving"}
    /\ client \in {"reading", "stalled", "gone"} /\ ctxDone \in BOOLEAN
    /\ req \in [ceiling : BOOLEAN, long : BOOLEAN, stream : BOOLEAN]
    /\ pc \in {"recv", "dial", "json", "relay", "write", "ping", "closed"}
    /\ resp \in {"none", "200", "400", "503", "relayed error"}
    /\ up \in [status : {"none", "ok", "error"}, body : {"none", "open", "eof", "broken"}]
    /\ cancelled \in BOOLEAN
    /\ emitted \in Seq(LineKinds)
    /\ reader \in {"none", "scan", "send", "exit"}
    /\ scanned \in 0..Len(emitted) /\ taken \in 0..scanned
    /\ atBoundary \in BOOLEAN /\ wroteSincePing \in BOOLEAN
    /\ out \in Seq(LineKinds \cup {"keepalive"})
    /\ quiet \in 0..MaxQuiet /\ leftFirst \in BOOLEAN /\ cut \in BOOLEAN
    /\ row \in [in : {"none", "live", "ring"}, phase : {"prefill", "decoding"} \cup Terminal,
                tokens : Nat, first : BOOLEAN, aborted : BOOLEAN]

RelayInit ==
    /\ engine \in {"down", "loading", "serving"}
    /\ client = "reading" /\ ctxDone = FALSE
    /\ req \in [ceiling : BOOLEAN, long : BOOLEAN, stream : BOOLEAN]
    /\ pc = "recv" /\ resp = "none"
    /\ up = [status |-> "none", body |-> "none"] /\ cancelled = FALSE
    /\ emitted = <<>> /\ reader = "none" /\ scanned = 0 /\ taken = 0
    /\ atBoundary = TRUE /\ wroteSincePing = FALSE
    /\ out = <<>> /\ quiet = 0 /\ leftFirst = FALSE /\ cut = FALSE
    /\ row = NoRow

---------------------------------------------------------------------------
(* The engine *)

\* it starts, loads or stops while the request is under way; an open body breaks
EngineChanges ==
    /\ pc # "closed"
    /\ engine' \in {"down", "loading", "serving"} \ {engine}
    /\ up' = IF up.body = "open" THEN [up EXCEPT !.body = "broken"] ELSE up
    /\ UNCHANGED <<client, ctxDone, req, pc, resp, cancelled, streamVars, flags, hist,
                   leftFirst, row>>

Emit(k) ==
    /\ reader # "none" /\ up.body = "open" /\ ~cancelled /\ Len(emitted) < StreamLines
    /\ emitted' = Append(emitted, k)
    /\ UNCHANGED <<worldVars, ctxDone, pc, resp, up, cancelled, reader, scanned, taken, flags,
                   hist, leftFirst, row>>

EndBody ==
    /\ up.body = "open" /\ ~cancelled
    /\ up' = [up EXCEPT !.body = "eof"]
    /\ UNCHANGED <<worldVars, ctxDone, pc, resp, cancelled, streamVars, flags, hist, leftFirst,
                   row>>

---------------------------------------------------------------------------
(* The client *)

ClientMoves(from, to) ==
    /\ pc # "closed" /\ client \in from
    /\ client' = to
    /\ UNCHANGED <<engine, ctxDone, req, pc, resp, up, cancelled, streamVars, flags,
                   hist, leftFirst, row>>

\* net/http cancels r.Context() when the connection's background read ends or
\* a write on it fails
SeeGone ==
    /\ ctxDone' = TRUE
    /\ leftFirst' = (leftFirst \/ (~ctxDone /\ up.body = "open"))

NoticeGone ==
    /\ client = "gone" /\ ~ctxDone /\ pc # "closed"
    /\ SeeGone
    /\ UNCHANGED <<worldVars, pc, resp, up, cancelled, streamVars, flags, hist, row>>

---------------------------------------------------------------------------
(* ServeHTTP up to the relay *)

Answer(status) == pc' = "closed" /\ resp' = status

\* countPromptTokens: only a count the engine gave can refuse the prompt
TooLong == req.ceiling /\ engine = "serving" /\ ~ctxDone /\ req.long

CheckCeiling ==
    /\ pc = "recv"
    /\ IF TooLong THEN Answer("400") ELSE pc' = "dial" /\ UNCHANGED resp
    /\ UNCHANGED <<worldVars, ctxDone, up, cancelled, streamVars, flags, hist, leftFirst, row>>

\* client.Do: refused is a 503 without a row; any answer opens a live row
Dial ==
    /\ pc = "dial"
    /\ IF engine = "down" \/ ctxDone
       THEN Answer("503") /\ UNCHANGED <<up, reader, row>>
       ELSE /\ row' = [row EXCEPT !.in = "live"]
            /\ up' = [status |-> IF engine = "serving" THEN "ok" ELSE "error", body |-> "open"]
            /\ IF engine = "serving" /\ req.stream
               THEN pc' = "relay" /\ resp' = "200" /\ reader' = "scan"
               ELSE pc' = "json" /\ UNCHANGED <<resp, reader>>
    /\ UNCHANGED <<worldVars, ctxDone, cancelled, emitted, scanned, taken, flags, hist, leftFirst>>

\* relayJSON: once the body has been read, to its end or not, the row is done or
\* an error by the status alone
RelayJSON ==
    /\ pc = "json" /\ (up.body # "open" \/ ctxDone)
    /\ Answer(IF up.status = "ok" THEN "200" ELSE "relayed error")
    /\ row' = [row EXCEPT !.in = "ring", !.first = TRUE,
                          !.phase = IF up.status = "ok" THEN "done" ELSE "error",
                          !.tokens = IF up = [status |-> "ok", body |-> "eof"] THEN 1 ELSE 0]
    /\ cancelled' = TRUE
    /\ UNCHANGED <<worldVars, ctxDone, up, streamVars, flags, hist, leftFirst>>

---------------------------------------------------------------------------
(* The reader goroutine of relaySSE: scan a line, send it, close at the end *)

ReaderScan ==
    /\ reader = "scan" /\ scanned < Len(emitted)
    /\ reader' = "send" /\ scanned' = scanned + 1
    /\ UNCHANGED <<worldVars, ctxDone, pc, resp, up, cancelled, emitted, taken, flags, hist,
                   leftFirst, row>>

\* mutant: what the body still holds is dropped at its end
BodyOver == up.body # "open"

Exhausted == scanned = Len(emitted) /\ up.body # "open"

\* the upstream context is derived from the client's
ReaderEnd ==
    /\ reader = "scan" /\ (cancelled \/ ctxDone \/ Exhausted)
    /\ reader' = "exit"
    /\ UNCHANGED <<worldVars, ctxDone, pc, resp, up, cancelled, emitted, scanned, taken, flags,
                   hist, leftFirst, row>>

\* the next line is above the scanner's 4 MB: an error that nobody hears
ReaderFails ==
    /\ reader = "scan" /\ scanned < Len(emitted)
    /\ reader' = "exit" /\ cut' = TRUE
    /\ UNCHANGED <<worldVars, ctxDone, pc, resp, up, cancelled, emitted, scanned, taken, flags,
                   out, quiet, leftFirst, row>>

---------------------------------------------------------------------------
(* The relay loop *)

Finish(phase, aborted) ==
    row' = [row EXCEPT !.in = "ring", !.aborted = aborted,
                       !.phase = IF @ = "error" /\ ~aborted THEN @ ELSE phase]

\* consumeData: the first token turns the row to decoding, whatever it was
ConsumeData(k) ==
    row' = CASE k = "err" -> [row EXCEPT !.phase = "error"]
             [] k = "tok" -> [row EXCEPT !.tokens = @ + 1, !.first = TRUE,
                                         !.phase = IF row.first THEN @ ELSE "decoding"]
             [] OTHER -> row

TakeLine ==
    /\ pc = "relay" /\ reader = "send"
    /\ reader' = "scan" /\ taken' = taken + 1
    /\ wroteSincePing' = FALSE
    /\ atBoundary' = (atBoundary \/ emitted[scanned] = "blank")
    /\ ConsumeData(emitted[scanned])
    /\ pc' = "write"
    /\ UNCHANGED <<worldVars, ctxDone, resp, up, cancelled, emitted, scanned, hist, leftFirst>>

WriteLine ==
    /\ pc = "write" /\ client # "stalled"
    /\ pc' = "relay"
    /\ IF client = "reading"
       THEN /\ out' = Append(out, emitted[taken]) /\ quiet' = 0
            /\ UNCHANGED <<cancelled, ctxDone, leftFirst, cut>>
       ELSE cancelled' = TRUE /\ SeeGone /\ UNCHANGED hist
    /\ UNCHANGED <<worldVars, resp, up, streamVars, flags, row>>

\* mutant: the start of the stream is no boundary
MayPingLater == atBoundary /\ ~wroteSincePing /\ taken > 0

MayPing == atBoundary /\ ~wroteSincePing

Tick ==
    /\ pc = "relay"
    /\ IF MayPing THEN pc' = "ping" /\ UNCHANGED quiet
       ELSE quiet' = (IF quiet < MaxQuiet THEN quiet + 1 ELSE quiet) /\ UNCHANGED pc
    /\ UNCHANGED <<worldVars, ctxDone, resp, up, cancelled, streamVars, flags, out, cut, leftFirst,
                   row>>

WritePing ==
    /\ pc = "ping" /\ client # "stalled"
    /\ pc' = "relay"
    /\ IF client = "reading"
       THEN /\ out' = Append(out, "keepalive") /\ quiet' = 0
            /\ wroteSincePing' = TRUE /\ atBoundary' = FALSE
            /\ UNCHANGED <<ctxDone, leftFirst, cut>>
       ELSE SeeGone /\ UNCHANGED <<hist, flags>>
    /\ UNCHANGED <<worldVars, resp, up, cancelled, streamVars, row>>

\* mutant: select does not watch the client
ClientGoneNever == FALSE

ClientGone ==
    /\ pc = "relay" /\ ctxDone
    /\ pc' = "closed" /\ cancelled' = TRUE
    /\ Finish("aborted", TRUE)
    /\ UNCHANGED <<worldVars, ctxDone, resp, up, streamVars, flags, hist, leftFirst>>

LinesClosed ==
    /\ pc = "relay" /\ reader = "exit"
    /\ pc' = "closed" /\ cancelled' = TRUE
    /\ Finish("done", FALSE)
    /\ UNCHANGED <<worldVars, ctxDone, resp, up, streamVars, flags, hist, leftFirst>>

---------------------------------------------------------------------------

Proxy == CheckCeiling \/ Dial \/ RelayJSON \/ ReaderScan \/ ReaderEnd \/ TakeLine
            \/ WriteLine \/ WritePing \/ LinesClosed

RelayNext ==
    \/ EngineChanges \/ EndBody \/ \E k \in LineKinds : Emit(k)
    \/ ClientMoves({"reading"}, "stalled") \/ ClientMoves({"stalled"}, "reading")
    \/ ClientMoves({"reading", "stalled"}, "gone")
    \/ NoticeGone \/ Tick \/ ClientGone \/ ReaderFails \/ Proxy

RelaySpec == RelayInit /\ [][RelayNext]_relayVars

\* Goroutines are scheduled, a broken connection is noticed, and select picks
\* among its ready cases at random, so it does not pass over one for ever.
FairRelay == RelaySpec /\ WF_relayVars(Proxy) /\ WF_relayVars(NoticeGone) /\ SF_relayVars(ClientGone)

---------------------------------------------------------------------------
(* Properties *)

BetweenEvents == taken = 0 \/ emitted[taken] = "blank"

\* the lines among the first i things that the client was sent
Lines(q, i) == Cardinality({j \in 1..i : q[j] # "keepalive"})

\* Without its keepalives, what the client has read is a prefix of the stream, and
\* all of it when the stream ended by itself, the client stayed and no line was too
\* long for the scanner.
WholeAtEnd ==
    pc = "closed" /\ reader = "exit" /\ up.body = "eof" /\ ~ctxDone /\ client # "gone"
        => Lines(out, Len(out)) = Len(emitted)

RelayedFaithfully ==
    /\ \A i \in 1..Len(out) : out[i] # "keepalive" =>
          Lines(out, i) <= Len(emitted) /\ out[i] = emitted[Lines(out, i)]
    /\ cut \/ WholeAtEnd

\* After one silent period between two events the client has been sent a keepalive.
SilencePinged ==
    quiet >= 1 /\ BetweenEvents /\ pc = "relay" /\ client # "gone"
        => out # <<>> /\ Last(out) = "keepalive"

\* "No zombie generations": once a client has gone, its upstream request is
\* cancelled and its row leaves the live set.  Of the reader it says nothing.
NoZombie == client = "gone" ~> (pc = "closed" /\ row.in # "live" /\ (cancelled \/ up.body = "none"))

\* proxy.go:232: a keepalive is written only between two events.
PingAtBoundary ==
    [][out' # out /\ Last(out') = "keepalive" => BetweenEvents]_relayVars

\* The reader is done when its handler is: refuted, it can wait for ever at its send
\* (proxy.go:249).
ReaderNotLeft == pc = "closed" => reader # "send"

\* proxy.go:30: a keepalive is injected every interval while the stream is silent.
KeepaliveRepeats == BetweenEvents /\ pc = "relay" => quiet < 2

\* proxy.go:313 keeps the phase of a row that an error event has marked, so a row
\* that ended with an error in its stream says so.
ErrorIsKept ==
    row.in = "ring" /\ ~row.aborted /\ (\E i \in 1..taken : emitted[i] = "err") => row.phase = "error"

\* registry.go:29: the row of a client that left first is marked aborted.
AbortedWhenLeft == row.in = "ring" /\ leftFirst => row.aborted
=============================================================================

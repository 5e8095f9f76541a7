----------------------------- MODULE ExecStream -----------------------------
(***************************************************************************)
(* The streams of an exec.  A remote client (HttpsApi::exec) is one thread  *)
(* that takes turns at reading and sending frames, and one that reads the   *)
(* user's input; so is the gateway, with a thread for each output of the    *)
(* process and one that awaits the daemon's answer.  Neither reads while it *)
(* sends, so each can hold up the other.  A local client (exec_local) hands *)
(* its sockets to the daemon and has a thread for each stream.              *)
(***************************************************************************)
EXTENDS Naturals, Sequences

CONSTANTS
    Modes,    \* how clients reach the daemon: "remote", "local"
    MaxIn,    \* bound: pieces of input
    MaxOut,   \* bound: pieces of output
    WireCap,  \* frames that a connection takes before its sender must wait
    PipeCap   \* the same of a socket pair

VARIABLES
    mode,
    input,    \* the user's input: pieces to come, and whether it is open
    feeder,   \* the thread that reads it
    rx,       \* remote: what it has read, for the thread that sends
    client,   \* the client: `status' or `error' once it has returned
    up, down, \* frames on their way to the gateway and to the client
    gw,       \* the gateway's loop; outputs: those of open_outputs
    stdin,    \* the socket of the process's input
    pipe,     \* the sockets of its outputs: pieces in them, and whether they ended
    out_rx,   \* gateway: what its threads have read from them
    proc,     \* the process: `running', or `exited'
    held,     \* a descendant has the sockets of a process that exited
    answer,   \* the daemon's answer: `none', `status' or `error'
    grace,    \* the gateway has waited 2 s since then
    owed,     \* ghost: pieces that the process wrote and the client has not shown
    written

vars == <<mode, input, feeder, rx, client, up, down, gw, stdin, pipe, out_rx, proc, held,
          answer, grace, owed, written>>

Channels == {"stdout", "stderr"}
Ended == client.at \in {"status", "error"}
Gone == proc = "exited" /\ ~held

Show(ch) == owed' = [owed EXCEPT ![ch] = IF @ > 0 THEN @ - 1 ELSE 0]
Return(how) == client' = [client EXCEPT !.at = how]

-----------------------------------------------------------------------------
(* The user, and the thread that reads the input: the reader of            *)
(* HttpsApi::exec, or a pump of exec_local.                                 *)

Type ==
    /\ input.open /\ input.left > 0 /\ feeder = "reading" /\ ~Ended
    /\ input' = [input EXCEPT !.left = @ - 1]
    /\ IF mode = "remote" THEN rx' = Append(rx, "stdin") /\ UNCHANGED feeder
                          ELSE feeder' = "writing" /\ UNCHANGED rx
    /\ UNCHANGED <<mode, client, up, down, gw, stdin, pipe, out_rx, proc, held, answer,
                   grace, owed, written>>

CloseInput ==
    /\ input.open /\ feeder = "reading" /\ ~Ended
    /\ input' = [input EXCEPT !.open = FALSE] /\ feeder' = "done"
    /\ IF mode = "remote" THEN rx' = Append(rx, "eof") /\ UNCHANGED stdin
                          ELSE stdin' = [stdin EXCEPT !.eof = TRUE] /\ UNCHANGED rx
    /\ UNCHANGED <<mode, client, up, down, gw, pipe, out_rx, proc, held, answer, grace,
                   owed, written>>

\* pump of the input: it ends when nobody is left to read what it writes.
PumpInput ==
    /\ mode = "local" /\ feeder = "writing"
    /\ \/ Gone /\ feeder' = "done" /\ UNCHANGED stdin
       \/ /\ ~Gone /\ stdin.n < PipeCap
          /\ feeder' = "reading" /\ stdin' = [stdin EXCEPT !.n = @ + 1]
    /\ UNCHANGED <<mode, input, rx, client, up, down, gw, pipe, out_rx, proc, held, answer,
                   grace, owed, written>>

-----------------------------------------------------------------------------
(* HttpsApi::exec: its loop.                                               *)

\* ws.read: a frame, or nothing for 50 ms.
ClientRead ==
    /\ mode = "remote" /\ client.at = "read"
    /\ IF down # <<>>
         THEN /\ down' = Tail(down)
              /\ IF Head(down) \in Channels
                   THEN Show(Head(down)) /\ Return("send")
                   ELSE Return(Head(down)) /\ UNCHANGED owed
         ELSE /\ Return(IF gw.at = "ended" THEN "error" ELSE "send")
              /\ UNCHANGED <<down, owed>>
    /\ UNCHANGED <<mode, input, feeder, rx, up, gw, stdin, pipe, out_rx, proc, held, answer,
                   grace, written>>

\* All there is to send, before the next read.  What is sent to a gateway that has
\* gone is lost, or an error.
ClientSend ==
    /\ mode = "remote" /\ client.at = "send"
    /\ IF rx = <<>> \/ ~client.stdin_open
         THEN Return("read") /\ UNCHANGED <<rx, up>>
         ELSE \/ /\ gw.at # "ended" /\ Len(up) < WireCap
                 /\ up' = Append(up, Head(rx)) /\ rx' = Tail(rx)
                 /\ client' = [client EXCEPT !.stdin_open = Head(rx) # "eof"]
              \/ /\ gw.at = "ended" /\ rx' = Tail(rx) /\ UNCHANGED up
                 /\ \/ Return("error")
                    \/ client' = [client EXCEPT !.stdin_open = Head(rx) # "eof"]
    /\ UNCHANGED <<mode, input, feeder, down, gw, stdin, pipe, out_rx, proc, held, answer,
                   grace, owed, written>>

\* The user interrupts the client.
Interrupt ==
    /\ ~Ended /\ Return("error")
    /\ UNCHANGED <<mode, input, feeder, rx, up, down, gw, stdin, pipe, out_rx, proc, held,
                   answer, grace, owed, written>>

-----------------------------------------------------------------------------
(* Gateway::exec: its loop and its threads.                                *)

\* The gateway returns: the process's input ends with it.
GwEnd == gw' = [gw EXCEPT !.at = "ended"] /\ stdin' = [stdin EXCEPT !.eof = TRUE]
GwGo(at) == gw' = [gw EXCEPT !.at = at]

\* ws.read: a frame, nothing for POLL, or the client has gone.  Input for a process
\* that does not read it holds up the loop.
GwRead ==
    /\ mode = "remote" /\ gw.at = "read"
    /\ \/ up = <<>> /\ ~Ended /\ GwGo("drain") /\ UNCHANGED <<up, stdin>>
       \/ up = <<>> /\ Ended /\ GwEnd /\ UNCHANGED up
       \/ /\ up # <<>> /\ (Head(up) = "stdin" /\ ~Gone => stdin.n < PipeCap)
          /\ up' = Tail(up) /\ GwGo("drain")
          /\ stdin' = CASE Head(up) = "eof" -> [stdin EXCEPT !.eof = TRUE]
                        [] Gone -> stdin
                        [] OTHER -> [stdin EXCEPT !.n = @ + 1]
    /\ UNCHANGED <<mode, input, feeder, rx, client, down, pipe, out_rx, proc, held, answer,
                   grace, owed, written>>

\* All that the threads have read so far is sent; an end marker is counted.
GwDrain ==
    /\ mode = "remote" /\ gw.at = "drain"
    /\ IF out_rx = <<>> THEN GwGo("check") /\ UNCHANGED <<down, out_rx, stdin>>
       ELSE LET m == Head(out_rx) IN
            \/ /\ m.end /\ out_rx' = Tail(out_rx)
               /\ gw' = [gw EXCEPT !.outputs = @ \ {m.ch}] /\ UNCHANGED <<down, stdin>>
            \/ /\ ~m.end /\ ~Ended /\ Len(down) < WireCap
               /\ down' = Append(down, m.ch) /\ out_rx' = Tail(out_rx) /\ UNCHANGED <<gw, stdin>>
            \/ ~m.end /\ Ended /\ GwEnd /\ UNCHANGED <<down, out_rx>>
    /\ UNCHANGED <<mode, input, feeder, rx, client, up, pipe, proc, held, answer, grace,
                   owed, written>>

\* Mutant: no end to the wait for the outputs.
MutOver == answer # "none" /\ gw.outputs = {}

\* The answer is there, and both outputs have ended or had 2 s to.
Over == answer # "none" /\ (gw.outputs = {} \/ grace)

\* The exit frame, or another turn.
GwCheck ==
    /\ mode = "remote" /\ gw.at = "check"
    /\ \/ ~Over /\ GwGo("read") /\ UNCHANGED <<down, stdin>>
       \/ Over /\ ~Ended /\ Len(down) < WireCap /\ down' = Append(down, answer) /\ GwEnd
       \/ Over /\ Ended /\ GwEnd /\ UNCHANGED down
    /\ UNCHANGED <<mode, input, feeder, rx, client, up, pipe, out_rx, proc, held, answer,
                   grace, owed, written>>

\* still_trusted says no.
Untrusted ==
    /\ mode = "remote" /\ gw.at = "check" /\ ~Over /\ GwEnd
    /\ down' = IF Len(down) < WireCap THEN Append(down, "error") ELSE down
    /\ UNCHANGED <<mode, input, feeder, rx, client, up, pipe, out_rx, proc, held, answer,
                   grace, owed, written>>

\* A send that takes REQUEST_TIMEOUT fails.
GwTimeout ==
    /\ mode = "remote" /\ Len(down) = WireCap
    /\ \/ gw.at = "drain" /\ out_rx # <<>> /\ ~Head(out_rx).end
       \/ gw.at = "check" /\ Over
    /\ GwEnd
    /\ UNCHANGED <<mode, input, feeder, rx, client, up, down, pipe, out_rx, proc, held,
                   answer, grace, owed, written>>

\* 2 s after the answer the outputs are open still: a descendant has them.  Its
\* threads have read what was there by then.
Grace ==
    /\ mode = "remote" /\ answer # "none" /\ held /\ ~grace
    /\ \A ch \in Channels : pipe[ch].n = 0
    /\ out_rx = <<>> \/ gw.at = "drain"
    /\ grace' = TRUE
    /\ UNCHANGED <<mode, input, feeder, rx, client, up, down, gw, stdin, pipe, out_rx, proc,
                   held, answer, owed, written>>

\* The thread of an output, in the gateway or in a local client.
Pump(ch) ==
    /\ \/ /\ pipe[ch].n > 0 /\ pipe' = [pipe EXCEPT ![ch].n = @ - 1]
          /\ IF mode = "local" THEN Show(ch) /\ UNCHANGED out_rx
             ELSE out_rx' = Append(out_rx, [ch |-> ch, end |-> FALSE]) /\ UNCHANGED owed
       \/ /\ pipe[ch].n = 0 /\ pipe[ch].ended /\ ~pipe[ch].done
          /\ pipe' = [pipe EXCEPT ![ch].done = TRUE]
          /\ out_rx' = IF mode = "local" THEN out_rx ELSE Append(out_rx, [ch |-> ch, end |-> TRUE])
          /\ UNCHANGED owed
    /\ UNCHANGED <<mode, input, feeder, rx, client, up, down, gw, stdin, proc, held, answer,
                   grace, written>>

-----------------------------------------------------------------------------
(* exec_local: the scope ends once all of its threads have.                *)

LocalReturn ==
    /\ mode = "local" /\ ~Ended /\ answer # "none"
    /\ feeder = "done" /\ \A ch \in Channels : pipe[ch].done
    /\ Return(answer)
    /\ UNCHANGED <<mode, input, feeder, rx, up, down, gw, stdin, pipe, out_rx, proc, held,
                   answer, grace, owed, written>>

-----------------------------------------------------------------------------
(* The process and the daemon.                                             *)

ProcRead ==
    /\ proc = "running" /\ stdin.n > 0
    /\ stdin' = [stdin EXCEPT !.n = @ - 1]
    /\ UNCHANGED <<mode, input, feeder, rx, client, up, down, gw, pipe, out_rx, proc, held,
                   answer, grace, owed, written>>

\* The process writes, or a descendant that it left behind.
Write(ch) ==
    /\ proc = "running" \/ held
    /\ written < MaxOut /\ pipe[ch].n < PipeCap
    /\ written' = written + 1 /\ pipe' = [pipe EXCEPT ![ch].n = @ + 1]
    /\ owed' = IF proc = "running" THEN [owed EXCEPT ![ch] = @ + 1] ELSE owed
    /\ UNCHANGED <<mode, input, feeder, rx, client, up, down, gw, stdin, out_rx, proc, held,
                   answer, grace>>

Closed == [ch \in Channels |-> [pipe[ch] EXCEPT !.ended = TRUE]]

Exit(leaves) ==
    /\ proc = "running" /\ proc' = "exited" /\ held' = leaves
    /\ pipe' = IF leaves THEN pipe ELSE Closed
    /\ UNCHANGED <<mode, input, feeder, rx, client, up, down, gw, stdin, out_rx, answer,
                   grace, owed, written>>

\* A command that ends with its input.
ExitAtEof == stdin.n = 0 /\ stdin.eof /\ Exit(FALSE)

LastExits ==
    /\ held /\ held' = FALSE /\ pipe' = Closed
    /\ UNCHANGED <<mode, input, feeder, rx, client, up, down, gw, stdin, out_rx, proc,
                   answer, grace, owed, written>>

\* The daemon answers once the process has exited; or it dies, or cannot start it.
Answers(how) ==
    /\ answer = "none" /\ (how = "status" => proc = "exited")
    /\ answer' = how
    /\ UNCHANGED <<mode, input, feeder, rx, client, up, down, gw, stdin, pipe, out_rx, proc,
                   held, grace, owed, written>>

-----------------------------------------------------------------------------

Init ==
    /\ mode \in Modes
    /\ input = [left |-> MaxIn, open |-> TRUE] /\ feeder = "reading" /\ rx = <<>>
    /\ client = [at |-> "read", stdin_open |-> TRUE] /\ up = <<>> /\ down = <<>>
    /\ gw = [at |-> "read", outputs |-> Channels]
    /\ stdin = [n |-> 0, eof |-> FALSE]
    /\ pipe = [ch \in Channels |-> [n |-> 0, ended |-> FALSE, done |-> FALSE]]
    /\ out_rx = <<>> /\ proc = "running" /\ held = FALSE
    /\ answer = "none" /\ grace = FALSE
    /\ owed = [ch \in Channels |-> 0] /\ written = 0

ClientTurn == ClientRead \/ ClientSend
GatewayTurn == GwRead \/ GwDrain \/ GwCheck \/ GwTimeout

Next ==
    \/ Type \/ CloseInput \/ PumpInput \/ ClientTurn \/ Interrupt
    \/ GatewayTurn \/ Untrusted \/ Grace \/ LocalReturn
    \/ ProcRead \/ LastExits
    \/ \E ch \in Channels : Pump(ch) \/ Write(ch)
    \/ \E leaves \in BOOLEAN : Exit(leaves)
    \/ \E how \in {"status", "error"} : Answers(how)

\* Threads go on, timeouts pass and the daemon answers; the process reads its input
\* and ends with it.
Fairness ==
    /\ WF_vars(ClientTurn) /\ WF_vars(GatewayTurn) /\ WF_vars(Grace)
    /\ WF_vars(PumpInput) /\ WF_vars(LocalReturn)
    /\ \A ch \in Channels : WF_vars(Pump(ch))
    /\ WF_vars(ProcRead) /\ WF_vars(ExitAtEof) /\ WF_vars(Answers("status"))

Spec == Init /\ [][Next]_vars /\ Fairness

-----------------------------------------------------------------------------
(* Correctness.                                                            *)

\* What a descendant that was left behind can hold up: every local exec, and a remote
\* one by not reading its input.
HeldUp == held /\ (mode = "local" \/ stdin.n = PipeCap)

\* An exec that ends with a status has shown all that the command wrote.
ShownAll == client.at = "status" => \A ch \in Channels : owed[ch] = 0

\* An exec whose command has exited, or whose input has ended, ends, however the two
\* sides hold each other up.  (A local exec waits for its input too: it does not
\* return before there is more of it, or its end.)
Ends ==
    (proc = "exited" \/ ~input.open) ~>
        (Ended \/ HeldUp \/ (mode = "local" /\ feeder = "reading"))
=============================================================================

----------------------------- MODULE SocketConns -----------------------------
(***************************************************************************)
(* The socket.io connections of the service: the map conns that runServer's*)
(* OnConnect, OnError and OnDisconnect handlers share (cmd/start.go), and  *)
(* the goroutines of the vendored go-socket.io that call them: per session *)
(* one that serves it and closes it, one that reads packets, one that hands*)
(* errors to OnError.                                                      *)
(*                                                                         *)
(* A session of the engine is used once in the life of a process; its      *)
(* client sends CONNECT and DISCONNECT for the namespace "/" as often, and *)
(* in any order, as it likes.                                              *)
(***************************************************************************)
CONSTANT Sessions

VARIABLES
  process,  \* "down", "up", or "exiting": runServer has taken an error into err
  exit,     \* how the process that is down has ended
  serve,    \* conn.Serve of a session: "closing" in conn.Close
  reader,   \* serveRead: "idle" between two packets
  failed,   \* sessions with an error in errorChan, or on its way there
  joined,   \* sessions whose namespaceConns has "/"
  conns,    \* keys of runServer's conns
  written,  \* history: sessions OnConnect has queued packets for
  late      \* history: sessions whose OnConnect ran after conn.Close was over

sessionVars == <<serve, reader, failed, joined, conns, written, late>>
socketVars  == <<process, exit, sessionVars>>

SocketTypeOK ==
  /\ process \in {"down", "up", "exiting"}
  /\ exit \in {"none", "fatal", "signal", "panic"}
  /\ serve \in [Sessions -> {"none", "open", "done", "closing", "over"}]
  /\ reader \in [Sessions -> {"idle", "connecting", "disconnecting", "over"}]
  /\ failed \subseteq Sessions /\ joined \subseteq Sessions
  /\ conns \subseteq Sessions
  /\ written \subseteq Sessions /\ late \subseteq written

\* What the process knows of its sessions when it begins.
NoSessions(srv, rd, fl, jn, cs, wr, lt) ==
  /\ srv = [s \in Sessions |-> "none"] /\ rd = [s \in Sessions |-> "idle"]
  /\ fl = {} /\ jn = {} /\ cs = {} /\ wr = {} /\ lt = {}

SocketInit ==
  /\ process = "down" /\ exit = "none"
  /\ NoSessions(serve, reader, failed, joined, conns, written, late)

\* The process ends, with all its connections.
EndProcess(how) ==
  /\ process # "down" /\ process' = "down" /\ exit' = how
  /\ NoSessions(serve', reader', failed', joined', conns', written', late')

-----------------------------------------------------------------------------
(* The engine and the client *)

ServeTo(s, label)  == serve' = [serve EXCEPT ![s] = label]
ReaderTo(s, label) == reader' = [reader EXCEPT ![s] = label]

\* Server.Serve accepts a session.
Accept(s) ==
  /\ process # "down" /\ serve[s] = "none"
  /\ ServeTo(s, "open")
  /\ UNCHANGED <<process, exit, reader, failed, joined, conns, written, late>>

\* The peer closes, a read fails, or the pong does not come in time.
EngineCloses(s) ==
  /\ serve[s] = "open"
  /\ ServeTo(s, "done")
  /\ UNCHANGED <<process, exit, reader, failed, joined, conns, written, late>>

\* DecodeHeader fails, for a session that is gone or a packet that is wrong.
ReadFails(s) ==
  /\ serve[s] # "none" /\ reader[s] = "idle"
  /\ ReaderTo(s, "over")
  /\ failed' = failed \cup {s}
  /\ UNCHANGED <<process, exit, serve, joined, conns, written, late>>

\* The encoder fails on a packet that OnConnect, or the library after it, has
\* queued: perhaps long after, when the session has left "/" or is closed.
WriteFails(s) ==
  /\ s \in written
  /\ failed' = failed \cup {s}
  /\ UNCHANGED <<process, exit, serve, reader, joined, conns, written, late>>

-----------------------------------------------------------------------------
(* runServer's handlers *)

\* Mutant of Cleanup: the entry is cancelled but not deleted.
CleanupKeepsEntry(s) == conns' = conns

\* cleanup: under connMutex the context is cancelled and forgotten.
Cleanup(s) == conns' = conns \ {s}

\* CONNECT. A session that is in "/" already does not join it again, but its
\* OnConnect is called as before.
ConnectPacket(s) ==
  /\ serve[s] # "none" /\ reader[s] = "idle"
  /\ ReaderTo(s, "connecting")
  /\ UNCHANGED <<process, exit, serve, failed, joined, conns, written, late>>

JoinNamespace(s) ==
  /\ reader[s] = "connecting" /\ s \notin joined
  /\ joined' = joined \cup {s}
  /\ UNCHANGED <<process, exit, serve, reader, failed, conns, written, late>>

\* The entry of conns is new, or put in the place of the one of an earlier
\* CONNECT, whose context nobody can cancel any more.
OnConnect(s) ==
  /\ reader[s] = "connecting" /\ s \in joined
  /\ conns' = conns \cup {s}
  /\ written' = written \cup {s}
  /\ late' = IF serve[s] = "over" THEN late \cup {s} ELSE late
  /\ ReaderTo(s, "idle")
  /\ UNCHANGED <<process, exit, serve, failed, joined>>

\* serveError: an error is passed on to OnError if "/" is connected, and else
\* dropped. It may return before it sees an error, once Close is over.
OnError(s) ==
  /\ s \in failed
  /\ failed' = failed \ {s}
  /\ IF s \in joined THEN Cleanup(s) ELSE UNCHANGED conns
  /\ UNCHANGED <<process, exit, serve, reader, joined, written, late>>

\* OnDisconnect evaluates err.Error() before it calls cleanup. err is nil while
\* the process is up; once runServer writes it, unsynchronised, either value may
\* be seen.
ErrIsSet == process = "exiting"

\* DISCONNECT: the session leaves "/" before its handler runs.
DisconnectPacket(s) ==
  /\ serve[s] # "none" /\ reader[s] = "idle" /\ s \in joined
  /\ joined' = joined \ {s}
  /\ ReaderTo(s, "disconnecting")
  /\ UNCHANGED <<process, exit, serve, failed, conns, written, late>>

OnDisconnect(s) ==
  /\ reader[s] = "disconnecting" /\ ErrIsSet
  /\ Cleanup(s)
  /\ ReaderTo(s, "idle")
  /\ UNCHANGED <<process, exit, serve, failed, joined, written, late>>

\* Close, once: the handler is called if "/" is connected by now.
Close(s) ==
  /\ serve[s] = "done"
  /\ ServeTo(s, IF s \in joined THEN "closing" ELSE "over")
  /\ UNCHANGED <<process, exit, reader, failed, joined, conns, written, late>>

OnDisconnectAtClose(s) ==
  /\ serve[s] = "closing" /\ ErrIsSet
  /\ Cleanup(s)
  /\ ServeTo(s, "over")
  /\ UNCHANGED <<process, exit, reader, failed, joined, written, late>>

\* The nil dereference, in a goroutine of the library: nothing recovers.
DisconnectPanics(s) ==
  /\ reader[s] = "disconnecting" \/ serve[s] = "closing"
  /\ EndProcess("panic")

SocketStep ==
  \E s \in Sessions :
    \/ EngineCloses(s) \/ ReadFails(s) \/ WriteFails(s)
    \/ ConnectPacket(s) \/ JoinNamespace(s) \/ OnConnect(s) \/ OnError(s)
    \/ DisconnectPacket(s) \/ OnDisconnect(s)
    \/ Close(s) \/ OnDisconnectAtClose(s)

-----------------------------------------------------------------------------
(* Properties *)

\* When conn.Close is over runServer has forgotten the connection, and so has
\* cancelled its context, unless its DISCONNECT is still being handled, or a
\* CONNECT of it came so late that Close was over before OnConnect: such an entry
\* stays.
ClosedAreForgotten ==
  \A s \in conns :
    serve[s] = "over" => reader[s] = "disconnecting" \/ s \in late

\* "Cancel all goroutines associated with this connection" (start.go:178): what
\* a connection takes with it when it ends is its own entry of conns, and never
\* the process.
LeavingIsPrivate == exit # "panic"
=============================================================================

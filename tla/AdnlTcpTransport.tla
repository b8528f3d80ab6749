--------------------------- MODULE AdnlTcpTransport ---------------------------
(***************************************************************************)
(* tonutils/transports/adnl/tcp.py: the encrypted connection to one        *)
(* lite-server.  The steps of connect(), close() and frame_reader_loop()   *)
(* between two awaits; LiteProvider, which extends this module, says who   *)
(* takes them.  Every TCP connection opened is a session with a number of  *)
(* its own, 0 stands for None.  The ciphers, the stream reader and writer  *)
(* are known by the session they were made for.                            *)
(*                                                                         *)
(* drain() is taken not to suspend: the library's requests are far below   *)
(* the high-water mark of a stream.  It may still raise ConnectionError.   *)
(***************************************************************************)
EXTENDS Naturals

CONSTANTS MaxSessions,  (* bound: TCP connections opened in a run            *)
          PromptClose   (* writer.wait_closed() ends before a new connection *)
                        (* is made: so whenever the write buffer is empty    *)

ASSUME SessionsAssumption == MaxSessions \in Nat \ {0} /\ PromptClose \in BOOLEAN

VARIABLES connected,  (* self._connected                                      *)
          closing,    (* who runs close(): self._closing is closing # "none"  *)
          closePhase, (* "join": awaits the reader task; "wait": wait_closed()*)
          writer,     (* self.writer (and self.reader)                        *)
          dying,      (* the writer close() holds while it waits              *)
          cipher,     (* self.enc_cipher and self.dec_cipher                  *)
          readerTask, (* the session frame_reader_loop() runs for             *)
          open,       (* sessions whose socket is open                        *)
          last        (* sessions opened so far                               *)

transport == <<connected, closing, closePhase, writer, dying, cipher, readerTask, open, last>>

Session == 0..MaxSessions

TransportTypeOK(closers) ==
  /\ connected \in BOOLEAN
  /\ closing \in closers \cup {"none"}
  /\ closePhase \in {"none", "join", "wait"}
  /\ {writer, dying, cipher, readerTask, last} \subseteq Session
  /\ open \subseteq 1..last

TransportInit ==
  /\ connected = FALSE
  /\ closing = "none" /\ closePhase = "none"
  /\ writer = 0 /\ dying = 0 /\ cipher = 0 /\ readerTask = 0
  /\ open = {} /\ last = 0
------------------------------------------------------------------------------
StayConnected == UNCHANGED connected  \* mutant of Disconnect
Disconnect == connected' = FALSE

(* send_adnl_packet() needs a writer and ciphers; recv_adnl_packet()       *)
(* raises, which ends the reader worker.                                   *)
CanSend == connected /\ writer # 0 /\ cipher # 0
StillReading(ws) == IF connected THEN ws ELSE ws \ {"reader"}

(* close() up to its first await: a second caller returns at once. *)
BeginClose(who) ==
  IF closing # "none"
  THEN UNCHANGED transport
  ELSE /\ closing' = who
       /\ Disconnect
       /\ closePhase' = IF readerTask # 0 THEN "join" ELSE "wait"
       /\ dying' = IF readerTask # 0 THEN 0 ELSE writer
       /\ writer' = IF readerTask # 0 THEN writer ELSE 0
       /\ UNCHANGED <<cipher, readerTask, open, last>>

(* The reader task that close() cancelled has ended: the writer is next. *)
CloseWriter ==
  /\ closePhase = "join" /\ readerTask = 0
  /\ closePhase' = "wait"
  /\ dying' = writer /\ writer' = 0
  /\ UNCHANGED <<connected, closing, cipher, readerTask, open, last>>

(* wait_closed() has returned: close() clears the ciphers and ends. *)
EndClose ==
  /\ closePhase = "wait"
  /\ open' = open \ {dying}
  /\ cipher' = 0
  /\ closing' = "none" /\ closePhase' = "none" /\ dying' = 0
  /\ UNCHANGED <<connected, writer, readerTask, last>>

(* close() is cancelled in wait_closed(): only its finally clause runs. *)
CancelClose ==
  /\ closePhase = "wait"
  /\ open' = open \ {dying}
  /\ closing' = "none" /\ closePhase' = "none" /\ dying' = 0
  /\ UNCHANGED <<connected, writer, cipher, readerTask, last>>

(* frame_reader_loop() ends - cancelled, end of file, a frame it cannot    *)
(* decrypt - and starts a task that closes, unless close() already runs.   *)
(* The new task's first step is taken at once: nothing can come between.   *)
ReaderEnds ==
  /\ readerTask # 0
  /\ Disconnect
  /\ readerTask' = 0
  /\ IF closing # "none"
     THEN UNCHANGED <<closing, closePhase, writer, dying>>
     ELSE /\ closing' = "task" /\ closePhase' = "wait"
          /\ dying' = writer /\ writer' = 0
  /\ UNCHANGED <<cipher, open, last>>

NewSession == last' = last + 1

(* connect(): the TCP connection stands, the handshake with fresh ciphers  *)
(* is on its way.                                                          *)
Opened ==
  /\ last < MaxSessions
  /\ PromptClose => closing = "none"
  /\ NewSession
  /\ writer' = last + 1 /\ cipher' = last + 1
  /\ open' = open \cup {last + 1}
  /\ UNCHANGED <<connected, closing, closePhase, dying, readerTask>>

(* connect(): the server's answer was read - with the ciphers of now. *)
HandshakeRead ==
  /\ cipher # 0
  /\ connected' = TRUE
  /\ readerTask' = writer
  /\ UNCHANGED <<closing, closePhase, writer, dying, cipher, open, last>>
==============================================================================

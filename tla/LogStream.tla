------------------------------ MODULE LogStream ------------------------------
(***************************************************************************)
(* How the log of a process gets to who asks for it.                       *)
(*                                                                         *)
(*   producer  the goroutine of LonghornWriter.StreamLog scans the log     *)
(*             file and sends line after line on logChan                   *)
(*   consumer  Manager.ProcessLog takes the lines from logChan and sends   *)
(*             them on its gRPC stream                                     *)
(*   reader    InstanceLog, or whoever else called ProcessLog, receives    *)
(*             them                                                        *)
(*                                                                         *)
(* logChan and doneChan are not buffered.  The consumer tells the producer *)
(* to stop by a send on doneChan, which waits for the producer to look.    *)
(* Two calls share nothing: log is the latest one, and what an earlier one *)
(* has left behind is no longer looked at when the next begins.            *)
(***************************************************************************)
EXTENDS Naturals, Sequences

CONSTANTS
    MaxLines,   \* bound on the lines of a log file
    Window      \* lines that gRPC keeps between Send and Recv

ASSUME LogAssumption == MaxLines \in Nat /\ Window \in Nat \ {0}

VARIABLE log

(* A line the scanner's buffer of 64 KiB holds, and one it does not.       *)
Lines == {"fits", "toolong"}
Files == UNION {[1 .. n -> Lines] : n \in 0 .. MaxLines}

NoLog == [file     |-> <<>>,
          read     |-> 0,           \* lines the scanner has returned
          open     |-> FALSE,       \* the producer's file is open
          producer |-> "none",
          consumer |-> "none",
          line     |-> 0,           \* the line the consumer sends
          stream   |-> <<>>,        \* sent and not yet received
          conn     |-> "none",      \* between consumer and reader
          reader   |-> "none",
          heard    |-> <<>>]        \* history: what the reader has received

ProducerPC == {"none", "scan", "select", "send", "done"}
ConsumerPC == {"none", "recv", "send", "failed", "tell", "ok", "error"}
ReaderPC == {"none", "recv", "send", "eof", "error", "gone"}

LogTypeOK ==
    /\ log.file \in Files
    /\ log.read \in 0 .. Len(log.file)
    /\ log.open \in BOOLEAN
    /\ log.producer \in ProducerPC /\ log.consumer \in ConsumerPC /\ log.reader \in ReaderPC
    /\ log.conn \in {"none", "up", "down"}
    /\ Len(log.stream) <= Window

LogInit == log = NoLog

(* ProcessLog: it cannot find the process or open the file, or streams.    *)
LogBegin ==
    /\ log.reader \notin {"recv", "send"}
    /\ \/ log' = [NoLog EXCEPT !.consumer = "error", !.conn = "up", !.reader = "recv"]
       \/ \E f \in Files :
            log' = [NoLog EXCEPT !.file = f, !.open = TRUE, !.producer = "scan",
                                 !.consumer = "recv", !.conn = "up", !.reader = "recv"]

-----------------------------------------------------------------------------
(* The producer.                                                           *)

ScannerHasNext == log.read < Len(log.file) /\ log.file[log.read + 1] = "fits"

ProducerScans ==
    /\ log.producer = "scan" /\ ScannerHasNext
    /\ log' = [log EXCEPT !.producer = "select", !.read = @ + 1]

(* Mutant of ProducerEnds: logChan is not closed.                          *)
ProducerEnds_ChanOpen ==
    /\ log.producer = "scan" /\ ~ScannerHasNext
    /\ log' = [log EXCEPT !.producer = "none", !.open = FALSE]

(* Scan returns false at the end of the file, and at a line that is too    *)
(* long: the two are not told apart.  logChan and the file are closed.     *)
ProducerEnds ==
    /\ log.producer = "scan" /\ ~ScannerHasNext
    /\ log' = [log EXCEPT !.producer = "done", !.open = FALSE]

(* case <-done: logChan is closed, the file is not.                        *)
ProducerIsTold ==
    /\ log.producer = "select" /\ log.consumer = "tell"
    /\ log' = [log EXCEPT !.producer = "done", !.consumer = "error"]

(* default: logChan <- scanner.Text()                                      *)
ProducerSends ==
    /\ log.producer = "select" /\ log.consumer # "tell"
    /\ log' = [log EXCEPT !.producer = "send"]

-----------------------------------------------------------------------------
(* The consumer.                                                           *)

HandOver ==
    /\ log.producer = "send" /\ log.consumer = "recv"
    /\ log' = [log EXCEPT !.producer = "scan", !.consumer = "send", !.line = log.read]

ConsumerSends ==
    /\ log.consumer = "send"
    /\ log.conn = "up" /\ Len(log.stream) < Window
    /\ log' = [log EXCEPT !.consumer = "recv", !.stream = Append(@, log.line)]

ConsumerSendFails ==
    /\ log.consumer = "send" /\ log.conn = "down"
    /\ log' = [log EXCEPT !.consumer = "failed"]

(* doneChan <- struct{}{} begins to wait.                                  *)
ConsumerTells ==
    /\ log.consumer = "failed"
    /\ log' = [log EXCEPT !.consumer = "tell"]

(* Mutant of ConsumerEnds: it does not wait for the next line.             *)
ConsumerEnds_NothingYet ==
    /\ log.consumer = "recv" /\ log.producer # "send"
    /\ log' = [log EXCEPT !.consumer = "ok"]

(* The range over logChan ends: it is closed.                              *)
ConsumerEnds ==
    /\ log.consumer = "recv" /\ log.producer = "done"
    /\ log' = [log EXCEPT !.consumer = "ok"]

-----------------------------------------------------------------------------
(* The reader.                                                             *)

LogRecv ==
    /\ log.reader = "recv" /\ log.conn = "up" /\ log.stream # <<>>
    /\ log' = [log EXCEPT !.stream = Tail(@), !.heard = Append(@, Head(log.stream)),
                          !.reader = "send"]

(* What was received goes to the reader's own client.                      *)
LogSent ==
    /\ log.reader = "send"
    /\ log' = [log EXCEPT !.reader = "recv"]

(* It cannot be sent: the reader returns and closes its connection.        *)
LogLeave ==
    /\ log.reader = "send"
    /\ log' = [log EXCEPT !.reader = "gone", !.conn = "down"]

LogEOF ==
    /\ log.reader = "recv" /\ log.conn = "up"
    /\ log.stream = <<>> /\ log.consumer = "ok"
    /\ log' = [log EXCEPT !.reader = "eof"]

LogError ==
    /\ log.reader = "recv"
    /\ log.conn = "down" \/ (log.consumer = "error" /\ log.stream = <<>>)
    /\ log' = [log EXCEPT !.reader = "error", !.conn = "down"]

-----------------------------------------------------------------------------
(* The process writes while its log is read; a connection may break.       *)
LogGrows ==
    /\ log.producer \in {"scan", "select", "send"}
    /\ Len(log.file) < MaxLines
    /\ \E l \in Lines : log' = [log EXCEPT !.file = Append(@, l)]

ConnectionBreaks ==
    /\ log.conn = "up"
    /\ log' = [log EXCEPT !.conn = "down"]

LogStep ==
    \/ ProducerScans \/ ProducerEnds \/ ProducerIsTold \/ ProducerSends
    \/ HandOver
    \/ ConsumerSends \/ ConsumerSendFails \/ ConsumerTells \/ ConsumerEnds

LogNext == LogStep \/ LogGrows \/ ConnectionBreaks

-----------------------------------------------------------------------------
(* A reader gets the lines in order and without a gap, whatever the speed  *)
(* of the three and however the log grows meanwhile, and one that hears    *)
(* the end has heard the whole log as it was when the scanner came to its  *)
(* end, up to a line that does not fit into the scanner's buffer: there it *)
(* ends without an error (log.go:120).                                     *)
LogIsComplete ==
    /\ log.heard = [i \in 1 .. Len(log.heard) |-> i]
    /\ log.reader = "eof" => Len(log.heard) = Len(log.file) \/
                             log.file[Len(log.heard) + 1] = "toolong"

(* What the producer, the consumer and the reader can do next: each line   *)
(* is the guard of the steps it names.                                     *)
LogCanGoOn ==
    \/ log.producer \in {"scan", "select"}    \* scans or ends; is told or sends
    \/ log.consumer = "recv" /\ log.producer \in {"send", "done"}
    \/ /\ log.consumer = "send"
       /\ \/ log.conn = "up" /\ Len(log.stream) < Window
          \/ log.conn = "down"
    \/ log.consumer = "failed"
    \/ log.reader = "send"                    \* LogSent, LogLeave
    \/ /\ log.reader = "recv"
       /\ \/ log.conn = "up" /\ log.stream # <<>>
          \/ log.conn = "up" /\ log.stream = <<>> /\ log.consumer = "ok"
          \/ log.conn = "down" \/ (log.consumer = "error" /\ log.stream = <<>>)

(* Producer and consumer have returned, or wait for ever: the consumer for *)
(* the producer to look at doneChan (process_manager.go:362), the producer *)
(* for the consumer to take a line, unless it has come to its end.         *)
LogOver ==
    /\ log.producer \in {"none", "done"} /\ log.consumer \in {"none", "ok", "error"}
LogWedged ==
    /\ log.consumer = "tell" /\ log.producer \in {"send", "done"}

(* Reader, consumer and producer never wait for each other in a circle     *)
(* while the reader is there.  Behind one that has gone they come to their *)
(* end, with a single exception: a Send has failed, and the consumer says  *)
(* so at a time when the producer does not look.                           *)
LogNeverStuck ==
    LogCanGoOn \/ (log.reader \notin {"recv", "send"} /\ (LogOver \/ (LogWedged /\ log.conn = "down")))
=============================================================================

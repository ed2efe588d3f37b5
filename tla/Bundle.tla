------------------------------- MODULE Bundle -------------------------------
(***************************************************************************)
(* internal/bundle, and the way from the execution log to it: what a Go    *)
(* check gets when it reads the rows of a collector.                       *)
(*                                                                         *)
(* The files do not change after the collectors, so the reader's cache     *)
(* answers what the file would and is left out.                            *)
(***************************************************************************)

\* What the error of a failed collector says.  Of a server's message the log
\* keeps 300 bytes, and UNKNOWN_TABLE, at its end, may lie beyond them.
ErrorText == {"none", "unknown table", "unknown table, cut off", "other"}

EntryType == [status : {"none", "ok", "empty", "skipped", "failed"}, error : ErrorText]

\* whole: every row the server sent.  cut: the write ended early, between two
\* lines.  garbled: a line that cannot be parsed or is too long to read.
FileState == {"none", "whole", "cut", "garbled"}

\* Recorder.Record: gov mode keeps no more than the number of the error.
Recorded(error, gov) ==
  CASE error = "none"                   -> "none"
    [] gov                              -> "redacted"
    [] error = "unknown table, cut off" -> "other"
    [] OTHER                            -> error

\* Mutant of CollectorStatus: only the skipped collectors are passed on.
SkippedOnly(entry, gov) == IF entry.status = "skipped" THEN "skipped" ELSE "none"

\* collectorStatus: why a collector has no file.  A table the server does not
\* have is no failure.
CollectorStatus(entry, gov) ==
  CASE entry.status = "skipped" -> "skipped"
    [] entry.status = "failed" /\ Recorded(entry.error, gov) # "unknown table" -> "failed"
    [] OTHER -> "none"

\* Rows: the file of a failed collector may be a partial write and is not read.
Rows(status, file) ==
  CASE status = "failed" -> "failed"
    [] status # "failed" /\ file = "none" -> IF status = "none" THEN "not collected" ELSE status
    [] OTHER -> file

\* The answers that are a *NotCollected.
NotCollected == {"failed", "skipped", "not collected"}
=============================================================================

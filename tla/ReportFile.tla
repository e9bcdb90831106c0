------------------------------ MODULE ReportFile ------------------------------
(***************************************************************************)
(* The file with the latest prediction (the end of predict_realtime_native *)
(* in app/realtime_native/inference.py): written to a temporary file of    *)
(* one fixed name, then moved over the old one.                            *)
(*                                                                         *)
(* A thread writes to the file it has opened, under whatever name that is  *)
(* by then: opening a name that exists truncates the file others may be    *)
(* writing, and a move takes their file along.                             *)
(***************************************************************************)
EXTENDS Naturals

CONSTANT Threads   \* threads of the server that handle calls

VARIABLES
  tmp,      \* the temporary file: none, partial, whole or mixed
  report,   \* the published file
  file,     \* what each thread has open: none, tmp, report, or gone (a file without a name)
  met,      \* history: threads whose call ran beside another one
  spoiled   \* history: a call that did published the report

reportVars == <<tmp, report, file, met, spoiled>>

Contents == {"partial", "whole", "mixed"}

ReportInit ==
  /\ tmp = "none" /\ report = "whole"
  /\ file = [t \in Threads |-> "none"]
  /\ met = {} /\ spoiled = FALSE

Writing == {t \in Threads : file[t] # "none"}

(* Mutant: the report itself is opened for writing.                         *)
OpenInPlace(t) ==
  /\ report' = "partial"
  /\ file' = [file EXCEPT ![t] = "report"]
  /\ met' = IF Writing = {} THEN met \ {t} ELSE met \union Writing \union {t}
  /\ UNCHANGED <<tmp, spoiled>>
(* open(_tmp_path, "w")                                                     *)
OpenTmp(t) ==
  /\ tmp' = "partial"
  /\ file' = [file EXCEPT ![t] = "tmp"]
  /\ met' = IF Writing = {} THEN met \ {t} ELSE met \union Writing \union {t}
  /\ UNCHANGED <<report, spoiled>>

(* json.dump, flush and fsync.  Over what another thread has written, it is *)
(* whole only if it is as long.                                             *)
Filled(old, new) == IF old = "partial" THEN new = "whole" ELSE new \in {"whole", "mixed"}
WriteText(t) ==
  /\ \/ file[t] = "tmp" /\ (\E c \in Contents : Filled(tmp, c) /\ tmp' = c) /\ UNCHANGED report
     \/ file[t] = "report" /\ (\E c \in Contents : Filled(report, c) /\ report' = c)
        /\ UNCHANGED tmp
     \/ file[t] = "gone" /\ UNCHANGED <<tmp, report>>
  /\ UNCHANGED <<file, met, spoiled>>

(* os.replace(_tmp_path, _report_path), after the file has been closed.     *)
Replace(t) ==
  /\ tmp # "none"
  /\ report' = tmp /\ tmp' = "none"
  /\ file' = [u \in Threads |-> IF u = t THEN "none"
                                ELSE CASE file[u] = "tmp" -> "report"
                                       [] file[u] = "report" -> "gone"
                                       [] OTHER -> file[u]]
  /\ spoiled' = (t \in met)
  /\ UNCHANGED met

(* Another thread has moved the file away: FileNotFoundError.               *)
ReplaceFails(t) ==
  /\ tmp = "none"
  /\ file' = [file EXCEPT ![t] = "none"]
  /\ UNCHANGED <<tmp, report, met, spoiled>>

(* The process ends: files stay as they are.                                *)
ReportRestart ==
  /\ file' = [t \in Threads |-> "none"]
  /\ met' = {}
  /\ UNCHANGED <<tmp, report, spoiled>>
=============================================================================

--------------------------- MODULE MCFoundations ---------------------------
(***************************************************************************)
(* The parts that everything else is built on and that share no state: a   *)
(* behaviour exercises one of them, the others stay as they are.           *)
(***************************************************************************)
EXTENDS TaskQueue, LinkedList, RequestParser, ArrayText, DatarefValues, DatarefUpdate,
        SettingsManager

CONSTANTS d1, d2

VARIABLE part

Parts == {"queue", "list", "parser", "array", "dataref", "update", "settings"}

allVars == <<part, queueVars, listVars, parsed, text, datarefVars, updateVars, settingsVars>>

MCInit ==
  /\ part \in Parts
  /\ QueueInit /\ ListInit /\ ParserInit /\ ArrayInit /\ DatarefInit /\ UpdateInit
  /\ SettingsInit

\* All parts but p stay as they are.
Apart(p) ==
  /\ part = p /\ part' = part
  /\ p # "queue" => UNCHANGED queueVars
  /\ p # "list" => UNCHANGED listVars
  /\ p # "parser" => UNCHANGED parsed
  /\ p # "array" => UNCHANGED text
  /\ p # "dataref" => UNCHANGED datarefVars
  /\ p # "update" => UNCHANGED updateVars
  /\ p # "settings" => UNCHANGED settingsVars

MCNext ==
  \/ Apart("queue") /\ QueueNext
  \/ Apart("list") /\ ListNext
  \/ Apart("parser") /\ ParserNext
  \/ Apart("array") /\ ArrayNext
  \/ Apart("dataref") /\ DatarefNext
  \/ Apart("update") /\ UpdateNext
  \/ Apart("settings") /\ SettingsNext

MCSpec == MCInit /\ [][MCNext]_allVars /\ UpdateFairness

\* -0.5, 1.5, 2 and 3: the int takes -2 to 2 and wraps around; 1.5 and 2 are no
\* floats.
MCWritten == {-1, 3, 4, 6}
MCInts == {-4, -2, 0, 2, 4}
MCToInt(h) == ((h + 4) % 10) - 4
MCFloats == {-1, 0, 2, 6}
MCToFloat(h) == IF h \in MCFloats THEN h ELSE 2
MCFetchedSets == {{}, {d1}}
=============================================================================

----------------------------- MODULE TopKeyScan -----------------------------
(***************************************************************************)
(* What a call of GetAny or GetData (gcjson.go) does before it asks gjson:   *)
(* the checks of convert.From and of the size, and the scan for a simple top *)
(* key.  A turn of the loop of GetTopKeyFast is a step.                      *)
(*                                                                          *)
(* A document that is whole comes with the places where its values lie; the  *)
(* scan only sees the text.                                                  *)
(***************************************************************************)
EXTENDS TopKeys, Layout

CONSTANTS
    Inputs,       \* texts that are whole, cut off, nil or no UTF-8
    Requests,     \* paths that are asked for
    MaxDocSize    \* convert.MaxJSONSize

ASSUME InputAssumption ==
    \A d \in Inputs :
        /\ d.text \in Seq(STRING)
        /\ d.state = "whole" => d.value # Nowhere /\ Laid(d)

VARIABLES
    input,        \* what the caller has
    request,      \* the path it asks for
    pc,           \* "from", "scan", "gjson", "typed", "panic", and where a getter is
    cursor,       \* where the scan stands
    hit           \* the scan saw the key

scanVars == <<input, request, pc, cursor, hit>>

ScanInit ==
    /\ input \in Inputs
    /\ request \in Requests
    /\ pc = "from"
    /\ cursor = 0
    /\ hit = FALSE

Goto(from, to) == pc = from /\ pc' = to

-----------------------------------------------------------------------------
(* convert.From fails for nil and for what is no UTF-8.                       *)
Converts == input.state \notin {"nil", "notUTF8"}
Accepted == Converts /\ Len(input.text) <= MaxDocSize
ScansFirst == IsSimpleTopKey(request) /\ Len(input.text) >= 2 /\ input.text[1] = "{"

Refuse ==
    /\ Goto("from", "typed")
    /\ ~ Accepted
    /\ UNCHANGED <<input, request, cursor, hit>>

BeginScan ==
    /\ Goto("from", "scan")
    /\ Accepted /\ ScansFirst
    /\ cursor' = 2
    /\ UNCHANGED <<input, request, hit>>

NoScan ==
    /\ Goto("from", "gjson")
    /\ Accepted /\ ~ ScansFirst
    /\ UNCHANGED <<input, request, cursor, hit>>

Scanned ==
    /\ \E turn \in {Turn(input.text, cursor, request[1])} :
         /\ pc' = CASE turn.is = "next" -> "scan"
                    [] turn.is = "panic" -> "panic"
                    [] OTHER -> "gjson"
         /\ hit' = (turn.is = "hit")
         /\ cursor' = turn.i
    /\ UNCHANGED <<input, request>>

(* A turn that looks at white space and does not step over it.               *)
ScanTurnAtBlank == pc = "scan" /\ SkipSpaces(input.text, cursor) = cursor /\ Scanned

ScanTurn == pc = "scan" /\ Scanned

(* What a getter does besides: it asks gjson, or answers, or it never scans.  *)
Beside ==
    /\ pc' \notin {"from", "scan", "gjson"}
    /\ UNCHANGED <<input, request, cursor, hit>>

ScanNext == Refuse \/ BeginScan \/ NoScan \/ ScanTurn \/ Beside

ScanSpec == ScanInit /\ [][ScanNext]_scanVars

-----------------------------------------------------------------------------
(* Properties.                                                               *)

(* When gjson is asked after the scan of a whole document, the scan has seen  *)
(* the key exactly when a member is written with it, whatever the strings,   *)
(* keys and values before it hold: its own state machine agrees with the     *)
(* grammar.                                                                  *)
TopKeyFound ==
    pc = "gjson" /\ ScansFirst /\ input.state = "whole" =>
        LET members == input.inside[input.value]
        IN  hit = (\E k \in DOMAIN members : members[k].key = request[1])

(* The scan ends, of a document that was cut off anywhere too.               *)
ScanEnds == pc = "scan" ~> pc # "scan"
=============================================================================

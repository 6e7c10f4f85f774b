------------------------------- MODULE DemoSite -------------------------------
(***************************************************************************)
(* The controlled demo site (apps/target-site): a catalogue served under   *)
(* one of four scenarios, the route an operator switches them with, and    *)
(* the file that keeps the selected one across restarts.                   *)
(*                                                                         *)
(* A request's body is awaited, then handled within one callback, so the   *)
(* requests take effect in the order their bodies are complete.            *)
(***************************************************************************)
EXTENDS Naturals, Sequences

CONSTANTS
    BASELINE_CATALOG, CHANGED_CATALOG,   \* the products, each with its sku
    ControlConfigured,   \* TARGET_CONTROL_TOKEN is set
    SavesMayFail,        \* writing the scenario's file may throw
    NoFile

SCENARIO_MODES == {"baseline", "legitimate_change", "structural_break", "transient_error"}
ScenarioControlAction == SCENARIO_MODES \cup {"reset"}

\* What a control request's body may be: too large, not JSON, or JSON with or without a known mode.
Body == ScenarioControlAction \cup {"oversized", "malformed", "unknown"}
Request == [authorized : BOOLEAN, body : Body]

VARIABLES
    mode,   \* the scenario in memory, which is the one served
    file    \* the scenario in the file

site == <<mode, file>>

\* A file that is missing or unreadable counts as baseline.
readFromDisk(stored) == IF stored = NoFile THEN "baseline" ELSE stored

Init == /\ file = NoFile
        /\ mode = readFromDisk(file)
-----------------------------------------------------------------------------
(* The pages. *)

recordsForScenario(scenario) ==
    IF scenario = "legitimate_change" THEN CHANGED_CATALOG ELSE BASELINE_CATALOG

\* Only the structural break replaces the markup, of the listing and of the product pages alike.
MarkupOf(scenario) == IF scenario = "structural_break" THEN "restructured" ELSE "original"

TRANSIENT_RESPONSE == [status |-> 503, markup |-> "none", records |-> <<>>]

buildCatalogResponse(scenario) ==
    IF scenario = "transient_error" THEN TRANSIENT_RESPONSE
    ELSE [status |-> 200, markup |-> MarkupOf(scenario), records |-> recordsForScenario(scenario)]

\* The page of one product, found by its sku in any case.
buildProductResponse(scenario, sku) ==
    LET found == SelectSeq(recordsForScenario(scenario), LAMBDA record : record.sku.key = sku.key)
    IN  IF scenario = "transient_error" THEN TRANSIENT_RESPONSE
        ELSE IF found = <<>> THEN [status |-> 404, markup |-> "none", records |-> <<>>]
        ELSE [status |-> 200, markup |-> MarkupOf(scenario), records |-> <<Head(found)>>]
-----------------------------------------------------------------------------
(* Switching the scenario. *)

\* The body is read before anything else is looked at.
StatusOf(request) ==
    CASE request.body = "oversized" -> 413
      [] request.body = "malformed" -> 400
      [] request.body \notin {"oversized", "malformed"} ->
            CASE ~ControlConfigured -> 503
              [] ControlConfigured /\ ~request.authorized -> 401
              [] ControlConfigured /\ request.authorized ->
                    IF request.body \in ScenarioControlAction THEN 200 ELSE 400

\* A write that throws leaves the file as it was.
writeToDisk(selected) ==
    \/ file' = selected
    \/ SavesMayFail /\ UNCHANGED file

\* FileScenarioStore.set: first in memory, then in the file.  When the write throws, the request is
\* answered with status 500 although the new scenario is served from now on.
set(selected) == mode' = selected /\ writeToDisk(selected)

handleScenarioControl(request) ==
    /\ StatusOf(request) = 200
    /\ set(IF request.body = "reset" THEN "baseline" ELSE request.body)

Refuse(request) == StatusOf(request) # 200 /\ UNCHANGED site

\* The process dies and starts again, perhaps just after it replaced the file and before it
\* answered; it then serves what the file says.
Restart ==
    /\ \/ UNCHANGED file
       \/ ControlConfigured /\ file' \in SCENARIO_MODES
    /\ mode' = readFromDisk(file')

\* A deployment comes with a file system of its own.
Deploy == file' = NoFile /\ mode' = readFromDisk(file')

Next == \/ \E request \in Request : handleScenarioControl(request) \/ Refuse(request)
        \/ Restart
        \/ Deploy

Spec == Init /\ [][Next]_site
=============================================================================

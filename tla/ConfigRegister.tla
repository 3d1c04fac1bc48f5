--------------------------- MODULE ConfigRegister ---------------------------
(***************************************************************************)
(* What internal/config promises of the active configuration file: a       *)
(* register that is replaced by compare-and-swap.  A replacement installs  *)
(* only a configuration that passed Validate, only over the content its    *)
(* caller expected, and an activation only over a content that a recovery  *)
(* snapshot holds; a receipt is issued only for a swap that took place.    *)
(***************************************************************************)
CONSTANTS Process, Config, Valid, NoConfig

VARIABLES
    active,    \* the content of the active configuration file
    saved,     \* contents that a complete recovery snapshot holds
    request,   \* each caller's replacement: what it expects and what it installs
    receipts   \* receipts issued

regVars == <<active, saved, request, receipts>>

Request == [kind : {"none", "activate", "restore"}, status : {"open", "done"},
            expected : Config \cup {NoConfig}, new : Config \cup {NoConfig}]

NoRequest == [kind |-> "none", status |-> "open", expected |-> NoConfig, new |-> NoConfig]

RegInit ==
    /\ active \in Valid
    /\ saved = {}
    /\ request = [p \in Process |-> NoRequest]
    /\ receipts = {}

Submit(p) ==
    /\ request[p] = NoRequest
    /\ \E k \in {"activate", "restore"}, e \in Config, n \in Valid :
          request' = [request EXCEPT ![p] = [kind |-> k, status |-> "open",
                                             expected |-> e, new |-> n]]
    /\ UNCHANGED <<active, saved, receipts>>

Save ==
    /\ saved' = saved \cup {active}
    /\ UNCHANGED <<active, request, receipts>>

\* The swap: one atomic comparison and replacement.
Swap(p) ==
    /\ request[p].kind # "none" /\ request[p].status = "open"
    /\ active = request[p].expected
    /\ request[p].kind = "activate" => active \in saved
    /\ active' = request[p].new
    /\ request' = [request EXCEPT ![p].status = "done"]
    /\ UNCHANGED <<saved, receipts>>

\* A swap that could not be confirmed is taken back before its caller returns.
Revert(p) ==
    /\ request[p].status = "done"
    /\ active' = request[p].expected
    /\ request' = [request EXCEPT ![p] = NoRequest]
    /\ UNCHANGED <<saved, receipts>>

\* The caller returns: with a receipt only after its swap, else at any time.
Return(p) ==
    /\ request[p] # NoRequest
    /\ request' = [request EXCEPT ![p] = NoRequest]
    /\ \/ UNCHANGED receipts
       \/ /\ request[p].status = "done"
          /\ receipts' = receipts \cup {[previous |-> request[p].expected,
                                         installed |-> request[p].new]}
    /\ UNCHANGED <<active, saved>>

\* Somebody replaces the file by other means, while no request is open.
Overwrite ==
    /\ \A p \in Process : request[p] = NoRequest
    /\ active' \in Config
    /\ UNCHANGED <<saved, request, receipts>>

RegNext ==
    \/ \E p \in Process : Submit(p) \/ Swap(p) \/ Revert(p) \/ Return(p)
    \/ Save
    \/ Overwrite

RegSpec == RegInit /\ [][RegNext]_regVars

=============================================================================

----------------------------- MODULE Generator -----------------------------
(***************************************************************************)
(* The state that the flow runner, the agent runner and the generic runner *)
(* share: one generator of StepRecords (run_scenario), suspended at a      *)
(* yield or running, and the adapter's settings that it changes.           *)
(***************************************************************************)
EXTENDS Integers, Sequences, SequencesExt

VARIABLES
    scn,       \* the scenario: mode, steps, rules, hooks, proxy, domains
    gen,       \* "new", "running", "yielded", "returned", "raised", "closed"
    pc,        \* where the generator goes on when it is resumed
    n,         \* step_num
    last,      \* the record yielded last
    tries,     \* attempts made at the current step or decision
    proxy,     \* the scenario's proxy is set in the adapter
    domains,   \* the scenario's domains are set in the adapter
    trace      \* "off", "on", or "kept": written to the run's directory

genVars == <<scn, gen, pc, n, last, tries, proxy, domains, trace>>

Running(at) == gen = "running" /\ pc = at

\* Hands a record to the caller; the generator goes on at `next`.
Yield(kind, num, err, next) ==
    /\ gen' = "yielded"
    /\ last' = [kind |-> kind, n |-> num, err |-> err]
    /\ pc' = next

NotReset ==   \* mutant: the settings are reset only where the run returns
    proxy' = (proxy /\ gen' # "returned") /\ domains' = (domains /\ gen' # "returned")

\* finally: the adapter's settings are put back.
Reset == proxy' = FALSE /\ domains' = FALSE
=============================================================================

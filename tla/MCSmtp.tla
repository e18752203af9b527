------------------------------- MODULE MCSmtp -------------------------------
(***************************************************************************)
(* Smtp for TLC, on two instances that differ in their bounds: connections *)
(* that compete for the budget and say little, which is the module that is *)
(* extended, and one connection that says much, pipelined and with         *)
(* STARTTLS.  A behaviour is one of either, as instance says.              *)
(***************************************************************************)
EXTENDS Smtp

CONSTANTS c1, c2

TwoConns == {c1, c2}

Pipelining == INSTANCE Smtp WITH
    Conns <- {c1}, MaxRecipients <- 2, TLSConfigured <- TRUE, MaxPipelined <- 2, MaxCommands <- 9

VARIABLE instance

MCInit == Init /\ instance \in {"competing", "pipelining"}

CompetingNext == instance = "competing" /\ Next /\ UNCHANGED instance

PipeliningNext == instance = "pipelining" /\ Pipelining!Next /\ UNCHANGED instance

MCNext == CompetingNext \/ PipeliningNext

MCVars == <<vars, instance>>

\* Delivering is the same in both.
MCSpec == MCInit /\ [][MCNext]_MCVars /\ Fairness
=============================================================================

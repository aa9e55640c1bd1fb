---------------------------- MODULE MCRpmsgLink -----------------------------
(***************************************************************************)
(* Two masters of the link, two buffers and messages numbered modulo four: *)
(* one that starts after the MCU and waits for the mailbox before it       *)
(* rings, and one that starts whenever it likes and drops a ring that      *)
(* finds the mailbox busy.  `kind' says which one a behaviour is about.    *)
(* Nothing is asked of the second but safety: it may stop, or leave the    *)
(* MCU waiting.                                                            *)
(***************************************************************************)
EXTENDS RpmsgLink

Lossy == INSTANCE RpmsgLink WITH StartAfterRemote <- FALSE, KickRetries <- FALSE

VARIABLE kind

MCInit == kind \in {"paced", "lossy"} /\ Init

MCNext == /\ UNCHANGED kind
          /\ \/ kind = "paced" /\ Next
             \/ kind = "lossy" /\ (Lossy!Next \/ UNCHANGED vars)

\* Fairness of RpmsgLink, for the master that waits.
MCSpec == /\ MCInit /\ [][MCNext]_<<kind, vars>>
          /\ WF_vars(kind = "paced" /\ IsrNext)
          /\ SF_vars(kind = "paced" /\ MainNext)
          /\ WF_vars(kind = "paced" /\ MasterReady)
          /\ WF_vars(kind = "paced" /\ MasterPost)
          /\ WF_vars(kind = "paced" /\ MasterKick)

\* With a master that waits the command is the newest one: see CommandCurrent.
PacedCommandCurrent == kind = "paced" => CommandCurrent

\* With a master that waits RPMsg_Frame_Init ends, and every message is taken:
\* see Boots and EveryMessageHandled; until it is, somebody is about to: see
\* NoStranded.
PacedProgress ==
    kind = "paced" => Boots /\ EveryMessageHandled /\ []NoStranded
=============================================================================

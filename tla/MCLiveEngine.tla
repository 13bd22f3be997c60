---------------------------- MODULE MCLiveEngine ----------------------------
(* LiveEngine between start() and stop(), two groups of its threads that   *)
(* do not interact: the transmitting banks (TransmitPath), and a publisher *)
(* with the discovery loop of another engine (Publication).  part is the   *)
(* group a behaviour is about.                                             *)
EXTENDS TransmitPath, Publication

VARIABLE part

MCInit ==
    /\ part \in {"transmit", "publication"}
    /\ Init /\ PublicationInit
    /\ part = "publication" \/ cast.collide

Transmits(A) == part = "transmit" /\ A /\ UNCHANGED <<part, publicationVars>>
Publishes(A) == part = "publication" /\ A /\ UNCHANGED <<part, vars>>

MCVars == <<part, vars, publicationVars>>

\* Fairness of TransmitPath and of Publication, each for its behaviours.
MCFairness ==
    /\ WF_MCVars(Transmits(Stopped))
    /\ \A b \in Banks :
          /\ WF_MCVars(Transmits(Spawn(b)))
          /\ WF_MCVars(Transmits(Runs(b)))
          /\ WF_MCVars(Transmits(~running /\ StopsSending(b)))
    /\ WF_MCVars(Publishes(Tick)) /\ WF_MCVars(Publishes(Publisher))
    /\ WF_MCVars(Publishes(Quiet \/ Retry)) /\ SF_MCVars(Publishes(ListenerOpens))
    /\ \A b \in PublishedBanks :
          /\ SF_MCVars(Publishes(Announce(b, FALSE)))
          /\ SF_air(part = "publication" /\ Arrives(Announcement(b)))

MCSpec == MCInit /\ [][Transmits(Next) \/ Publishes(PublicationNext)]_MCVars /\ MCFairness
=============================================================================

---------------------------- MODULE MCBackground ----------------------------
(***************************************************************************)
(* What works beside the shop, in one run: the loops of main.py with the   *)
(* email outbox, the contact messages (drain_all_email_outboxes calls      *)
(* both) and the analytics events (cleanup_runtime_records), and the       *)
(* script that moves the site's pictures to the bucket. They share no      *)
(* state, so a behaviour is of one of them: the run explores the sum of    *)
(* their states.                                                           *)
(***************************************************************************)
EXTENDS EmailOutbox, TLC

CONSTANTS Message, Unrenderable, Reaction, MAX_CONTACT_EMAIL_ATTEMPTS, MaxFault,
          Happening, Purchase, Subject, Thread, MaxIngest, MaxErasure, MaxStop, Turn,
          Slot, Column, Section, Admin, Operator, NoTask, AtFirst, MaxPicture, MaxSweep

VARIABLES mail, drainer, mailed, faults,
          log, torn, tables, duck, consent, aged, thread, accepted, lost, ingests,
          erasures, stops, turn,
          url, disk, object, request, run, rewrites, uploads, mishaps, sweeps,
          part

M == INSTANCE Contact WITH Drainer <- Worker, Response <- Reaction, delivered <- mailed
N == INSTANCE Analytics WITH Worker <- Thread, worker <- thread

S == INSTANCE SiteMedia WITH MaxUpload <- MaxPicture, faults <- mishaps

ASSUME BackgroundAssumption ==
    M!ContactAssumption /\ N!AnalyticsAssumption /\ S!SiteMediaAssumption

contact == <<mail, drainer, mailed, faults>>
analytics == <<log, torn, tables, duck, consent, aged, thread, accepted, lost, ingests,
               erasures, stops, turn>>
site == <<url, disk, object, request, run, rewrites, uploads, mishaps, sweeps>>

BackgroundInit ==
    /\ Init /\ M!ContactInit /\ N!AnalyticsInit /\ S!SiteMediaInit
    /\ part \in {"outbox", "contact", "analytics", "site"}
    /\ part # "site" => /\ url = [s \in Slot |-> [c \in Column |-> S!OnDisk]]
                        /\ Section \subseteq disk
    /\ part # "analytics" => turn = CHOOSE t \in Turn : TRUE

Outbox == part = "outbox" /\ Next /\ UNCHANGED <<contact, analytics, site, part>>
Contact == part = "contact" /\ M!ContactNext /\ UNCHANGED <<vars, analytics, site, part>>
Analytics == part = "analytics" /\ N!AnalyticsNext /\ UNCHANGED <<vars, contact, site, part>>
Site == part = "site" /\ S!SiteMediaNext /\ UNCHANGED <<vars, contact, analytics, part>>

BackgroundNext == Outbox \/ Contact \/ Analytics \/ Site

\* The fairness of each component, in the behaviours that are its own.
BackgroundFairness ==
    /\ \A w \in Worker : /\ WF_vars(part = "outbox" /\ SweeperNext(w))
                         /\ WF_contact(part = "contact" /\ M!Drain(w))
    /\ \A i \in RowId : WF_vars(part = "outbox" /\ BackoffPasses(i))
    /\ \A m \in Mail : WF_vars(part = "outbox" /\ LeaseExpires(m))
    /\ \A i \in Message : WF_contact(part = "contact" /\ M!Waits(i))
    /\ \A w \in Thread : WF_analytics(part = "analytics" /\ N!Advance(w))
    /\ WF_analytics(part = "analytics" /\ N!StartSome)
    /\ \A o \in Operator : /\ WF_site(part = "site" /\ S!Process(o))
                           /\ SF_site(part = "site" /\ S!StartLive(o))

everything == <<vars, contact, analytics, site, part>>
BackgroundSpec == BackgroundInit /\ [][BackgroundNext]_everything /\ BackgroundFairness

ContactTypeOK == M!ContactTypeOK
AnalyticsTypeOK == N!AnalyticsTypeOK

\* Two overlapping drains do not both mail a message (Contact.NoNeedlessMail).
NoNeedlessMail == M!NoNeedlessMail

\* Every contact message that renders is mailed or given up
\* (Contact.ContactSettles).
ContactSettles == M!ContactSettles

\* What was accepted stays in the log, or a rewrite overtook it
\* (Analytics.SourceOfTruth).
SourceOfTruth == N!SourceOfTruth

\* An erasure leaves no name behind (Analytics.ErasureReaches).
ErasureReaches == N!ErasureReaches

\* Every line of the log is reported on (Analytics.CaughtUp).
CaughtUp == N!CaughtUp

\* No column points to a removed file or object (SiteMedia.MediaReachable).
MediaReachable == S!MediaReachable

\* The script ends up moving everything (SiteMedia.EverythingMoved).
EverythingMoved == part = "site" => S!EverythingMoved

\* Every rewrite can be mapped back (SiteMedia.EveryRewriteLogged).
EveryRewriteLogged == S!EveryRewriteLogged

OneColumn == {"image_url"}
Places == {"nothing", "external", "disk"}
Ids == {1, 2}
Broken == {1}
Outcomes == {"accepted", "no_recipient", "permanent", "transient"}
Turns == {{"ingest", "report", "stop", "together"},
          {"ingest", "cleanup", "together"},
          {"ingest", "report", "cleanup", "stop"},
          {"ingest", "report", "cleanup", "erase"},
          {"ingest", "report", "stop", "tear"}}
=============================================================================

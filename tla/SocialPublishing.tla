--------------------------- MODULE SocialPublishing ---------------------------
(***************************************************************************)
(* Publishing social posts (apps/social/services.py, reel_publishing.py):  *)
(* the posts and their per-network records, the five-minute worker and the *)
(* web requests that claim and publish them, Meta whose answers may be     *)
(* lost, the upload checkpoints of a Reel, and the staff who edit,         *)
(* schedule, cancel, delete, retry, connect and disconnect meanwhile.      *)
(*                                                                         *)
(* One action is one transaction or saved row, with the answer of Meta     *)
(* that decides it.  What Meta has accepted may become public later: a     *)
(* Facebook Reel is encoded first, and a request whose answer was lost may *)
(* still be under way when the client has given up.                        *)
(***************************************************************************)
EXTENDS Naturals, FiniteSets

CONSTANTS
    Photos, Reels,  \* ids of SocialPost rows without and with is_reel
    Workers,        \* processes that run publish_due
    Requests,       \* web requests that publish one post
    MaxMishaps,     \* bound: rejections, lost answers and unexpected exceptions
    MaxCrashes,     \* bound: killed processes
    MaxMoves,       \* bound: requests of the staff
    None            \* no post, no network, no form

Posts == Photos \cup Reels
Publishers == Workers \cup Requests
Networks == {"facebook", "instagram"}

ASSUME ConstantAssumption ==
    /\ Photos \cap Reels = {} /\ Workers \cap Requests = {}
    /\ IsFiniteSet(Posts)
    /\ MaxMishaps \in Nat /\ MaxCrashes \in Nat /\ MaxMoves \in Nat
    /\ None \notin Posts /\ None \notin Networks

VARIABLES
    (* SocialPost, SocialPublication and SocialAccount *)
    status,   \* "gone" when the post was deleted
    chosen,   \* selected_networks()
    due,      \* scheduled_at has come
    record,   \* status of the publication of a post on a network
    reel,     \* reel_publications: the checkpoint of a network
    account,  \* status of the account of a network
    form,     \* status a composer request loaded, while updated_at is unchanged
    (* a publisher *)
    pc, batch, claimed, job, todo, net,
    mem,      \* the checkpoints of the post it loaded
    (* Meta, and what the properties remember *)
    taken,    \* submissions of a post that a network has accepted
    live,     \* those that are public
    lost,     \* those whose publisher does not know of them
    stranded, \* posts left publishing: the publisher was killed, or was a
              \* request that ended in an unexpected exception (and answered 500)
    mishaps, crashes, moves

postVars == <<status, chosen, due, form>>
pubVars  == <<pc, batch, claimed, job, todo, net, mem>>
metaVars == <<taken, live, lost>>
bounds   == <<stranded, mishaps, crashes>>
vars == <<postVars, record, reel, account, pubVars, metaVars, bounds, moves>>

Status == {"draft", "scheduled", "publishing", "posted", "attention", "gone"}
AccountStatus == {"connected", "reconnect", "disconnected"}
\* creating and submitting are saved before the request they announce.
Stage == {"none", "creating", "created", "uploaded", "submitting", "published"}

TypeOK ==
    /\ status \in [Posts -> Status]
    /\ chosen \in [Posts -> SUBSET Networks]
    /\ due \in [Posts -> BOOLEAN]
    /\ form \in [Posts -> Status \cup {None}]
    /\ record \in [Posts -> [Networks -> {"none", "published", "failed"}]]
    /\ reel \in [Posts -> [Networks -> Stage]]
    /\ account \in [Networks -> AccountStatus]
    /\ pc \in [Publishers -> {"idle", "claiming", "loading", "next", "calling",
                              "starting", "submitting", "saving", "answered"}]
    /\ batch \in [Publishers -> SUBSET Posts]
    /\ claimed \in [Publishers -> SUBSET Posts]
    /\ job \in [Publishers -> Posts \cup {None}]
    /\ todo \in [Publishers -> SUBSET Networks]
    /\ net \in [Publishers -> Networks \cup {None}]
    /\ mem \in [Publishers -> [Networks -> Stage]]
    /\ taken \in [Posts -> [Networks -> Nat]]
    /\ live \in [Posts -> [Networks -> Nat]]
    /\ lost \in [Posts -> [Networks -> Nat]]
    /\ stranded \in SUBSET Posts
    /\ mishaps \in 0..MaxMishaps
    /\ crashes \in 0..MaxCrashes
    /\ moves \in 0..MaxMoves

NoStages == [n \in Networks |-> "none"]

Init ==
    /\ status \in [Posts -> {"draft", "scheduled"}]
    /\ chosen = [p \in Posts |-> Networks]
    /\ due = [p \in Posts |-> FALSE]
    /\ form = [p \in Posts |-> None]
    /\ record = [p \in Posts |-> NoStages]
    /\ reel = [p \in Posts |-> NoStages]
    /\ account = [n \in Networks |-> "connected"]
    /\ pc = [w \in Publishers |-> "idle"]
    /\ batch = [w \in Publishers |-> {}]
    /\ claimed = [w \in Publishers |-> {}]
    /\ job = [w \in Publishers |-> None]
    /\ todo = [w \in Publishers |-> {}]
    /\ net = [w \in Publishers |-> None]
    /\ mem = [w \in Publishers |-> NoStages]
    /\ taken = [p \in Posts |-> [n \in Networks |-> 0]]
    /\ live = [p \in Posts |-> [n \in Networks |-> 0]]
    /\ lost = [p \in Posts |-> [n \in Networks |-> 0]]
    /\ stranded = {}
    /\ mishaps = 0 /\ crashes = 0 /\ moves = 0

-----------------------------------------------------------------------------
(* The staff.                                                              *)

Connected(n) == account[n] = "connected"
\* _require_publishable
Publishable(p) == chosen[p] # {} /\ \A n \in chosen[p] : Connected(n)

\* A save of the row changes updated_at, which a composer request compares with
\* the one it loaded; QuerySet.update() leaves updated_at alone.
SetStatus(p, s) == /\ status' = [status EXCEPT ![p] = s]
                   /\ form' = [form EXCEPT ![p] = None]

\* post_edit loads a post and works on it (it may call the AI), ...
EditLoad(p) ==
    /\ p \in Photos /\ form[p] = None
    /\ status[p] \in {"draft", "scheduled", "attention"}
    /\ form' = [form EXCEPT ![p] = status[p]]
    /\ UNCHANGED <<status, chosen, due, record, reel, account, pubVars, metaVars, bounds>>

\* ... and saves every field of what it loaded, under the row lock, unless the
\* post is being sent or was saved meanwhile.
EditSave(p, networks) ==
    /\ form[p] # None
    /\ status[p] \in {"draft", "scheduled", "attention"}
    /\ form[p] = "scheduled" => networks # {}
    /\ SetStatus(p, form[p])
    /\ chosen' = [chosen EXCEPT ![p] = networks]
    /\ UNCHANGED <<due, record, reel, account, pubVars, metaVars, bounds>>

\* The Reel editor locks the row before it looks at it, and refuses a Reel that
\* has publications.
EditReel(p, networks) ==
    /\ p \in Reels /\ status[p] = "draft" /\ record[p] = NoStages
    /\ chosen' = [chosen EXCEPT ![p] = networks]
    /\ UNCHANGED <<status, due, form, record, reel, account, pubVars, metaVars, bounds>>

\* schedule_post.  The new time is in the future: a pass that has p in its list
\* began before it and will leave p alone.
SchedulePost(p) ==
    /\ status[p] \in {"draft", "scheduled", "attention"}
    /\ Publishable(p)
    /\ SetStatus(p, "scheduled")
    /\ due' = [due EXCEPT ![p] = FALSE]
    /\ batch' = [w \in Publishers |-> batch[w] \ {p}]
    /\ UNCHANGED <<chosen, record, reel, account, pc, claimed, job, todo, net, mem,
                   metaVars, bounds>>

\* The Eastern time of the post arrives.
TimeComes(p) ==
    /\ status[p] = "scheduled" /\ ~due[p]
    /\ due' = [due EXCEPT ![p] = TRUE]
    /\ UNCHANGED <<status, chosen, form, record, reel, account, pubVars, metaVars, bounds>>

\* cancel_schedule
CancelSchedule(p) ==
    /\ status[p] = "scheduled"
    /\ SetStatus(p, "draft")
    /\ due' = [due EXCEPT ![p] = FALSE]
    /\ UNCHANGED <<chosen, record, reel, account, pubVars, metaVars, bounds>>

\* delete_unpublished_post
DeletePost(p) ==
    /\ status[p] \in {"draft", "scheduled"}
    /\ \A n \in Networks : record[p][n] # "published"
    /\ SetStatus(p, "gone")
    /\ UNCHANGED <<chosen, due, record, reel, account, pubVars, metaVars, bounds>>

\* disconnect_network.  An Instagram account that was linked through Facebook goes
\* with Facebook's, and posts for Instagram alone stay scheduled.
Disconnect(n) ==
    /\ account[n] # "disconnected"
    /\ \E linked \in BOOLEAN :
          account' = [m \in Networks |-> IF m = n \/ (linked /\ n = "facebook")
                                        THEN "disconnected" ELSE account[m]]
    /\ status' = [p \in Posts |-> IF status[p] = "scheduled" /\ n \in chosen[p]
                                  THEN "attention" ELSE status[p]]
    /\ UNCHANGED <<chosen, due, form, record, reel, pubVars, metaVars, bounds>>

\* save_facebook_page, save_instagram_account
Connect(n) ==
    /\ account[n] # "connected"
    /\ account' = [account EXCEPT ![n] = "connected"]
    /\ UNCHANGED <<postVars, record, reel, pubVars, metaVars, bounds>>

-----------------------------------------------------------------------------
(* Claiming.                                                               *)

\* publish_post begins with the post it was given: the row as it is claimed, or
\* (the worker) as it is read again.
LoadPost(w, p) ==
    /\ job' = [job EXCEPT ![w] = p]
    /\ todo' = [todo EXCEPT ![w] = chosen[p]]
    /\ mem' = [mem EXCEPT ![w] = reel[p]]
    /\ pc' = [pc EXCEPT ![w] = "next"]

\* publish_due lists the posts that are due, ...
ListDue(w) ==
    /\ w \in Workers /\ pc[w] = "idle"
    /\ batch' = [batch EXCEPT ![w] = {p \in Posts : status[p] = "scheduled" /\ due[p]}]
    /\ batch'[w] # {}
    /\ pc' = [pc EXCEPT ![w] = "claiming"]
    /\ UNCHANGED <<postVars, record, reel, account, claimed, job, todo, net, mem,
                   metaVars, bounds>>

\* ... locks each and claims it if it is still scheduled and due.
ClaimDue(w, p) ==
    /\ pc[w] = "claiming" /\ p \in batch[w]
    /\ batch' = [batch EXCEPT ![w] = @ \ {p}]
    /\ IF status[p] = "scheduled" /\ due[p]
       THEN /\ SetStatus(p, "publishing")
            /\ claimed' = [claimed EXCEPT ![w] = @ \cup {p}]
       ELSE UNCHANGED <<status, form, claimed>>
    /\ UNCHANGED <<chosen, due, record, reel, account, pc, job, todo, net, mem, metaVars,
                   bounds>>

EndClaims(w) ==
    /\ pc[w] = "claiming" /\ batch[w] = {}
    /\ pc' = [pc EXCEPT ![w] = IF claimed[w] = {} THEN "idle" ELSE "loading"]
    /\ UNCHANGED <<postVars, record, reel, account, batch, claimed, job, todo, net, mem,
                   metaVars, bounds>>

NextClaimed(w, p) ==
    /\ pc[w] = "loading" /\ p \in claimed[w]
    /\ claimed' = [claimed EXCEPT ![w] = @ \ {p}]
    /\ LoadPost(w, p)
    /\ UNCHANGED <<postVars, record, reel, account, batch, net, metaVars, bounds>>

\* claim_and_publish_now: even a post that was posted since the composer was
\* opened, of which nothing is left to send.
PostNow(r, p) ==
    /\ pc[r] = "idle"
    /\ status[p] \notin {"publishing", "gone"}
    /\ Publishable(p)
    /\ SetStatus(p, "publishing")
    /\ LoadPost(r, p)
    /\ due' = [due EXCEPT ![p] = TRUE]
    /\ UNCHANGED <<chosen, record, reel, account, batch, claimed, net, metaVars, bounds>>

\* retry
Retry(r, p) ==
    /\ pc[r] = "idle"
    /\ status[p] = "attention"
    /\ SetStatus(p, "publishing")
    /\ LoadPost(r, p)
    /\ UNCHANGED <<chosen, due, record, reel, account, batch, claimed, net, metaVars, bounds>>

-----------------------------------------------------------------------------
(* publish_post, network by network.                                       *)

\* selected_networks() names Facebook first.
First(networks) == IF "facebook" \in networks THEN "facebook" ELSE "instagram"

StageOf(w) == mem[w][net[w]]

NextNetwork(w, n) ==
    /\ pc[w] = "next" /\ todo[w] # {} /\ n = First(todo[w])
    /\ IF record[job[w]][n] = "published"
       THEN /\ todo' = [todo EXCEPT ![w] = @ \ {n}]
            /\ UNCHANGED <<record, net, pc>>
       ELSE IF Connected(n)
       THEN /\ net' = [net EXCEPT ![w] = n]
            /\ pc' = [pc EXCEPT ![w] = "calling"]
            /\ UNCHANGED <<record, todo>>
       ELSE /\ record' = [record EXCEPT ![job[w]][n] = "failed"]
            /\ todo' = [todo EXCEPT ![w] = @ \ {n}]
            /\ UNCHANGED <<net, pc>>
    /\ UNCHANGED <<postVars, reel, account, batch, claimed, job, mem, metaVars, bounds>>

\* _record, and on to the next network.
Record(w, s) ==
    /\ record' = [record EXCEPT ![job[w]][net[w]] = s]
    /\ todo' = [todo EXCEPT ![w] = @ \ {net[w]}]
    /\ net' = [net EXCEPT ![w] = None]
    /\ pc' = [pc EXCEPT ![w] = "next"]

\* _save of reel_publications: the row and the copy in memory.
Checkpoint(w, s) ==
    /\ reel' = [reel EXCEPT ![job[w]][net[w]] = s]
    /\ mem' = [mem EXCEPT ![w][net[w]] = s]

GoTo(w, where) == pc' = [pc EXCEPT ![w] = where]

\* A SocialError before anything was accepted: the content is refused, or Meta
\* rejects or does not process the request.
Rejected(w) ==
    /\ pc[w] \in {"calling", "starting", "submitting"}
    /\ mishaps < MaxMishaps /\ mishaps' = mishaps + 1
    /\ Record(w, "failed")
    /\ UNCHANGED <<postVars, reel, account, batch, claimed, job, mem, metaVars, stranded, crashes>>

\* "Sign in again": the account read before the call is saved as it was.
TokenRefused(w) ==
    /\ pc[w] \in {"calling", "starting", "submitting"}
    /\ mishaps < MaxMishaps /\ mishaps' = mishaps + 1
    /\ account' = [account EXCEPT ![net[w]] = "reconnect"]
    /\ Record(w, "failed")
    /\ UNCHANGED <<postVars, reel, batch, claimed, job, mem, metaVars, stranded, crashes>>

\* Meta accepts the request, ...
Takes(w)    == taken' = [taken EXCEPT ![job[w]][net[w]] = @ + 1]
GoesLive(w) == live' = [live EXCEPT ![job[w]][net[w]] = @ + 1]

\* ... and answers with the id of the public post,
PhotoAccepted(w) ==
    /\ pc[w] = "calling" /\ job[w] \in Photos
    /\ Takes(w) /\ GoesLive(w)
    /\ GoTo(w, "answered")
    /\ UNCHANGED <<postVars, record, reel, account, batch, claimed, job, todo, net, mem,
                   lost, bounds>>

\* ... or the answer is lost, or names no id: the client takes it for a failure.
AnswerLost(w) ==
    /\ \/ pc[w] = "calling" /\ job[w] \in Photos
       \/ pc[w] = "submitting"
    /\ mishaps < MaxMishaps /\ mishaps' = mishaps + 1
    /\ Takes(w)
    /\ lost' = [lost EXCEPT ![job[w]][net[w]] = @ + 1]
    /\ Record(w, "failed")
    /\ UNCHANGED <<postVars, reel, account, batch, claimed, job, mem, live, stranded, crashes>>

\* What was accepted becomes public at its own time, whatever the post is by then.
Appears(p, n) ==
    /\ live[p][n] < taken[p][n]
    /\ live' = [live EXCEPT ![p][n] = @ + 1]
    /\ UNCHANGED <<postVars, record, reel, account, pubVars, taken, lost, bounds>>

\* Slip: the result is not recorded when the account was disconnected meanwhile.
Recorded_IfConnected(w) ==
    /\ pc[w] = "answered"
    /\ Record(w, IF Connected(net[w]) THEN "published" ELSE "failed")
    /\ UNCHANGED <<postVars, reel, account, batch, claimed, job, mem, metaVars, bounds>>

Recorded(w) ==
    /\ pc[w] = "answered"
    /\ Record(w, "published")
    /\ UNCHANGED <<postVars, reel, account, batch, claimed, job, mem, metaVars, bounds>>

-----------------------------------------------------------------------------
(* publish_reel: the checkpoints of an upload.                             *)

ReelCalls(w, s) == pc[w] = "calling" /\ job[w] \in Reels /\ StageOf(w) = s

\* A published id is saved: nothing is asked of Meta.
ReelKnown(w) ==
    /\ ReelCalls(w, "published")
    /\ GoTo(w, "answered")
    /\ UNCHANGED <<postVars, record, reel, account, batch, claimed, job, todo, net, mem,
                   metaVars, bounds>>

\* An unconfirmed step is not repeated; Facebook is asked about a submission and
\* answers that the video is not public, or not yet.
ReelHeld(w) ==
    /\ \/ ReelCalls(w, "creating")
       \/ /\ ReelCalls(w, "submitting")
          /\ net[w] = "instagram" \/ live[job[w]][net[w]] = 0
    /\ Record(w, "failed")
    /\ UNCHANGED <<postVars, reel, account, batch, claimed, job, mem, metaVars, bounds>>

\* The container or the upload session is announced, ...
ReelStart(w) ==
    /\ ReelCalls(w, "none")
    /\ Checkpoint(w, "creating")
    /\ GoTo(w, "starting")
    /\ UNCHANGED <<postVars, record, account, batch, claimed, job, todo, net, metaVars, bounds>>

\* ... created,
ReelCreated(w) ==
    /\ pc[w] = "starting"
    /\ Checkpoint(w, "created")
    /\ GoTo(w, "calling")
    /\ UNCHANGED <<postVars, record, account, batch, claimed, job, todo, net, metaVars, bounds>>

\* ... and (Facebook) given its video.
ReelUploaded(w) ==
    /\ ReelCalls(w, "created") /\ net[w] = "facebook"
    /\ Checkpoint(w, "uploaded")
    /\ UNCHANGED <<postVars, record, account, pc, batch, claimed, job, todo, net, metaVars,
                   bounds>>

\* Slip: the submission is announced after the request and not before.
ReelSubmit_Unsaved(w) ==
    /\ \/ ReelCalls(w, "created") /\ net[w] = "instagram"
       \/ ReelCalls(w, "uploaded")
    /\ GoTo(w, "submitting")
    /\ UNCHANGED <<postVars, record, reel, account, batch, claimed, job, todo, net, mem,
                   metaVars, bounds>>

\* The submission is announced, on Instagram once the container is FINISHED.
ReelSubmit(w) ==
    /\ \/ ReelCalls(w, "created") /\ net[w] = "instagram"
       \/ ReelCalls(w, "uploaded")
    /\ Checkpoint(w, "submitting")
    /\ GoTo(w, "submitting")
    /\ UNCHANGED <<postVars, record, account, batch, claimed, job, todo, net, metaVars, bounds>>

\* Meta accepts it.  Instagram answers with the id of the public Reel, which is
\* saved next; Facebook begins to encode, and the same function goes on to ask,
\* once, whether the video is public.
ReelAccepted(w) ==
    /\ pc[w] = "submitting"
    /\ Takes(w)
    /\ IF net[w] = "instagram" THEN GoesLive(w) /\ GoTo(w, "saving")
                               ELSE UNCHANGED live /\ GoTo(w, "calling")
    /\ UNCHANGED <<postVars, record, reel, account, batch, claimed, job, todo, net, mem,
                   lost, bounds>>

\* The id that was answered, or the "complete" of a submitted video, is saved.
ReelPublished(w) ==
    /\ \/ pc[w] = "saving"
       \/ ReelCalls(w, "submitting") /\ net[w] = "facebook" /\ live[job[w]]["facebook"] > 0
    /\ Checkpoint(w, "published")
    /\ GoTo(w, "answered")
    /\ UNCHANGED <<postVars, record, account, batch, claimed, job, todo, net, metaVars, bounds>>

-----------------------------------------------------------------------------
(* The end of a publication.                                               *)

\* The next post of a pass, the end of it, or the answer of a request.
Leave(w) ==
    /\ job' = [job EXCEPT ![w] = None]
    /\ todo' = [todo EXCEPT ![w] = {}]
    /\ net' = [net EXCEPT ![w] = None]
    /\ mem' = [mem EXCEPT ![w] = NoStages]
    /\ GoTo(w, IF claimed[w] = {} THEN "idle" ELSE "loading")

\* Slip: posted when one network has it.
Finish_Any(w) ==
    /\ pc[w] = "next" /\ todo[w] = {}
    /\ LET p == job[w] IN
       SetStatus(p, IF \E n \in chosen[p] : record[p][n] = "published"
                    THEN "posted" ELSE "attention")
    /\ Leave(w)
    /\ UNCHANGED <<chosen, due, record, reel, account, batch, claimed, metaVars, bounds>>

Finish(w) ==
    /\ pc[w] = "next" /\ todo[w] = {}
    /\ LET p == job[w] IN
       SetStatus(p, IF chosen[p] # {} /\ \A n \in chosen[p] : record[p][n] = "published"
                    THEN "posted" ELSE "attention")
    /\ Leave(w)
    /\ UNCHANGED <<chosen, due, record, reel, account, batch, claimed, metaVars, bounds>>

\* Slip: the pass goes on and leaves the post as it is.
Unexpected_Forgets(w) ==
    /\ pc[w] \in {"next", "calling", "starting", "submitting", "saving", "answered"}
    /\ mishaps < MaxMishaps /\ mishaps' = mishaps + 1
    /\ lost' = IF pc[w] \in {"saving", "answered"} THEN [lost EXCEPT ![job[w]][net[w]] = @ + 1]
               ELSE lost
    /\ stranded' = IF w \in Workers THEN stranded ELSE stranded \cup {job[w]}
    /\ Leave(w)
    /\ UNCHANGED <<postVars, record, reel, account, batch, claimed, taken, live, crashes>>

\* An exception that is no SocialError.  The pass sets the post to attention and
\* goes on; a request answers 500 and leaves the post "publishing".
Unexpected(w) ==
    /\ pc[w] \in {"next", "calling", "starting", "submitting", "saving", "answered"}
    /\ mishaps < MaxMishaps /\ mishaps' = mishaps + 1
    /\ lost' = IF pc[w] \in {"saving", "answered"} THEN [lost EXCEPT ![job[w]][net[w]] = @ + 1]
               ELSE lost
    /\ IF w \in Workers
       THEN /\ status' = [status EXCEPT ![job[w]] = "attention"]
            /\ UNCHANGED stranded
       ELSE /\ stranded' = stranded \cup {job[w]}
            /\ UNCHANGED status
    /\ Leave(w)
    /\ UNCHANGED <<chosen, due, form, record, reel, account, batch, claimed, taken, live,
                   crashes>>

\* A killed process: what it has claimed stays "publishing".
Crash(w) ==
    /\ pc[w] # "idle"
    /\ crashes < MaxCrashes /\ crashes' = crashes + 1
    /\ stranded' = stranded \cup claimed[w] \cup ({job[w]} \ {None})
    /\ batch' = [batch EXCEPT ![w] = {}]
    /\ claimed' = [claimed EXCEPT ![w] = {}]
    /\ job' = [job EXCEPT ![w] = None]
    /\ todo' = [todo EXCEPT ![w] = {}]
    /\ net' = [net EXCEPT ![w] = None]
    /\ mem' = [mem EXCEPT ![w] = NoStages]
    /\ GoTo(w, "idle")
    /\ UNCHANGED <<postVars, record, reel, account, metaVars, mishaps>>

-----------------------------------------------------------------------------
\* What people ask for; posting and retrying are the requests that publish.
Staff ==
    /\ moves < MaxMoves /\ moves' = moves + 1
    /\ \/ \E p \in Posts : EditLoad(p) \/ SchedulePost(p) \/ CancelSchedule(p) \/ DeletePost(p)
       \/ \E p \in Posts, networks \in SUBSET Networks : EditSave(p, networks)
                                                         \/ EditReel(p, networks)
       \/ \E n \in Networks : Disconnect(n) \/ Connect(n)
       \/ \E r \in Requests, p \in Posts : PostNow(r, p) \/ Retry(r, p)

Claims(w) ==
    \/ ListDue(w) \/ EndClaims(w)
    \/ \E p \in Posts : ClaimDue(w, p) \/ NextClaimed(w, p)

Publishes(w) ==
    \/ \E n \in Networks : NextNetwork(w, n)
    \/ PhotoAccepted(w) \/ Recorded(w)
    \/ ReelKnown(w) \/ ReelHeld(w) \/ ReelStart(w) \/ ReelCreated(w) \/ ReelUploaded(w)
    \/ ReelSubmit(w) \/ ReelAccepted(w) \/ ReelPublished(w)
    \/ Finish(w)

Faults(w) == Rejected(w) \/ TokenRefused(w) \/ AnswerLost(w) \/ Unexpected(w) \/ Crash(w)

Next ==
    \/ Staff
    \/ /\ \/ \E p \in Posts : TimeComes(p) \/ \E n \in Networks : Appears(p, n)
          \/ \E w \in Publishers : Claims(w) \/ Publishes(w) \/ Faults(w)
       /\ UNCHANGED moves

Spec == Init /\ [][Next]_vars

\* The cron starts the worker every five minutes and its calls time out; a
\* request runs to its end.
FairSpec == Spec /\ \A w \in Publishers : WF_vars((Claims(w) \/ Publishes(w)) /\ UNCHANGED moves)

-----------------------------------------------------------------------------
(* What must hold.                                                         *)

\* services.py:305 "Publish every selected network that does not already have a
\* live post": a photo post has one copy on a network, and one more for every
\* copy whose answer never reached the program.
PhotoCopiesExplained ==
    \A p \in Photos, n \in Networks : live[p][n] <= lost[p][n] + 1

\* reel_publishing.py:1 "Persist provider IDs and submission checkpoints": a Reel
\* is public once, whatever answers are lost and whoever tries again.
ReelOnce == \A p \in Reels, n \in Networks : live[p][n] <= 1

\* What the program calls published is public, and a posted post is public on
\* every network that was chosen.
PublishedIsLive ==
    \A p \in Posts, n \in Networks :
        /\ record[p][n] = "published" => live[p][n] >= 1
        /\ status[p] = "posted" /\ n \in chosen[p] => record[p][n] = "published"

\* A post that is being sent has one publisher, whose copy of the checkpoints is
\* the row's, or was left by the one it had.
Holds(w, p) == p \in claimed[w] \/ job[w] = p

PublisherOwns ==
    \A p \in Posts :
        /\ \A w \in Publishers :
            /\ Holds(w, p) => status[p] = "publishing"
            /\ job[w] = p => p \notin claimed[w] /\ mem[w] = reel[p]
            /\ \A v \in Publishers : Holds(w, p) /\ Holds(v, p) => w = v
        /\ status[p] = "publishing" => p \in stranded \/ \E w \in Publishers : Holds(w, p)
        /\ p \in stranded => \A w \in Publishers : ~Holds(w, p)

\* The inductive invariant: what a publisher is doing, and what the checkpoints
\* and records say of the copies that are public.
AtWork == {"next", "calling", "starting", "submitting", "saving", "answered"}

Progress ==
    \A w \in Publishers :
        /\ job[w] # None <=> pc[w] \in AtWork
        /\ pc[w] \in AtWork \ {"next"} => net[w] \in Networks /\ record[job[w]][net[w]] # "published"
        /\ job[w] \in Photos => pc[w] \in {"next", "calling", "answered"}
        /\ job[w] \in Reels /\ pc[w] \in {"submitting", "saving"} => StageOf(w) = "submitting"
        /\ pc[w] = "starting" => StageOf(w) = "creating"

Answered(w, p, n) == job[w] = p /\ net[w] = n /\ pc[w] = "answered"

PhotoBooks ==
    \A p \in Photos, n \in Networks :
        \/ taken[p][n] <= lost[p][n]
        \/ /\ taken[p][n] = lost[p][n] + 1
           /\ \/ record[p][n] = "published" \/ p \in stranded
              \/ \E w \in Publishers : Answered(w, p, n)

ReelBooks ==
    \A p \in Reels, n \in Networks :
        /\ taken[p][n] <= 1
        /\ reel[p][n] \in {"none", "creating", "created", "uploaded"} => taken[p][n] = 0
        /\ reel[p][n] = "published" => live[p][n] = 1
        /\ \A w \in Publishers : job[w] = p /\ net[w] = n =>
            /\ pc[w] = "submitting" => taken[p][n] = 0
            /\ pc[w] = "saving" => live[p][n] = 1

AnswersAreTrue ==
    /\ \A w \in Publishers : pc[w] = "answered" => live[job[w]][net[w]] >= 1
    /\ \A p \in Posts, n \in Networks : live[p][n] <= taken[p][n]

StrandedStay ==
    \A p \in Posts : /\ p \in stranded => status[p] = "publishing"
                     /\ form[p] \in {None, "draft", "scheduled", "attention"}

IInv == /\ TypeOK /\ PublisherOwns /\ Progress /\ PhotoBooks /\ ReelBooks
        /\ AnswersAreTrue /\ PublishedIsLive /\ StrandedStay

\* What a publisher has still to do is for the networks that were chosen.
ForTheChosen ==
    \A w \in Publishers :
        /\ pc[w] \in AtWork => todo[w] \subseteq chosen[job[w]]
        /\ pc[w] \in AtWork \ {"next"} => net[w] \in chosen[job[w]]

\* The publishing keeps the promise of Board: the staff have a post unless it is
\* being published, posted or deleted, what is told is the network's record, and
\* what a network received is unheard when its answer never reached the program.
ShownAs(s) == IF s = "publishing" THEN "out"
              ELSE IF s \in {"posted", "gone"} THEN s ELSE "ours"

StageOfPost == [p \in Posts |-> ShownAs(status[p])]

ToldOf == [p \in Posts |-> {n \in Networks : record[p][n] = "published"}]

TheBoard == INSTANCE Board WITH
    GoOnce <- Reels, stage <- StageOfPost, wanted <- chosen, told <- ToldOf,
    received <- taken, up <- live, unheard <- lost

BoardKept == TheBoard!Spec

\* A network that has the post keeps its record: no retry, disconnection or
\* later failure takes it back.
PublishedStays ==
    [][\A p \in Posts, n \in Networks :
        record[p][n] = "published" => record'[p][n] = "published"]_vars

\* A post that is due is claimed, unless staff take it away or move it.
DuePublishes ==
    \A p \in Posts :
        status[p] = "scheduled" /\ due[p] ~> ~(status[p] = "scheduled" /\ due[p])

\* A publication ends, unless its publisher was killed, or was a request that
\* answered 500: nothing in the program takes such a post out of "publishing".
PublishingEnds ==
    \A p \in Posts : status[p] = "publishing" ~> status[p] # "publishing" \/ p \in stranded

\* What is due is decided: claimed, and then posted or shown as needing attention,
\* whatever fails on one network or with another post of the list, and whatever
\* exception ends the work of a pass on it.  (Left out are stranded posts: those of
\* a killed publisher and those of a request that ended in an exception.)
DueIsDecided == DuePublishes /\ PublishingEnds
=============================================================================

------------------------------ MODULE ChatService ------------------------------
(***************************************************************************)
(* The assistant as its Discord users reach it: the slash commands of      *)
(* discord_bot/main.py with their rate limiter, the query API in the       *)
(* trading bot's process (mobile/query_api.py) and process_chat of         *)
(* agents/router.py with its answer cache and cooldown; either process may *)
(* restart.  /ask sends no session_id, so all users share the session      *)
(* "default" and a cache key is a question.  Lookup, cooldown and start of *)
(* a run have no await between them: one step.                             *)
(* Moments are modelled by how long ago they are.                          *)
(***************************************************************************)
EXTENDS Integers, Sequences, FiniteSets, SequencesExt

CONSTANTS
  Users,
  Questions,    \* what /ask can be asked
  Reports,      \* the commands that read: /positions, /pnl, /status, /risk
  RateMax,      \* rate_limit_per_min
  Window,       \* the 60 s of the rate limiter, ticks
  ClientLimit,  \* request_timeout_sec of the bot's HTTP client, ticks
  RunLimit,     \* the 40 s a run of the graph may take, ticks
  Cooldown,     \* CHAT_SESSION_COOLDOWN_SECONDS, ticks
  CacheTTL,     \* CHAT_CACHE_TTL_SECONDS, ticks
  CacheMax      \* CHAT_CACHE_MAX_ENTRIES

ASSUME ChatAssumption ==
  /\ {RateMax, Window, ClientLimit, RunLimit, Cooldown, CacheTTL, CacheMax} \subseteq Nat \ {0}
  /\ Questions \cap Reports = {} /\ "none" \notin Users

VARIABLES
  cache,    \* _response_cache: entries [question, age, dataAge], in its order
  last,     \* how long ago the session's last run was let through
  started,  \* history: ages of the runs let through within Cooldown
  runs,     \* the runs of the graph: [question, age, owner]
  user,     \* per user: the command under way and the last reply
  window,   \* _events: ages of a user's commands, as the limiter keeps them
  accepted  \* history: ages of the accepted commands within Window

vars == <<cache, last, started, runs, user, window, accepted>>

-----------------------------------------------------------------------------
(* The rate limiter *)

\* What is left when the head is popped until it is at one of these places.
From(seq, places) == IF places = {} THEN <<>> ELSE SubSeq(seq, Min(places), Len(seq))

MutantDroppedAtSixty(ages) == From(ages, {i \in DOMAIN ages : ages[i] < Window})

\* The window without its events strictly older than 60 seconds.
Recent(ages) == From(ages, {i \in DOMAIN ages : ages[i] <= Window})

\* A user has a reply, resting on data of this age (0: on none).
Replied(u, dataAge) ==
  [user EXCEPT ![u] = [pc |-> "idle", what |-> "none", age |-> 0, dataAge |-> dataAge]]

\* A slash command: refused in a channel or for a role that is not allowed,
\* refused by the limiter, or sent to the API.
Refuse(u) ==
  /\ user[u].pc = "idle"
  /\ user' = Replied(u, 0)
  /\ UNCHANGED <<cache, last, started, runs, window, accepted>>

Command(u, what) ==
  /\ user[u].pc = "idle"
  /\ LET recent == Recent(window[u]) IN
     IF Len(recent) >= RateMax
     THEN /\ window' = [window EXCEPT ![u] = recent]
          /\ user' = Replied(u, 0)
          /\ UNCHANGED accepted
     ELSE /\ window' = [window EXCEPT ![u] = Append(recent, 0)]
          /\ accepted' = [accepted EXCEPT ![u] = Append(@, 0)]
          /\ user' = [user EXCEPT ![u] = [pc |-> "sent", what |-> what, age |-> 0, dataAge |-> 0]]
  /\ UNCHANGED <<cache, last, started, runs>>

-----------------------------------------------------------------------------
(* The cache *)

WithoutOldHead(entries) == From(entries, {i \in DOMAIN entries : entries[i].age <= CacheTTL})

\* _cleanup_cache_locked: expired entries are popped from the head only, then
\* the head goes while there are too many.
Cleaned(entries) ==
  LET kept == WithoutOldHead(entries)
      over == Len(kept) - CacheMax
  IN  IF over > 0 THEN SubSeq(kept, over + 1, Len(kept)) ELSE kept

Places(entries, q) == {i \in DOMAIN entries : entries[i].question = q}

\* The cache without its entry for a question.
Others(entries, q) ==
  IF Places(entries, q) = {} THEN entries ELSE RemoveAt(entries, Min(Places(entries, q)))

MutantHitsUnchecked(q) == {e \in ToSet(Cleaned(cache)) : e.question = q}

\* _get_cached_response: the entry a lookup returns, if there is one.  An entry
\* that has expired is not returned, wherever in the cache it is.
Hits(q) == {e \in ToSet(Cleaned(cache)) : e.question = q /\ e.age <= CacheTTL}

\* What a lookup that returns nothing leaves: an expired entry is gone.
AfterMiss(q) == Others(Cleaned(cache), q)

\* _set_cached_response; an existing key keeps its place until it is moved.
AfterSet(q, dataAge) ==
  Cleaned(Append(Others(Cleaned(cache), q), [question |-> q, age |-> 0, dataAge |-> dataAge]))

-----------------------------------------------------------------------------
(* The API *)

\* A question in the cache: the stored answer, whoever it was for.  Its entry
\* moves to the end.
AnswerFromCache(u) ==
  /\ user[u].pc = "sent" /\ user[u].what \in Questions
  /\ \E hit \in Hits(user[u].what) :
       /\ user' = Replied(u, hit.dataAge)
       /\ cache' = Append(Others(Cleaned(cache), user[u].what), hit)
  /\ UNCHANGED <<last, started, runs, window, accepted>>

MutantOneRunAtATime == runs = {}

\* _is_cooldown_blocked, negated.
MayStart == last >= Cooldown

\* Within the cooldown: a refusal, which books nothing.
CoolDown(u) ==
  /\ user[u].pc = "sent" /\ user[u].what \in Questions
  /\ Hits(user[u].what) = {} /\ ~MayStart
  /\ user' = Replied(u, 0)
  /\ cache' = AfterMiss(user[u].what)
  /\ UNCHANGED <<last, started, runs, window, accepted>>

\* The interval is booked and the graph starts.
StartRun(u) ==
  /\ user[u].pc = "sent" /\ user[u].what \in Questions
  /\ Hits(user[u].what) = {} /\ MayStart
  /\ user' = [user EXCEPT ![u].pc = "waiting"]
  /\ runs' = runs \cup {[question |-> user[u].what, age |-> 0, owner |-> u]}
  /\ last' = 0 /\ started' = Append(started, 0)
  /\ cache' = AfterMiss(user[u].what)
  /\ UNCHANGED <<window, accepted>>

\* An empty question, or one that is too long: answered before the lookup.
TurnDown(u) ==
  /\ user[u].pc = "sent" /\ user[u].what \in Questions
  /\ user' = Replied(u, 0)
  /\ UNCHANGED <<cache, last, started, runs, window, accepted>>

\* A read-only endpoint: the report, or an error of the secret or a database.
Report(u) ==
  /\ user[u].pc = "sent" /\ user[u].what \in Reports
  /\ user' = Replied(u, 0)
  /\ UNCHANGED <<cache, last, started, runs, window, accepted>>

ReplyToOwner(run, dataAge) ==
  user' = IF run.owner = "none" THEN user ELSE Replied(run.owner, dataAge)

\* The graph answers; a failed classification answers too, with the help text
\* of general_chat.  The answer is stored from now on, though its data were
\* read after the run began.
Finish(run) ==
  /\ cache' = AfterSet(run.question, run.age)
  /\ ReplyToOwner(run, run.age)
  /\ runs' = runs \ {run}
  /\ UNCHANGED <<last, started, window, accepted>>

MutantFailureForgiven(run) ==
  /\ ReplyToOwner(run, 0)
  /\ runs' = runs \ {run}
  /\ last' = Cooldown
  /\ UNCHANGED <<cache, started, window, accepted>>

\* The graph raises, or its 40 seconds are over: an answer that is not stored.
Fail(run) ==
  /\ ReplyToOwner(run, 0)
  /\ runs' = runs \ {run}
  /\ UNCHANGED <<cache, last, started, window, accepted>>

MutantSilentTimeout(u) == user

\* What a user whose client gave up is told.
Unanswered(u) == Replied(u, 0)

\* A run whose client is gone goes on.
Orphaned(u) == {[r EXCEPT !.owner = IF @ = u THEN "none" ELSE @] : r \in runs}

\* The bot's HTTP client waited long enough, or its connection broke.
GiveUp(u) ==
  /\ user[u].pc \in {"sent", "waiting"}
  /\ user' = Unanswered(u)
  /\ runs' = Orphaned(u)
  /\ UNCHANGED <<cache, last, started, window, accepted>>

\* The trading bot's process, which serves the API, restarts: cache, cooldown
\* and runs are gone, and who waits gets an error.
RestartApi ==
  /\ cache' = <<>> /\ last' = Cooldown /\ started' = <<>> /\ runs' = {}
  /\ user' = [u \in Users |->
                IF user[u].pc = "idle" THEN user[u] ELSE Replied(u, 0)[u]]
  /\ UNCHANGED <<window, accepted>>

\* The Discord bot's process restarts: the limiter has no events, the commands
\* under way end without a reply, and their runs go on.
RestartDiscordBot ==
  /\ window' = [u \in Users |-> <<>>] /\ accepted' = [u \in Users |-> <<>>]
  /\ user' = [u \in Users |->
                IF user[u].pc = "idle" THEN user[u] ELSE Replied(u, 0)[u]]
  /\ runs' = {[r EXCEPT !.owner = "none"] : r \in runs}
  /\ UNCHANGED <<cache, last, started>>

\* Time passes, but not past a timeout that has to fire.  What is too old to
\* matter ages no further.
Older(age, bound) == IF age > bound THEN age ELSE age + 1

Tick ==
  /\ \A run \in runs : run.age < RunLimit
  /\ \A u \in Users : user[u].pc # "idle" => user[u].age < ClientLimit
  /\ cache' = [i \in DOMAIN cache |->
                 [cache[i] EXCEPT !.age = Older(@, CacheTTL),
                                  !.dataAge = Older(@, CacheTTL + RunLimit)]]
  /\ last' = IF last < Cooldown THEN last + 1 ELSE last
  /\ started' = From([i \in DOMAIN started |-> started[i] + 1],
                     {i \in DOMAIN started : started[i] + 1 < Cooldown})
  /\ runs' = {[r EXCEPT !.age = @ + 1] : r \in runs}
  /\ user' = [u \in Users |->
                IF user[u].pc = "idle"
                THEN [user[u] EXCEPT !.dataAge = 0]
                ELSE [user[u] EXCEPT !.age = @ + 1]]
  /\ window' = [u \in Users |-> [i \in DOMAIN window[u] |-> Older(window[u][i], Window)]]
  /\ accepted' = [u \in Users |->
                    From([i \in DOMAIN accepted[u] |-> accepted[u][i] + 1],
                         {i \in DOMAIN accepted[u] : accepted[u][i] < Window})]

Init ==
  /\ cache = <<>> /\ last = Cooldown /\ started = <<>> /\ runs = {}
  /\ user = [u \in Users |-> [pc |-> "idle", what |-> "none", age |-> 0, dataAge |-> 0]]
  /\ window = [u \in Users |-> <<>>] /\ accepted = [u \in Users |-> <<>>]

Timeouts == (\E u \in Users : GiveUp(u)) \/ (\E run \in runs : Fail(run))

Next ==
  \/ \E u \in Users :
       \/ Refuse(u) \/ \E what \in Questions \cup Reports : Command(u, what)
       \/ AnswerFromCache(u) \/ CoolDown(u) \/ StartRun(u) \/ TurnDown(u) \/ Report(u)
       \/ GiveUp(u)
  \/ \E run \in runs : Finish(run) \/ Fail(run)
  \/ RestartApi \/ RestartDiscordBot \/ Tick

Spec == Init /\ [][Next]_vars

\* Time passes and timeouts fire; no answer has to come.
FairSpec == Spec /\ WF_vars(Tick) /\ WF_vars(Timeouts)

-----------------------------------------------------------------------------

TypeOK ==
  /\ \A i \in DOMAIN cache :
       cache[i] \in [question : Questions, age : 0 .. CacheTTL + 1,
                     dataAge : 0 .. CacheTTL + RunLimit + 1]
  /\ last \in 0 .. Cooldown
  /\ runs \subseteq [question : Questions, age : 0 .. RunLimit, owner : Users \cup {"none"}]
  /\ \A u \in Users : user[u].pc \in {"idle", "sent", "waiting"} /\ user[u].age \in 0 .. ClientLimit

\* The cache keeps its bound, and one entry for a question.
CacheSound ==
  /\ Len(cache) <= CacheMax
  /\ \A i, j \in DOMAIN cache : cache[i].question = cache[j].question => i = j

\* Whichever order runs finish in, the cache is sound, and no answer rests on
\* data read longer ago than the cache keeps an answer and a run may take: a
\* hit moves its entry to the end without making it younger, so the entries
\* are not in the order of their age.
FreshAnswers ==
  /\ TypeOK /\ CacheSound
  /\ \A u \in Users : user[u].dataAge <= CacheTTL + RunLimit

\* Since the API's process started, any two runs of the session were let through
\* at least the cooldown apart, whoever asked, in one moment or not, and whatever
\* became of the first.  Since the Discord bot's process started, no more
\* commands of a user were let through in any 60 seconds than allowed.
LimitsHeld ==
  /\ Len(started) <= 1
  /\ \A u \in Users : Len(accepted[u]) <= RateMax

\* Every command is answered, also when the API does not, or ends with the
\* process of the Discord bot.
AsksAnswered == \A u \in Users : user[u].pc # "idle" ~> user[u].pc = "idle"

=============================================================================

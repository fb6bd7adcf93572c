---------------------------- MODULE TokenProvider ----------------------------
(***************************************************************************)
(* The OCI token provider (providers/oci/provider.go) as the logons with a *)
(* signed token use it (token_authenticator.go): each asks Token for a     *)
(* token, checks that it has not expired, and asks PrivateKeyForToken for  *)
(* the key to sign with.  One caller at a time requests a new token from   *)
(* the service, without the mutex; the others wait for its channel to be   *)
(* closed and look again.  A step is what happens between two points where *)
(* the mutex is free.                                                      *)
(*                                                                         *)
(* A token is the public key it was issued for and its exp claim.  The     *)
(* channels are numbered as they are made, and a refresh's key as its      *)
(* channel.                                                                *)
(***************************************************************************)
EXTENDS Integers, FiniteSets

CONSTANTS
  Callers,          \* the goroutines that log on
  Lifetimes,        \* how long the service's tokens are valid; 0: already expired
  RefreshBefore,    \* refreshBeforeExpiry
  MaxClock,         \* bound: the time the clock may reach
  MaxLogons         \* bound: the logons of all callers together

ASSUME TimesAreIntegers == Lifetimes \subseteq Int /\ RefreshBefore \in Int

VARIABLES
  clock,            \* what provider.now() and time.Now() return
  token,            \* the cached token, None before the first
  generations,      \* token -> the key retained for it and when it expires
  refreshing,
  refreshDone,      \* the number of the last channel made
  caller,           \* where each caller is: [pc, now, done, token, key]
  logons            \* how many logons were begun

tokenVars == <<clock, token, generations, refreshing, refreshDone, caller, logons>>

None == [key |-> 0, exp |-> 0]

Idle == [pc |-> "idle", now |-> 0, done |-> 0, token |-> None, key |-> 0]

TokenInit ==
  /\ clock = 0 /\ token = None /\ generations = [t \in {} |-> None]
  /\ refreshing = FALSE /\ refreshDone = 0 /\ logons = 0
  /\ caller = [c \in Callers |-> Idle]

Go(c, r) == caller' = [caller EXCEPT ![c] = r]

\* The call returns with an error, and so does the logon.
Fails(c, why) == Go(c, [Idle EXCEPT !.pc = why])

\* A channel is closed when its refresh is over.
Closed(done) == done < refreshDone \/ ~refreshing

\* pruneExpiredGenerationsLocked.
Retained(t) == {g \in DOMAIN generations : generations[g].exp > t}
pruneExpiredGenerations(t) == generations' = [g \in Retained(t) |-> generations[g]]

Ended == {"idle", "failed", "expired", "no key", "signed"}

\* A logon with a token begins (Authenticate up to Token).
Authenticate(c) ==
  /\ caller[c].pc \in Ended /\ logons < MaxLogons
  /\ Go(c, [Idle EXCEPT !.pc = "token"])
  /\ logons' = logons + 1
  /\ UNCHANGED <<clock, token, generations, refreshing, refreshDone>>

-----------------------------------------------------------------------------
(* Token. *)

TokenIsFresh(t) == token # None /\ t + RefreshBefore < token.exp

\* ctx.Err() at the head of the loop, or in select.
Cancelled(c) ==
  /\ caller[c].pc \in {"token", "wait"}
  /\ Fails(c, "failed")
  /\ UNCHANGED <<clock, token, generations, refreshing, refreshDone, logons>>

\* The cached token will do.
Cached(c) ==
  /\ caller[c].pc = "token" /\ TokenIsFresh(clock)
  /\ Go(c, [Idle EXCEPT !.pc = "returned", !.token = token])
  /\ UNCHANGED <<clock, token, generations, refreshing, refreshDone, logons>>

\* Another caller is refreshing: wait on its channel.
Wait(c) ==
  /\ caller[c].pc = "token" /\ ~TokenIsFresh(clock) /\ refreshing
  /\ pruneExpiredGenerations(clock)
  /\ Go(c, [caller[c] EXCEPT !.pc = "wait", !.done = refreshDone])
  /\ UNCHANGED <<clock, token, refreshing, refreshDone, logons>>

Woken(c) ==
  /\ caller[c].pc = "wait" /\ Closed(caller[c].done)
  /\ Go(c, [Idle EXCEPT !.pc = "token"])
  /\ UNCHANGED <<clock, token, generations, refreshing, refreshDone, logons>>

\* This caller refreshes; requestToken generates a key of its own.
Lead(c) ==
  /\ caller[c].pc = "token" /\ ~TokenIsFresh(clock) /\ ~refreshing
  /\ pruneExpiredGenerations(clock)
  /\ refreshing' = TRUE /\ refreshDone' = refreshDone + 1
  /\ Go(c, [caller[c] EXCEPT !.pc = "request", !.now = clock, !.done = refreshDone + 1])
  /\ UNCHANGED <<clock, token, logons>>

\* requestToken returns: the service issued a token for the key, which must not
\* have expired when the caller began, or something failed.
ServiceAnswers(c) ==
  /\ caller[c].pc = "request"
  /\ \/ \E l \in Lifetimes :
          LET t == [key |-> caller[c].done, exp |-> clock + l]
          IN  Go(c, [caller[c] EXCEPT !.pc = "publish", !.token = IF t.exp > caller[c].now THEN t ELSE None])
     \/ Go(c, [caller[c] EXCEPT !.pc = "publish", !.token = None])
  /\ UNCHANGED <<clock, token, generations, refreshing, refreshDone, logons>>

\* Mutant: the key of the cached token is the only one that is retained.
PublishOnly(c) ==
  /\ caller[c].pc = "publish"
  /\ LET t == caller[c].token
     IN  \/ /\ t # None
            /\ token' = t /\ generations' = [g \in {t} |-> [key |-> caller[c].done, exp |-> t.exp]]
            /\ Go(c, [Idle EXCEPT !.pc = "returned", !.token = t])
         \/ t = None /\ Fails(c, "failed") /\ UNCHANGED <<token, generations>>
  /\ refreshing' = FALSE
  /\ UNCHANGED <<clock, refreshDone, logons>>

\* Mutant: a refresh that failed returns at once, its channel still open.
PublishSuccess(c) ==
  /\ caller[c].pc = "publish"
  /\ LET t == caller[c].token
     IN  \/ /\ t # None
            /\ token' = t
            /\ generations' = [g \in DOMAIN generations \cup {t} |->
                                 IF g = t THEN [key |-> caller[c].done, exp |-> t.exp] ELSE generations[g]]
            /\ Go(c, [Idle EXCEPT !.pc = "returned", !.token = t])
            /\ refreshing' = FALSE
         \/ t = None /\ Fails(c, "failed") /\ UNCHANGED <<token, generations, refreshing>>
  /\ UNCHANGED <<clock, refreshDone, logons>>

\* The result is published and the channel closed under the mutex; Token returns.
Publish(c) ==
  /\ caller[c].pc = "publish"
  /\ LET t == caller[c].token
     IN  \/ /\ t # None
            /\ token' = t
            /\ generations' = [g \in DOMAIN generations \cup {t} |->
                                 IF g = t THEN [key |-> caller[c].done, exp |-> t.exp] ELSE generations[g]]
            /\ Go(c, [Idle EXCEPT !.pc = "returned", !.token = t])
         \/ t = None /\ Fails(c, "failed") /\ UNCHANGED <<token, generations>>
  /\ refreshing' = FALSE
  /\ UNCHANGED <<clock, refreshDone, logons>>

-----------------------------------------------------------------------------
(* The rest of the logon. *)

\* validateJWTExpiration.
Validate(c) ==
  /\ caller[c].pc = "returned"
  /\ IF caller[c].token.exp < clock THEN Fails(c, "expired") ELSE Go(c, [caller[c] EXCEPT !.pc = "valid"])
  /\ UNCHANGED <<clock, token, generations, refreshing, refreshDone, logons>>

\* signHeader: PrivateKeyForToken finds the key of the token, or fails before it
\* looks because the context is over.
PrivateKeyForToken(c) ==
  /\ caller[c].pc = "valid"
  /\ \/ Fails(c, "failed") /\ UNCHANGED generations
     \/ /\ pruneExpiredGenerations(clock)
        /\ LET t == caller[c].token
           IN  IF t \in Retained(clock)
               THEN Go(c, [caller[c] EXCEPT !.pc = "signed", !.key = generations[t].key])
               ELSE Go(c, [caller[c] EXCEPT !.pc = "no key", !.now = clock])
  /\ UNCHANGED <<clock, token, refreshing, refreshDone, logons>>

TimePasses ==
  /\ clock < MaxClock /\ clock' = clock + 1
  /\ UNCHANGED <<token, generations, refreshing, refreshDone, caller, logons>>

CallerStep(c) ==
  \/ Cached(c) \/ Wait(c) \/ Woken(c) \/ Lead(c) \/ ServiceAnswers(c) \/ Publish(c)
  \/ Validate(c) \/ PrivateKeyForToken(c)

TokenNext == TimePasses \/ \E c \in Callers : Authenticate(c) \/ Cancelled(c) \/ CallerStep(c)

\* A goroutine runs on, and the service answers or the request fails; nobody has
\* to cancel anything.
TokenSpec ==
  TokenInit /\ [][TokenNext]_tokenVars /\ \A c \in Callers : WF_tokenVars(CallerStep(c))

-----------------------------------------------------------------------------
(* Properties. *)

\* "Implementations must keep the association valid for every token they return
\* until that token expires." (interfaces.go): however many refreshes follow, a
\* logon signs with the key its token was issued for, and is left without a key
\* only when the token had expired by the time it asked.
SignedWithItsKey ==
  \A c \in Callers :
    /\ caller[c].pc = "signed" => caller[c].key = caller[c].token.key
    /\ caller[c].pc = "no key" => caller[c].token.exp <= caller[c].now

\* Every call of Token returns: a caller that waits is woken by the refresh it
\* waits for, also when that fails, and none waits for a refresh nobody performs.
\* With the number of logons bounded, there is always a later time when nobody is
\* in Token.
TokenReturns == []<>(\A c \in Callers : caller[c].pc \notin {"token", "wait", "request", "publish"})
=============================================================================

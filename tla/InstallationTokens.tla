------------------------- MODULE InstallationTokens -------------------------
(***************************************************************************)
(* Git operations on one repository under an installation token (git.py):  *)
(* the cache its threads share, the operation tried again with a fresh     *)
(* token when GitHub refuses the cached one, and each round of it tried    *)
(* again while the remote or the network fails.                            *)
(*                                                                         *)
(* idcat and GitHub are external: idcat hands out a new token, or one it   *)
(* has handed out before, or refuses, and GitHub may stop accepting the    *)
(* tokens issued so far at any moment, before the cache thinks they have   *)
(* aged.                                                                   *)
(***************************************************************************)
EXTENDS Naturals

CONSTANTS
  Thread,       \* the threads that work on the repository
  Retries,      \* transient failures retried in a round
  MaxTokens     \* bound: how many tokens idcat issues

ASSUME TokenAssumption == Retries \in Nat /\ MaxTokens \in Nat \ {0}

VARIABLES
  cache,        \* the cached token; 0 for none, or one that has aged
  issued,       \* how many tokens idcat has issued; each is its number
  reused,       \* the tokens it has handed out more than once (history)
  refusedUpTo,  \* GitHub refuses the tokens up to this one
  op            \* per thread, the operation it is at

tokenVars == <<cache, issued, reused, refusedUpTo, op>>

\* "credentials" looks in the cache, "fetch" awaits idcat, "store" holds a token
\* the cache does not have yet, "try" presents one, "refused" was refused it.
OpState == {"idle", "credentials", "fetch", "store", "try", "refused", "ok",
            "unauthorized", "unavailable", "noCredentials"}
Idle == [state |-> "idle", token |-> 0, refused |-> 0, retries |-> 0]
Op == [state : OpState, token : 0..MaxTokens, refused : 0..MaxTokens,
       retries : 0..Retries]

TokenTypeOK ==
  /\ cache \in 0..MaxTokens
  /\ issued \in 0..MaxTokens
  /\ reused \subseteq 1..MaxTokens
  /\ refusedUpTo \in 0..MaxTokens
  /\ op \in [Thread -> Op]

TokenInit ==
  /\ cache = 0
  /\ issued = 0
  /\ reused = {}
  /\ refusedUpTo = 0
  /\ op = [t \in Thread |-> Idle]

To(t, state) == op' = [op EXCEPT ![t].state = state]
Starting == [state |-> "credentials", token |-> 0, refused |-> 0,
             retries |-> Retries]

\* The cache is looked in under its lock, which is let go of for the fetch.
LookUp(t) ==
  /\ op[t].state = "credentials"
  /\ op' = [op EXCEPT ![t].state = IF cache = 0 THEN "fetch" ELSE "try",
                      ![t].token = cache]
  /\ UNCHANGED <<cache, issued, reused, refusedUpTo>>

Hold(t, token) == op' = [op EXCEPT ![t].state = "store", ![t].token = token]

Fetch(t) ==
  /\ op[t].state = "fetch"
  /\ \/ /\ issued < MaxTokens
        /\ issued' = issued + 1
        /\ Hold(t, issued + 1)
        /\ UNCHANGED reused
     \/ \E token \in 1..issued :
          /\ reused' = reused \union {token}
          /\ Hold(t, token)
          /\ UNCHANGED issued
  /\ UNCHANGED <<cache, refusedUpTo>>

FetchFails(t) ==
  /\ op[t].state = "fetch"
  /\ To(t, "noCredentials")
  /\ UNCHANGED <<cache, issued, reused, refusedUpTo>>

Store(t) ==
  /\ op[t].state = "store"
  /\ cache' = op[t].token
  /\ To(t, "try")
  /\ UNCHANGED <<issued, reused, refusedUpTo>>

CredentialStep(t) == LookUp(t) \/ Fetch(t) \/ FetchFails(t) \/ Store(t)

-----------------------------------------------------------------------------
Accepted(t) == op[t].token > refusedUpTo

Succeed(t) ==
  /\ op[t].state = "try"
  /\ Accepted(t)
  /\ To(t, "ok")
  /\ UNCHANGED <<cache, issued, reused, refusedUpTo>>

\* A second refusal is given to the caller.
Refuse(t) ==
  /\ op[t].state = "try"
  /\ ~Accepted(t)
  /\ To(t, IF op[t].refused = 0 THEN "refused" ELSE "unauthorized")
  /\ UNCHANGED <<cache, issued, reused, refusedUpTo>>

\* A transient failure is tried again from the credentials on.
FailTransiently(t) ==
  /\ op[t].state = "try"
  /\ IF op[t].retries = 0
       THEN To(t, "unavailable")
       ELSE op' = [op EXCEPT ![t].state = "credentials", ![t].retries = @ - 1]
  /\ UNCHANGED <<cache, issued, reused, refusedUpTo>>

\* A repository that is not there is not tried again.
FailForGood(t) ==
  /\ op[t].state = "try"
  /\ To(t, "unavailable")
  /\ UNCHANGED <<cache, issued, reused, refusedUpTo>>

StartAgain(t) == [Starting EXCEPT !.refused = op[t].token]

\* Mutant: the token refused is left in the cache.
KeepToken(t) ==
  /\ op[t].state = "refused"
  /\ op' = [op EXCEPT ![t] = StartAgain(t)]
  /\ UNCHANGED <<cache, issued, reused, refusedUpTo>>

\* The first refusal drops whatever is cached by then and starts a new round.
Invalidate(t) ==
  /\ op[t].state = "refused"
  /\ cache' = 0
  /\ op' = [op EXCEPT ![t] = StartAgain(t)]
  /\ UNCHANGED <<issued, reused, refusedUpTo>>

TryStep(t) ==
  \/ Succeed(t) \/ Refuse(t) \/ FailTransiently(t) \/ FailForGood(t)
  \/ Invalidate(t)

-----------------------------------------------------------------------------
Age ==
  /\ cache # 0
  /\ cache' = 0
  /\ UNCHANGED <<issued, reused, refusedUpTo, op>>

Revoke ==
  /\ refusedUpTo < issued
  /\ refusedUpTo' = issued
  /\ UNCHANGED <<cache, issued, reused, op>>

TokenEnvironment == Age \/ Revoke

\* An operation refused its token goes on with another one and never comes back
\* to it, nor leaves it to the next operation, whatever other threads fetch,
\* cache and drop meanwhile (the cache's lock is let go of for the fetch, and
\* dropping the token is a step of its own); unless idcat has handed that token
\* out again, when the one refetch may bring it back.
RefusedIsReplaced ==
  \A t \in Thread :
    op[t].refused \notin reused \union {0} => op[t].refused \notin {op[t].token, cache}

\* What makes it last: a token about to be stored that was handed out once is
\* known to its thread alone, so that nobody can have been refused it before it
\* is in the cache.
StoringIsAlone ==
  \A t \in Thread :
    op[t].state = "store" =>
      /\ op[t].token # 0
      /\ op[t].token \notin reused =>
           /\ op[t].token # cache
           /\ \A u \in Thread :
                /\ op[u].refused # op[t].token
                /\ u # t => op[u].token # op[t].token

KnownTokensIssued ==
  /\ cache <= issued
  /\ \A t \in Thread : op[t].token <= issued /\ op[t].refused <= issued

TokenInvariant ==
  /\ TokenTypeOK
  /\ KnownTokensIssued
  /\ StoringIsAlone
  /\ RefusedIsReplaced
==============================================================================

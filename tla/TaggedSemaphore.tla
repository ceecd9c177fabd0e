-------------------------- MODULE TaggedSemaphore ---------------------------
(***************************************************************************)
(* solutions::TaggedSemaphore of condvar/semaphore/tagged_semaphore.hpp:   *)
(* semaphores of one tag whose permits are tokens.  The compiler sees that *)
(* tokens are not copied; that they are released once and not dropped is   *)
(* left to asserts.  The users of the model make these mistakes.  A thread *)
(* has in its scope a token it acquired and one moved from it, or a Guard. *)
(***************************************************************************)
EXTENDS Integers, FiniteSetsExt

CONSTANTS Users, Tagged, Tokens

ASSUME TaggedAssumption == IsFiniteSet(Users) /\ IsFiniteSet(Tagged) /\ Tokens \in Nat

VARIABLES
    permits, sleepers,  \* impl_ of each semaphore
    token,          \* the tokens of each thread: "none", "valid", "invalid"
    guard,          \* the semaphores whose Guard each thread has
    call,           \* the call each thread is in
    aborted         \* an assert has failed: the program is over

taggedVars == <<permits, sleepers, token, guard, call, aborted>>

Impl == INSTANCE Semaphore
        WITH Semaphores <- Tagged, counter <- permits, waiting <- sleepers

TaggedInit ==
    /\ Impl!SemInit([s \in Tagged |-> Tokens])
    /\ token = [t \in Users |-> [own |-> "none", moved |-> "none"]]
    /\ guard = [t \in Users |-> {}]
    /\ call = [t \in Users |-> <<"none">>]
    /\ aborted = FALSE

Calls(t, from, to) == ~aborted /\ call[t] = from /\ call' = [call EXCEPT ![t] = to]

Owns(t) == token[t] # [own |-> "none", moved |-> "none"]

(* Acquire, or Acquire in the constructor of the Guard that MakeGuard makes. *)
AcquireToken(t, s) ==
    /\ ~Owns(t)
    /\ Calls(t, <<"none">>, <<"Acquire", s>>)
    /\ guard' \in {guard, [guard EXCEPT ![t] = {s}]}
    /\ UNCHANGED <<permits, sleepers, token, aborted>>

(* impl_.Acquire(); return Token{} *)
AcquireReturns(t, s) ==
    /\ \/ /\ Calls(t, <<"Acquire", s>>, <<"none">>)
          /\ Impl!AcquireTakes(s, t)
          /\ token' = [token EXCEPT ![t].own = "valid"]
       \/ /\ Calls(t, <<"Acquire", s>>, <<"Acquire", s>>)
          /\ Impl!AcquireWaits(s, t) \/ Impl!SpuriousWakeup(s, t)
          /\ UNCHANGED token
    /\ UNCHANGED <<guard, aborted>>

(* Mutant of Invalidate: nothing is asserted. *)
InvalidateUnchecked(t, k, moved) ==
    /\ token' = [token EXCEPT ![t].moved = moved, ![t][k] = "invalid"]
    /\ UNCHANGED aborted

(* assert(valid_); valid_ = false.  The parameter moved is what the token  *)
(* moved holds afterwards, for the move constructor.                       *)
Invalidate(t, k, moved) ==
    IF token[t][k] = "valid"
    THEN /\ token' = [token EXCEPT ![t].moved = moved, ![t][k] = "invalid"]
         /\ UNCHANGED aborted
    ELSE aborted' = TRUE /\ UNCHANGED token

(* Token(Token&& that); the move of an invalid token fails its assert. *)
MoveToken(t) ==
    /\ Owns(t) /\ guard[t] = {} /\ token[t].moved = "none"
    /\ Calls(t, <<"none">>, <<"none">>)
    /\ Invalidate(t, "own", "valid")
    /\ UNCHANGED <<permits, sleepers, guard>>

(* Release(std::move(token)) into any semaphore of the tag; ~Guard into    *)
(* its host.  impl_.Release() comes before the token is looked at.         *)
ReleaseImpl(t, s, k) ==
    /\ token[t][k] # "none"
    /\ guard[t] # {} => s \in guard[t] /\ token[t].own = "valid"
    /\ Calls(t, <<"none">>, <<"Invalidate", k>>)
    /\ Impl!Release(s)
    /\ UNCHANGED <<token, guard, aborted>>

ReleaseInvalidates(t, k) ==
    /\ Calls(t, <<"Invalidate", k>>, <<"none">>)
    /\ Invalidate(t, k, token[t].moved)
    /\ UNCHANGED <<permits, sleepers, guard>>

(* The end of a scope: ~Token asserts that each token is invalid. *)
DestroyTokens(t) ==
    /\ Owns(t) /\ (guard[t] # {} => token[t].own = "invalid")
    /\ Calls(t, <<"none">>, <<"none">>)
    /\ aborted' = ("valid" \in {token[t].own, token[t].moved})
    /\ token' = [token EXCEPT ![t] = [own |-> "none", moved |-> "none"]]
    /\ guard' = [guard EXCEPT ![t] = {}]
    /\ UNCHANGED <<permits, sleepers>>

TaggedNext == \E t \in Users :
    \/ \E s \in Tagged : AcquireToken(t, s) \/ AcquireReturns(t, s)
    \/ MoveToken(t) \/ DestroyTokens(t)
    \/ \E k \in {"own", "moved"} :
           ReleaseInvalidates(t, k) \/ \E s \in Tagged : ReleaseImpl(t, s, k)

TaggedSpec == TaggedInit /\ [][TaggedNext]_taggedVars

----------------------------------------------------------------------------
FreePermits == UNION {{s} \X (1..permits[s]) : s \in Tagged}

ValidTokens == {x \in Users \X {"own", "moved"} : token[x[1]][x[2]] = "valid"}

Invalidating == {t \in Users : call[t][1] = "Invalidate"}

(* Tokens are neither lost nor made out of thin air, whichever semaphore   *)
(* of the tag they return to and whatever mistakes the users make: until   *)
(* an assert fails there are as many permits and valid tokens as the       *)
(* constructors handed out, and one more for each Release that has not yet *)
(* looked at its token (tagged_semaphore.hpp:70-73, readme.md:49-54).      *)
TokensConserved ==
    ~aborted =>
        Cardinality(FreePermits) + Cardinality(ValidTokens)
            = Tokens * Cardinality(Tagged) + Cardinality(Invalidating)
=============================================================================

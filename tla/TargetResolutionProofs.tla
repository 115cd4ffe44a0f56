----------------------- MODULE TargetResolutionProofs -----------------------
(***************************************************************************)
(* The resolution of a target follows the agent list as it should, for     *)
(* every list.  The argument is on the set of matches alone: what          *)
(* resolveTarget answers is decided by whether that set is empty, a        *)
(* singleton or larger, and joining, leaving and shuffling change the set  *)
(* in a way that can be said exactly.                                      *)
(***************************************************************************)
EXTENDS LiveAgents, TLAPS

-----------------------------------------------------------------------------
(* The four answers of resolveTarget, each with its condition.             *)

(* A target whose home denotes no directory is refused, whoever is listed. *)
LEMMA BadHome ==
  ASSUME NEW t, NEW list,
         canonicalAbsolutePath(t.firstmateHome) = NoDirectory
  PROVE resolveTarget(t, list) = Unresolved("CONFIG_INVALID")
  BY DEF resolveTarget

(* No match: not found.                                                    *)
LEMMA NoMatch ==
  ASSUME NEW t, NEW list,
         canonicalAbsolutePath(t.firstmateHome) # NoDirectory,
         matches(t, list) = {}
  PROVE resolveTarget(t, list) = Unresolved("TARGET_NOT_FOUND")
  BY DEF resolveTarget

(* Two matches: ambiguous.                                                 *)
LEMMA TwoMatches ==
  ASSUME NEW t, NEW list,
         canonicalAbsolutePath(t.firstmateHome) # NoDirectory,
         NEW i \in matches(t, list), NEW j \in matches(t, list), i # j
  PROVE resolveTarget(t, list) = Unresolved("TARGET_AMBIGUOUS")
  BY DEF resolveTarget

(* One match: that agent.                                                  *)
LEMMA OneMatch ==
  ASSUME NEW t, NEW list,
         canonicalAbsolutePath(t.firstmateHome) # NoDirectory,
         NEW i \in matches(t, list), \A j \in matches(t, list) : j = i
  PROVE resolveTarget(t, list) = Resolved(list[i])
  <1>1. matches(t, list) = {i}
    OBVIOUS
  <1>2. (CHOOSE k \in matches(t, list) : TRUE) = i
    BY <1>1
  <1>. QED
    BY <1>1, <1>2 DEF resolveTarget

(* The answers differ.                                                     *)
LEMMA AnswersDiffer ==
  /\ \A a : Resolved(a).ok /\ Resolved(a).agent = a
  /\ \A c : ~ Unresolved(c).ok /\ Unresolved(c).code = c
  BY DEF Resolved, Unresolved

(* Whoever is found is the one match.                                      *)
LEMMA FoundIsTheMatch ==
  ASSUME NEW t, NEW list, resolveTarget(t, list).ok
  PROVE /\ canonicalAbsolutePath(t.firstmateHome) # NoDirectory
        /\ \E i \in matches(t, list) :
             /\ \A j \in matches(t, list) : j = i
             /\ resolveTarget(t, list) = Resolved(list[i])
  <1>1. canonicalAbsolutePath(t.firstmateHome) # NoDirectory
    BY BadHome, AnswersDiffer
  <1>2. PICK i \in matches(t, list) : TRUE
    BY <1>1, NoMatch, AnswersDiffer
  <1>3. \A j \in matches(t, list) : j = i
    BY <1>1, <1>2, TwoMatches, AnswersDiffer
  <1>. QED
    BY <1>1, <1>2, <1>3, OneMatch

(* Nothing is found exactly when nothing matches.                          *)
LEMMA NotFoundMeansNone ==
  ASSUME NEW t, NEW list, resolveTarget(t, list) = Unresolved("TARGET_NOT_FOUND")
  PROVE /\ canonicalAbsolutePath(t.firstmateHome) # NoDirectory
        /\ matches(t, list) = {}
  <1>1. canonicalAbsolutePath(t.firstmateHome) # NoDirectory
    BY BadHome, AnswersDiffer, "CONFIG_INVALID" # "TARGET_NOT_FOUND"
  <1>2. ASSUME NEW i \in matches(t, list)
        PROVE FALSE
    <2>1. CASE \A j \in matches(t, list) : j = i
      BY <1>1, <1>2, <2>1, OneMatch, AnswersDiffer
    <2>2. CASE \E j \in matches(t, list) : j # i
      BY <1>1, <1>2, <2>2, TwoMatches, AnswersDiffer, "TARGET_AMBIGUOUS" # "TARGET_NOT_FOUND"
    <2>. QED
      BY <2>1, <2>2
  <1>. QED
    BY <1>1, <1>2

-----------------------------------------------------------------------------
(* What joining, leaving and shuffling do to the list.                     *)

LEMMA JoinedList ==
  ASSUME NEW S, NEW list \in Seq(S), NEW a \in S
  PROVE /\ Append(list, a) \in Seq(S)
        /\ DOMAIN Append(list, a) = DOMAIN list \cup {Len(list) + 1}
        /\ Len(Append(list, a)) = Len(list) + 1
        /\ \A i \in DOMAIN list : Append(list, a)[i] = list[i]
        /\ Append(list, a)[Len(list) + 1] = a
  OBVIOUS

LEMMA ShorterList ==
  ASSUME NEW S, NEW list \in Seq(S), NEW i \in DOMAIN list
  PROVE /\ Without(list, i) \in Seq(S)
        /\ DOMAIN Without(list, i) = 1 .. Len(list) - 1
        /\ Len(Without(list, i)) = Len(list) - 1
        /\ \A j \in 1 .. Len(list) - 1 :
             Without(list, i)[j] = list[IF j < i THEN j ELSE j + 1]
  BY DEF Without

(* Joining leaves every earlier match and adds at most the newcomer.       *)
LEMMA MatchesAfterJoin ==
  ASSUME NEW S, NEW list \in Seq(S), NEW a \in S, NEW t
  PROVE /\ matches(t, list) \subseteq matches(t, Append(list, a))
        /\ matches(t, Append(list, a)) \subseteq matches(t, list) \cup {Len(list) + 1}
  BY JoinedList DEF matches

(* The places of the agents that stay, and what stays at each.             *)
LEMMA Staying ==
  ASSUME NEW S, NEW list \in Seq(S), NEW i \in DOMAIN list,
         NEW k \in DOMAIN list, k # i
  PROVE \E j \in DOMAIN Without(list, i) :
          /\ k = IF j < i THEN j ELSE j + 1
          /\ Without(list, i)[j] = list[k]
  <1>. DEFINE j == IF k < i THEN k ELSE k - 1
  <1>1. j \in 1 .. Len(list) - 1 /\ k = (IF j < i THEN j ELSE j + 1)
    OBVIOUS
  <1>. HIDE DEF j
  <1>. QED
    BY <1>1, ShorterList

LEMMA WhereFrom ==
  ASSUME NEW S, NEW list \in Seq(S), NEW i \in DOMAIN list,
         NEW j \in DOMAIN Without(list, i)
  PROVE \E k \in DOMAIN list :
          /\ k # i
          /\ k = IF j < i THEN j ELSE j + 1
          /\ Without(list, i)[j] = list[k]
  <1>1. j \in 1 .. Len(list) - 1
    BY ShorterList
  <1>. DEFINE k == IF j < i THEN j ELSE j + 1
  <1>2. k \in DOMAIN list /\ k # i
    BY <1>1
  <1>. QED
    BY <1>1, <1>2, ShorterList

(* Leaving adds no match.                                                  *)
LEMMA MatchesAfterLeave ==
  ASSUME NEW S, NEW list \in Seq(S), NEW i \in DOMAIN list, NEW t,
         NEW j \in matches(t, Without(list, i))
  PROVE \E k \in matches(t, list) :
          /\ k = IF j < i THEN j ELSE j + 1
          /\ Without(list, i)[j] = list[k]
  <1>1. j \in DOMAIN Without(list, i) /\ isIdentityMatch(t, Without(list, i)[j])
    BY DEF matches
  <1>2. PICK k \in DOMAIN list :
          k = (IF j < i THEN j ELSE j + 1) /\ Without(list, i)[j] = list[k]
    BY <1>1, WhereFrom
  <1>. QED
    BY <1>1, <1>2 DEF matches

-----------------------------------------------------------------------------
(* The list stays a list of agents Herdr may list, each pane once.         *)
THEOREM ListTyped == Spec => []TypeOK
  <1>1. Init => TypeOK
    BY DEF Init, TypeOK
  <1>2. TypeOK /\ [Next]_vars => TypeOK'
    <2>. SUFFICES ASSUME TypeOK, [Next]_vars
                  PROVE TypeOK'
      OBVIOUS
    <2>1. ASSUME NEW agent \in Listable, Join(agent)
          PROVE TypeOK'
      <3>1. /\ agents' \in Seq(Listable)
            /\ DOMAIN agents' = DOMAIN agents \cup {Len(agents) + 1}
            /\ \A i \in DOMAIN agents : agents'[i] = agents[i]
            /\ agents'[Len(agents) + 1] = agent
        BY <2>1, JoinedList DEF Join, TypeOK
      <3>2. \A i, j \in DOMAIN agents' : agents'[i].paneId = agents'[j].paneId => i = j
        BY <2>1, <3>1 DEF Join, TypeOK
      <3>. QED
        BY <2>1, <3>1, <3>2 DEF Join, TypeOK
    <2>2. ASSUME NEW i \in DOMAIN agents, Leave(i)
          PROVE TypeOK'
      <3>1. agents' = Without(agents, i) /\ agents \in Seq(Listable)
        BY <2>2 DEF Leave, TypeOK
      <3>2. agents' \in Seq(Listable)
        BY <3>1, ShorterList
      <3>3. ASSUME NEW p \in DOMAIN agents', NEW q \in DOMAIN agents',
                   agents'[p].paneId = agents'[q].paneId
            PROVE p = q
        <4>1. PICK k \in DOMAIN agents :
                k = (IF p < i THEN p ELSE p + 1) /\ agents'[p] = agents[k]
          BY <3>1, <3>3, WhereFrom
        <4>2. PICK l \in DOMAIN agents :
                l = (IF q < i THEN q ELSE q + 1) /\ agents'[q] = agents[l]
          BY <3>1, <3>3, WhereFrom
        <4>3. k = l
          BY <3>3, <4>1, <4>2 DEF TypeOK
        <4>4. p \in Nat /\ q \in Nat /\ i \in Nat
          BY <3>1, <3>2, <3>3
        <4>. QED
          BY <4>1, <4>2, <4>3, <4>4
      <3>. QED
        BY <2>2, <3>2, <3>3 DEF Leave, TypeOK
    <2>3. CASE UNCHANGED vars
      BY <2>3 DEF vars, TypeOK
    <2>. QED
      BY <2>1, <2>2, <2>3 DEF Next
  <1>. QED
    BY <1>1, <1>2, PTL DEF Spec

-----------------------------------------------------------------------------
(* Whoever is found works in the configured home, on the strongest         *)
(* evidence there is; and matches, for any list.                           *)
LEMMA MatchWorksThere ==
  ASSUME NEW t, NEW a, isIdentityMatch(t, a),
         canonicalAbsolutePath(t.firstmateHome) # NoDirectory
  PROVE LET evidence == IF a.foregroundCwd = Absent THEN a.cwd ELSE a.foregroundCwd
        IN /\ a.agent = t.agent
           /\ evidence # Absent
           /\ Canonical[evidence] = Canonical[t.firstmateHome]
           /\ Canonical[evidence] # NoDirectory
  BY DEF isIdentityMatch, candidateCwd, canonicalAbsolutePath

(* The agent found works in the configured home, for every list of agents  *)
(* and every target (FoundWhereItWorks).                                   *)
THEOREM FoundAtHome == Spec => []FoundWhereItWorks
  <1>1. FoundWhereItWorks
    <2>. SUFFICES ASSUME Now.ok
                  PROVE LET evidence == IF Now.agent.foregroundCwd = Absent
                                        THEN Now.agent.cwd
                                        ELSE Now.agent.foregroundCwd
                        IN /\ Now.agent.agent = target.agent
                           /\ evidence # Absent
                           /\ Canonical[evidence] = Canonical[target.firstmateHome]
                           /\ Canonical[evidence] # NoDirectory
      BY DEF FoundWhereItWorks
    <2>1. canonicalAbsolutePath(target.firstmateHome) # NoDirectory
      BY FoundIsTheMatch DEF Now
    <2>2. PICK i \in matches(target, agents) : Now = Resolved(agents[i])
      BY FoundIsTheMatch DEF Now
    <2>3. Now.agent = agents[i] /\ isIdentityMatch(target, agents[i])
      BY <2>2, AnswersDiffer DEF matches
    <2>. HIDE DEF Now
    <2>. QED
      BY <2>1, <2>3, MatchWorksThere
  <1>. QED
    BY <1>1, PTL

-----------------------------------------------------------------------------
(* A rearranged list has the same matches, at other places.                *)
LEMMA ShufflingChangesNothing ==
  ASSUME NEW t, NEW list, NEW other, NEW shuffle \in Bijection(DOMAIN list, DOMAIN list),
         DOMAIN other = DOMAIN list,
         \A i \in DOMAIN list : other[i] = list[shuffle[i]]
  PROVE resolveTarget(t, other) = resolveTarget(t, list)
  <1>1. /\ \A i \in matches(t, other) : shuffle[i] \in matches(t, list) /\ other[i] = list[shuffle[i]]
        /\ \A i, j \in matches(t, other) : shuffle[i] = shuffle[j] => i = j
        /\ \A k \in matches(t, list) : \E i \in matches(t, other) : shuffle[i] = k
    <2>1. /\ shuffle \in [DOMAIN list -> DOMAIN list]
          /\ \A i, j \in DOMAIN list : shuffle[i] = shuffle[j] => i = j
          /\ \A k \in DOMAIN list : \E i \in DOMAIN list : shuffle[i] = k
      BY DEF Bijection, Injection, Surjection, IsInjective
    <2>. QED
      BY <2>1 DEF matches
  <1>2. CASE canonicalAbsolutePath(t.firstmateHome) = NoDirectory
    BY <1>2, BadHome
  <1>3. CASE canonicalAbsolutePath(t.firstmateHome) # NoDirectory /\ matches(t, list) = {}
    <2>1. matches(t, other) = {}
      BY <1>1, <1>3
    <2>. QED
      BY <1>3, <2>1, NoMatch
  <1>4. ASSUME canonicalAbsolutePath(t.firstmateHome) # NoDirectory,
               NEW k \in matches(t, list), \A l \in matches(t, list) : l = k
        PROVE resolveTarget(t, other) = resolveTarget(t, list)
    <2>1. PICK i \in matches(t, other) : shuffle[i] = k
      BY <1>1, <1>4
    <2>2. \A j \in matches(t, other) : j = i
      BY <1>1, <1>4, <2>1
    <2>3. resolveTarget(t, other) = Resolved(other[i])
      BY <1>4, <2>2, OneMatch
    <2>4. resolveTarget(t, list) = Resolved(list[k])
      BY <1>4, OneMatch
    <2>. QED
      BY <1>1, <2>1, <2>3, <2>4
  <1>5. ASSUME canonicalAbsolutePath(t.firstmateHome) # NoDirectory,
               NEW k \in matches(t, list), NEW l \in matches(t, list), l # k
        PROVE resolveTarget(t, other) = resolveTarget(t, list)
    <2>1. PICK i \in matches(t, other) : shuffle[i] = k
      BY <1>1, <1>5
    <2>2. PICK j \in matches(t, other) : shuffle[j] = l
      BY <1>1, <1>5
    <2>3. i # j
      BY <1>5, <2>1, <2>2
    <2>4. resolveTarget(t, other) = Unresolved("TARGET_AMBIGUOUS")
      BY <1>5, <2>3, TwoMatches
    <2>5. resolveTarget(t, list) = Unresolved("TARGET_AMBIGUOUS")
      BY <1>5, TwoMatches
    <2>. QED
      BY <2>4, <2>5
  <1>. QED
    BY <1>2, <1>3, <1>4, <1>5, Zenon

(* The order in which Herdr lists its agents means nothing: for every list *)
(* reachable and every rearrangement of it (OrderIsIrrelevant).            *)
THEOREM AnyOrder == Spec => []OrderIsIrrelevant
  <1>1. ASSUME NEW shuffle \in Bijection(DOMAIN agents, DOMAIN agents)
        PROVE resolveTarget(target, [i \in DOMAIN agents |-> agents[shuffle[i]]])
                = resolveTarget(target, agents)
    <2>. DEFINE other == [i \in DOMAIN agents |-> agents[shuffle[i]]]
    <2>1. DOMAIN other = DOMAIN agents /\ \A i \in DOMAIN agents : other[i] = agents[shuffle[i]]
      OBVIOUS
    <2>. HIDE DEF other
    <2>2. resolveTarget(target, other) = resolveTarget(target, agents)
      BY <2>1, ShufflingChangesNothing
    <2>. QED
      BY <2>2 DEF other
  <1>2. OrderIsIrrelevant
    BY <1>1 DEF OrderIsIrrelevant, Now
  <1>. QED
    BY <1>2, PTL

-----------------------------------------------------------------------------
(* A newcomer never changes who is found: the answer stays or becomes      *)
(* ambiguous.                                                              *)
LEMMA JoiningNeverRedirects ==
  ASSUME NEW S, NEW list \in Seq(S), NEW a \in S, NEW t, resolveTarget(t, list).ok
  PROVE resolveTarget(t, Append(list, a)) \in {resolveTarget(t, list), Unresolved("TARGET_AMBIGUOUS")}
  <1>1. canonicalAbsolutePath(t.firstmateHome) # NoDirectory
    BY FoundIsTheMatch
  <1>2. PICK i \in matches(t, list) :
          /\ \A j \in matches(t, list) : j = i
          /\ resolveTarget(t, list) = Resolved(list[i])
    BY FoundIsTheMatch
  <1>3. i \in DOMAIN list /\ i \in matches(t, Append(list, a)) /\ Append(list, a)[i] = list[i]
    BY MatchesAfterJoin, JoinedList DEF matches
  <1>4. CASE \A j \in matches(t, Append(list, a)) : j = i
    BY <1>1, <1>2, <1>3, <1>4, OneMatch
  <1>5. CASE \E j \in matches(t, Append(list, a)) : j # i
    BY <1>1, <1>3, <1>5, TwoMatches
  <1>. QED
    BY <1>4, <1>5

(* The going of another agent never changes who is found.                  *)
LEMMA LeavingNeverRedirects ==
  ASSUME NEW S, NEW list \in Seq(S), NEW i \in DOMAIN list, NEW t,
         resolveTarget(t, list).ok,
         NEW s \in DOMAIN Without(list, i),
         Without(list, i)[s] = resolveTarget(t, list).agent
  PROVE resolveTarget(t, Without(list, i)) = resolveTarget(t, list)
  <1>1. canonicalAbsolutePath(t.firstmateHome) # NoDirectory
    BY FoundIsTheMatch
  <1>2. PICK m \in matches(t, list) :
          /\ \A k \in matches(t, list) : k = m
          /\ resolveTarget(t, list) = Resolved(list[m])
    BY FoundIsTheMatch
  <1>3. m \in DOMAIN list /\ isIdentityMatch(t, list[m])
    BY DEF matches
  <1>4. PICK k \in DOMAIN list : k # i /\ Without(list, i)[s] = list[k]
    BY WhereFrom
  <1>5. list[k] = list[m]
    BY <1>2, <1>4, AnswersDiffer
  <1>6. k \in matches(t, list)
    BY <1>3, <1>4, <1>5 DEF matches
  <1>7. m # i
    BY <1>2, <1>4, <1>6
  <1>8. PICK j \in DOMAIN Without(list, i) :
          m = (IF j < i THEN j ELSE j + 1) /\ Without(list, i)[j] = list[m]
    BY <1>3, <1>7, Staying
  <1>9. j \in matches(t, Without(list, i))
    BY <1>3, <1>8 DEF matches
  <1>10. ASSUME NEW j2 \in matches(t, Without(list, i))
         PROVE j2 = j
    <2>1. PICK k2 \in matches(t, list) : k2 = IF j2 < i THEN j2 ELSE j2 + 1
      BY MatchesAfterLeave
    <2>2. k2 = m
      BY <1>2
    <2>3. j2 \in DOMAIN Without(list, i)
      BY DEF matches
    <2>4. j \in Nat /\ j2 \in Nat /\ i \in Nat
      <3>1. DOMAIN Without(list, i) = 1 .. Len(list) - 1
        BY ShorterList
      <3>. QED
        BY <2>3, <3>1
    <2>. QED
      BY <1>8, <2>1, <2>2, <2>4
  <1>11. resolveTarget(t, Without(list, i)) = Resolved(Without(list, i)[j])
    BY <1>1, <1>9, <1>10, OneMatch
  <1>. QED
    BY <1>2, <1>8, <1>11

(* Nothing is found because somebody left.                                 *)
LEMMA LeavingFindsNobody ==
  ASSUME NEW S, NEW list \in Seq(S), NEW i \in DOMAIN list, NEW t,
         resolveTarget(t, list) = Unresolved("TARGET_NOT_FOUND")
  PROVE resolveTarget(t, Without(list, i)) = resolveTarget(t, list)
  <1>1. canonicalAbsolutePath(t.firstmateHome) # NoDirectory /\ matches(t, list) = {}
    BY NotFoundMeansNone
  <1>2. matches(t, Without(list, i)) = {}
    BY <1>1, MatchesAfterLeave
  <1>. QED
    BY <1>1, <1>2, NoMatch

(* A resolved target is never redirected by the coming or going of another *)
(* agent, for any agents and any length of the list (OthersNeverRedirect). *)
THEOREM NeverRedirected == Spec => OthersNeverRedirect
  <1>. DEFINE Kept ==
         /\ Now.ok /\ Len(agents') > Len(agents) => Now' \in {Now, Unresolved("TARGET_AMBIGUOUS")}
         /\ Now.ok /\ (\E i \in DOMAIN agents' : agents'[i] = Now.agent) /\ Len(agents') < Len(agents) => Now' = Now
         /\ Now = Unresolved("TARGET_NOT_FOUND") /\ Len(agents') < Len(agents) => Now' = Now
  <1>1. TypeOK /\ [Next]_vars => [Kept]_vars
    <2>. SUFFICES ASSUME TypeOK, Next
                  PROVE Kept
      OBVIOUS
    <2>0. agents \in Seq(Listable) /\ Len(agents) \in Nat
      BY DEF TypeOK
    <2>1. ASSUME NEW agent \in Listable, Join(agent)
          PROVE Kept
      <3>1. /\ agents' = Append(agents, agent) /\ target' = target
            /\ Now' = resolveTarget(target, Append(agents, agent))
            /\ Now = resolveTarget(target, agents)
        BY <2>1 DEF Join, Now
      <3>2. Len(agents') = Len(agents) + 1
        BY <2>0, <3>1
      <3>3. Now.ok => Now' \in {Now, Unresolved("TARGET_AMBIGUOUS")}
        BY <2>0, <3>1, JoiningNeverRedirects
      <3>. HIDE DEF Now
      <3>. QED
        BY <2>0, <3>2, <3>3
    <2>2. ASSUME NEW i \in DOMAIN agents, Leave(i)
          PROVE Kept
      <3>1. /\ agents' = Without(agents, i) /\ target' = target
            /\ Now' = resolveTarget(target, Without(agents, i))
            /\ Now = resolveTarget(target, agents)
        BY <2>2 DEF Leave, Now
      <3>2. Len(agents') = Len(agents) - 1
        BY <2>0, <3>1, ShorterList
      <3>3. Now.ok /\ (\E s \in DOMAIN agents' : agents'[s] = Now.agent) => Now' = Now
        BY <2>0, <3>1, LeavingNeverRedirects
      <3>4. Now = Unresolved("TARGET_NOT_FOUND") => Now' = Now
        BY <2>0, <3>1, LeavingFindsNobody
      <3>. HIDE DEF Now
      <3>. QED
        BY <2>0, <3>2, <3>3, <3>4
    <2>. QED
      BY <2>1, <2>2 DEF Next
  <1>. QED
    BY <1>1, ListTyped, PTL DEF Spec, OthersNeverRedirect

=============================================================================

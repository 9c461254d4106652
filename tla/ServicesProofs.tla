--------------------------- MODULE ServicesProofs ---------------------------
(***************************************************************************)
(* The safety invariants of the parts that answer one call at a time.  A   *)
(* step of Services is a step of one part and leaves the others alone      *)
(* (StepOfOne), so each invariant is shown to be kept by the steps of its  *)
(* own part.                                                               *)
(***************************************************************************)
EXTENDS Services, FiniteSetTheorems, SequenceTheorems, TLAPS

LEMMA StepOfOne ==
  ASSUME [Next]_svars
  PROVE  /\ [ModelNext]_models /\ [ImageNext]_image
         /\ [FormatNext]_parser /\ [CronNext]_cron
BY DEF Next, svars

-----------------------------------------------------------------------------
(* The requests to the models: FailoverRouter.                             *)

Asked == {"primary", "fallback"}
FailureClass == {"overflow", "transient", "hard"}

\* The first n failures of a chat() are the primary's, the others the fallback's.
Chain(l, n) ==
  /\ l \in Seq([who : Asked, class : FailureClass]) /\ n \in 0..Len(l)
  /\ \A i \in 1..Len(l) : l[i].who = IF i <= n THEN "primary" ELSE "fallback"

\* A provider is asked again after what may pass, max_retries + 1 times at most; the
\* fallback once the primary has failed for good.
ChatInv ==
  /\ kinds.fallback = "none" => who # "fallback"
  /\ who \in Asked \cup {"nobody"} /\ attempt \in Nat
  /\ who = "primary" =>
       /\ outcome = "none" /\ Chain(log, Len(log))
       /\ attempt = Len(log) + 1 /\ attempt <= Retries + 1
       /\ \A i \in 1..Len(log) : log[i].class = "transient"
  /\ who = "fallback" =>
       /\ outcome = "none"
       /\ \E n \in 1..Len(log) :
            /\ Chain(log, n) /\ n <= Retries + 1
            /\ log[n].class = "hard" \/ (log[n].class = "transient" /\ n = Retries + 1)
            /\ attempt = Len(log) - n + 1 /\ attempt <= Retries + 1
            /\ \A i \in 1..Len(log) : i # n => log[i].class = "transient"
  /\ FailoverDecides

\* The rules of FailoverDecides, of any list of failures.
OfIn(l, p) == {i \in DOMAIN l : l[i].who = p}
ExhaustedIn(l, p) ==
  OfIn(l, p) # {} /\ (l[Max(OfIn(l, p))].class = "hard" \/ Cardinality(OfIn(l, p)) = Retries + 1)
Rules(l) ==
  /\ \A p \in Asked : Cardinality(OfIn(l, p)) <= Retries + 1
  /\ \A i \in 1..(Len(l) - 1) :
       l[i].class = "transient" \/ (l[i].class = "hard" /\ l[i].who # l[i + 1].who)
  /\ OfIn(l, "fallback") # {} => ExhaustedIn(l, "primary")
Verdict(l, how, second) ==
  /\ how = "overflow" => l # <<>> /\ l[Len(l)].class = "overflow"
  /\ how = "error" => ExhaustedIn(l, IF second = "none" THEN "primary" ELSE "fallback")

LEMMA DecidesIsRules ==
  /\ FailoverDecides <=> Rules(log) /\ Verdict(log, outcome, kinds.fallback)
  /\ FailoverDecides' <=> Rules(log') /\ Verdict(log', outcome', kinds'.fallback)
BY DEF FailoverDecides, Of, Exhausted, Rules, Verdict, OfIn, ExhaustedIn, Asked

LEMMA MaxOfInterval == ASSUME NEW m \in Int, NEW n \in Int, m <= n PROVE Max(m..n) = n
<1>1. n \in m..n /\ \A i \in m..n : n >= i
  OBVIOUS
<1>2. \A k \in m..n : (\A i \in m..n : k >= i) => k = n
  BY <1>1
<1>. QED BY <1>1, <1>2 DEF Max

\* The two parts of a chain.
LEMMA ChainParts ==
  ASSUME NEW l, NEW n, Chain(l, n)
  PROVE  /\ Len(l) \in Nat /\ n \in Nat /\ n <= Len(l)
         /\ OfIn(l, "primary") = 1..n /\ OfIn(l, "fallback") = n + 1..Len(l)
         /\ Cardinality(OfIn(l, "primary")) = n
         /\ Cardinality(OfIn(l, "fallback")) = Len(l) - n
         /\ n > 0 => Max(OfIn(l, "primary")) = n
         /\ n < Len(l) => Max(OfIn(l, "fallback")) = Len(l)
<1>1. /\ Len(l) \in Nat /\ n \in Nat /\ n <= Len(l) /\ DOMAIN l = 1..Len(l)
      /\ \A i \in 1..Len(l) : l[i].who = IF i <= n THEN "primary" ELSE "fallback"
  BY DEF Chain
<1>2. OfIn(l, "primary") = 1..n /\ OfIn(l, "fallback") = n + 1..Len(l)
  BY <1>1 DEF OfIn
<1>3. Cardinality(1..n) = n /\ Cardinality(n + 1..Len(l)) = Len(l) - n
  <2>1. 1 \in Int /\ n \in Int /\ n + 1 \in Int /\ Len(l) \in Int
    BY <1>1
  <2>2. Cardinality(1..n) = IF 1 > n THEN 0 ELSE n - 1 + 1
    BY <2>1, FS_Interval
  <2>3. \A m \in Int : Cardinality(m..Len(l)) = IF m > Len(l) THEN 0 ELSE Len(l) - m + 1
    BY <2>1, FS_Interval
  <2>4. Cardinality(n + 1..Len(l)) = IF n + 1 > Len(l) THEN 0 ELSE Len(l) - (n + 1) + 1
    BY <2>1, <2>3
  <2>. QED BY <1>1, <2>2, <2>4
<1>4. n > 0 => Max(1..n) = n
  BY <1>1, MaxOfInterval
<1>5. n < Len(l) => Max(n + 1..Len(l)) = Len(l)
  BY <1>1, MaxOfInterval
<1>. QED BY <1>1, <1>2, <1>3, <1>4, <1>5

\* When a part of a chain is exhausted.
LEMMA ChainExhausted ==
  ASSUME NEW l, NEW n, Chain(l, n)
  PROVE  /\ n > 0 /\ (l[n].class = "hard" \/ n = Retries + 1) => ExhaustedIn(l, "primary")
         /\ n < Len(l) /\ (l[Len(l)].class = "hard" \/ Len(l) - n = Retries + 1)
              => ExhaustedIn(l, "fallback")
<1>1. ASSUME n > 0, l[n].class = "hard" \/ n = Retries + 1 PROVE ExhaustedIn(l, "primary")
  <2>1. /\ n \in Nat /\ OfIn(l, "primary") = 1..n /\ Cardinality(OfIn(l, "primary")) = n
        /\ Max(OfIn(l, "primary")) = n
    BY <1>1, ChainParts
  <2>2. n \in OfIn(l, "primary")
    BY <1>1, <2>1
  <2>. QED BY <1>1, <2>1, <2>2 DEF ExhaustedIn
<1>2. ASSUME n < Len(l), l[Len(l)].class = "hard" \/ Len(l) - n = Retries + 1
      PROVE  ExhaustedIn(l, "fallback")
  <2>1. /\ n \in Nat /\ Len(l) \in Nat
        /\ OfIn(l, "fallback") = n + 1..Len(l)
        /\ Cardinality(OfIn(l, "fallback")) = Len(l) - n
        /\ Max(OfIn(l, "fallback")) = Len(l)
    BY <1>2, ChainParts
  <2>2. Len(l) \in OfIn(l, "fallback")
    BY <1>2, <2>1
  <2>. QED BY <1>2, <2>1, <2>2 DEF ExhaustedIn
<1>. QED BY <1>1, <1>2

\* What the router does to a chain keeps the rules.
LEMMA ChainRules ==
  ASSUME NEW l, NEW n, Chain(l, n), n <= Retries + 1, Len(l) - n <= Retries + 1,
         \A i \in 1..(Len(l) - 1) : l[i].class = "transient" \/ (l[i].class = "hard" /\ i = n),
         n < Len(l) => n > 0 /\ (l[n].class = "hard" \/ n = Retries + 1)
  PROVE  Rules(l)
<1>1. /\ Len(l) \in Nat /\ n \in Nat /\ n <= Len(l)
      /\ OfIn(l, "primary") = 1..n /\ OfIn(l, "fallback") = n + 1..Len(l)
      /\ Cardinality(OfIn(l, "primary")) = n
      /\ Cardinality(OfIn(l, "fallback")) = Len(l) - n
      /\ n > 0 => Max(OfIn(l, "primary")) = n
  BY ChainParts
<1>2. \A p \in Asked : Cardinality(OfIn(l, p)) <= Retries + 1
  BY <1>1 DEF Asked
<1>3. ASSUME NEW i \in 1..(Len(l) - 1)
      PROVE  l[i].class = "transient" \/ (l[i].class = "hard" /\ l[i].who # l[i + 1].who)
  <2>1. CASE l[i].class = "transient"
    BY <2>1
  <2>2. CASE l[i].class = "hard" /\ i = n
    <3>1. i \in 1..Len(l) /\ i + 1 \in 1..Len(l) /\ i <= n /\ ~(i + 1 <= n)
      BY <1>1, <2>2
    <3>2. l[i].who = "primary" /\ l[i + 1].who = "fallback"
      BY <3>1 DEF Chain
    <3>. QED BY <2>2, <3>2
  <2>. QED BY <2>1, <2>2
<1>4. OfIn(l, "fallback") # {} => ExhaustedIn(l, "primary")
  <2>1. SUFFICES ASSUME OfIn(l, "fallback") # {} PROVE ExhaustedIn(l, "primary")
    OBVIOUS
  <2>2. n < Len(l)
    BY <1>1, <2>1
  <2>3. n > 0 /\ (l[n].class = "hard" \/ n = Retries + 1)
    BY <2>2
  <2>. QED BY <2>3, ChainExhausted
<1>. QED BY <1>2, <1>3, <1>4 DEF Rules

\* One more failure at the end of a chain.
LEMMA ChainGrows ==
  ASSUME NEW l, NEW n, Chain(l, n), NEW p \in Asked, NEW c \in FailureClass,
         p = "primary" => n = Len(l)
  PROVE  /\ Chain(Append(l, [who |-> p, class |-> c]), IF p = "primary" THEN n + 1 ELSE n)
         /\ Len(Append(l, [who |-> p, class |-> c])) = Len(l) + 1
         /\ Append(l, [who |-> p, class |-> c])[Len(l) + 1].class = c
         /\ \A i \in 1..Len(l) : Append(l, [who |-> p, class |-> c])[i] = l[i]
<1>. DEFINE Entry == [who : Asked, class : FailureClass]
            e == [who |-> p, class |-> c]
            m == Append(l, e)
            k == IF p = "primary" THEN n + 1 ELSE n
<1>1. e \in Entry /\ e.who = p /\ e.class = c
  OBVIOUS
<1>2. l \in Seq(Entry) /\ n \in 0..Len(l) /\ Len(l) \in Nat
  BY DEF Chain
<1>3. \A i \in 1..Len(l) : l[i].who = IF i <= n THEN "primary" ELSE "fallback"
  BY DEF Chain
<1>. HIDE DEF e
<1>4. /\ m \in Seq(Entry) /\ Len(m) = Len(l) + 1 /\ m[Len(l) + 1] = e
      /\ \A i \in 1..Len(l) : m[i] = l[i]
  BY <1>1, <1>2
<1>5. k \in 0..Len(m)
  BY <1>2, <1>4
<1>6. ASSUME NEW i \in 1..Len(m) PROVE m[i].who = IF i <= k THEN "primary" ELSE "fallback"
  <2>1. CASE i = Len(l) + 1
    BY <1>1, <1>2, <1>4, <2>1 DEF Asked
  <2>2. CASE i \in 1..Len(l)
    BY <1>2, <1>3, <1>4, <2>2
  <2>. QED BY <1>2, <1>4, <2>1, <2>2
<1>7. Chain(m, k)
  BY <1>4, <1>5, <1>6 DEF Chain
<1>. QED BY <1>1, <1>4, <1>7 DEF e

LEMMA EmptyChain == Chain(<<>>, 0) /\ Rules(<<>>)
<1>1. Chain(<<>>, 0)
  BY DEF Chain
<1>2. Retries \in Nat
  BY ModelAssumption
<1>. QED BY <1>1, <1>2, ChainRules

LEMMA ChatStart == ModelInit => ChatInv
<1>. SUFFICES ASSUME ModelInit PROVE ChatInv
  OBVIOUS
<1>1. who = "nobody" /\ attempt = 0 /\ log = <<>> /\ outcome = "none"
  BY DEF ModelInit
<1>2. FailoverDecides
  BY <1>1, EmptyChain, DecidesIsRules DEF Verdict
<1>. QED BY <1>1, <1>2 DEF ChatInv, Asked

\* The primary fails.
LEMMA PrimaryFails ==
  ASSUME ChatInv, who = "primary", NEW reason, Fails(reason)
  PROVE  ChatInv'
<1>. DEFINE c == Class(reason)
            n == Len(log) + 1
<1>1. /\ outcome = "none" /\ Chain(log, Len(log)) /\ attempt = n /\ attempt <= Retries + 1
      /\ \A i \in 1..Len(log) : log[i].class = "transient"
  BY DEF ChatInv
<1>2. Len(log) \in Nat /\ Retries \in Nat
  BY <1>1, ModelAssumption DEF Chain
<1>3. c \in FailureClass
  BY DEF Class, FailureClass
<1>4. log' = Append(log, [who |-> "primary", class |-> c]) /\ UNCHANGED kinds
  BY DEF Fails
<1>. HIDE DEF c
<1>5. /\ Chain(log', n) /\ Len(log') = n /\ log'[n].class = c
      /\ \A i \in 1..Len(log) : log'[i].class = "transient"
  BY <1>1, <1>3, <1>4, ChainGrows DEF Asked
<1>6. Rules(log')
  BY <1>1, <1>2, <1>5, ChainRules
<1>7. c = "hard" \/ n = Retries + 1 => ExhaustedIn(log', "primary")
  <2>1. n > 0
    BY <1>2
  <2>. QED BY <1>5, <2>1, ChainExhausted
<1>8. CASE c = "overflow"
  <2>1. who' = "nobody" /\ outcome' = "overflow" /\ attempt' = attempt
    BY <1>8 DEF Fails, c
  <2>2. Verdict(log', outcome', kinds'.fallback)
    BY <1>2, <1>5, <1>8, <2>1 DEF Verdict
  <2>3. FailoverDecides'
    BY <1>6, <2>2, DecidesIsRules
  <2>. QED BY <1>1, <1>2, <2>1, <2>3 DEF ChatInv, Asked
<1>9. CASE c = "transient" /\ MoreAttempts
  <2>1. attempt' = attempt + 1 /\ attempt <= Retries /\ UNCHANGED <<who, outcome>>
    BY <1>9 DEF Fails, MoreAttempts, c
  <2>2. FailoverDecides'
    BY <1>1, <1>6, <2>1, DecidesIsRules DEF Verdict
  <2>3. \A i \in 1..Len(log') : log'[i].class = "transient"
    BY <1>2, <1>5, <1>9
  <2>. QED BY <1>1, <1>2, <1>5, <2>1, <2>2, <2>3 DEF ChatInv, Asked
<1>10. CASE c = "hard" \/ (c = "transient" /\ ~MoreAttempts)
  <2>1. c = "hard" \/ (c = "transient" /\ n = Retries + 1)
    BY <1>1, <1>2, <1>10 DEF MoreAttempts
  <2>2. CASE kinds.fallback = "none"
    <3>1. who' = "nobody" /\ outcome' = "error" /\ attempt' = attempt
      BY <1>10, <2>2 DEF Fails, c
    <3>2. Verdict(log', outcome', kinds'.fallback)
      BY <1>4, <1>7, <2>1, <2>2, <3>1 DEF Verdict
    <3>3. FailoverDecides'
      BY <1>6, <3>2, DecidesIsRules
    <3>. QED BY <1>1, <1>2, <3>1, <3>3 DEF ChatInv, Asked
  <2>3. CASE kinds.fallback # "none"
    <3>1. who' = "fallback" /\ outcome' = outcome /\ attempt' = 1
      BY <1>10, <2>3 DEF Fails, c
    <3>2. FailoverDecides'
      BY <1>1, <1>6, <3>1, DecidesIsRules DEF Verdict
    <3>3. \A i \in 1..Len(log') : i # n => log'[i].class = "transient"
      BY <1>2, <1>5
    <3>4. /\ n \in 1..Len(log') /\ Chain(log', n) /\ n <= Retries + 1
          /\ log'[n].class = "hard" \/ (log'[n].class = "transient" /\ n = Retries + 1)
          /\ attempt' = Len(log') - n + 1 /\ attempt' <= Retries + 1
      BY <1>1, <1>2, <1>5, <2>1, <3>1
    <3>. QED BY <1>1, <1>4, <2>3, <3>1, <3>2, <3>3, <3>4 DEF ChatInv, Asked
  <2>. QED BY <2>2, <2>3
<1>. QED BY <1>3, <1>8, <1>9, <1>10 DEF FailureClass

\* The fallback fails.
LEMMA FallbackFails ==
  ASSUME ChatInv, who = "fallback", NEW reason, Fails(reason)
  PROVE  ChatInv'
<1>. DEFINE c == Class(reason)
            k == Len(log) + 1
<1>1. outcome = "none" /\ kinds.fallback # "none"
  BY DEF ChatInv
<1>2. PICK n \in 1..Len(log) :
        /\ Chain(log, n) /\ n <= Retries + 1
        /\ log[n].class = "hard" \/ (log[n].class = "transient" /\ n = Retries + 1)
        /\ attempt = Len(log) - n + 1 /\ attempt <= Retries + 1
        /\ \A i \in 1..Len(log) : i # n => log[i].class = "transient"
  BY DEF ChatInv
<1>3. Len(log) \in Nat /\ Retries \in Nat /\ n \in Nat /\ n > 0 /\ n <= Len(log)
  BY <1>2, ModelAssumption DEF Chain
<1>4. c \in FailureClass
  BY DEF Class, FailureClass
<1>5. log' = Append(log, [who |-> "fallback", class |-> c]) /\ UNCHANGED kinds
  BY DEF Fails
<1>. HIDE DEF c
<1>6. /\ Chain(log', n) /\ Len(log') = k /\ log'[k].class = c
      /\ \A i \in 1..Len(log) : log'[i] = log[i]
  BY <1>2, <1>4, <1>5, ChainGrows DEF Asked
<1>7. /\ n < Len(log') /\ Len(log') - n = attempt
      /\ log'[n].class = "hard" \/ (log'[n].class = "transient" /\ n = Retries + 1)
      /\ \A i \in 1..Len(log) : i # n => log'[i].class = "transient"
  <2>1. n \in 1..Len(log) /\ log'[n] = log[n]
    BY <1>6
  <2>2. \A i \in 1..Len(log) : i # n => log'[i].class = "transient"
    BY <1>2, <1>6
  <2>3. n < Len(log') /\ Len(log') - n = attempt
    BY <1>2, <1>3, <1>6
  <2>. QED BY <1>2, <2>1, <2>2, <2>3
<1>8. Rules(log')
  <2>1. \A i \in 1..(Len(log') - 1) : log'[i].class = "transient" \/ (log'[i].class = "hard" /\ i = n)
    BY <1>3, <1>6, <1>7
  <2>. QED BY <1>2, <1>3, <1>6, <1>7, <2>1, ChainRules
<1>9. c = "hard" \/ attempt = Retries + 1 => ExhaustedIn(log', "fallback")
  <2>1. log'[Len(log')].class = c /\ Len(log') - n = attempt /\ n < Len(log')
    BY <1>6, <1>7
  <2>. QED BY <1>6, <2>1, ChainExhausted
<1>10. attempt \in Nat
  BY <1>2, <1>3
<1>11. CASE c = "overflow"
  <2>1. who' = "nobody" /\ outcome' = "overflow" /\ attempt' = attempt
    BY <1>11 DEF Fails, c
  <2>2. Verdict(log', outcome', kinds'.fallback)
    BY <1>3, <1>6, <1>11, <2>1 DEF Verdict
  <2>3. FailoverDecides'
    BY <1>8, <2>2, DecidesIsRules
  <2>. QED BY <1>10, <2>1, <2>3 DEF ChatInv, Asked
<1>12. CASE c = "transient" /\ MoreAttempts
  <2>1. attempt' = attempt + 1 /\ attempt <= Retries /\ UNCHANGED <<who, outcome>>
    BY <1>12 DEF Fails, MoreAttempts, c
  <2>2. FailoverDecides'
    BY <1>1, <1>8, <2>1, DecidesIsRules DEF Verdict
  <2>3. \A i \in 1..Len(log') : i # n => log'[i].class = "transient"
    BY <1>3, <1>6, <1>7, <1>12
  <2>4. n \in 1..Len(log') /\ attempt' = Len(log') - n + 1 /\ attempt' <= Retries + 1
    BY <1>3, <1>6, <1>7, <1>10, <2>1
  <2>5. \E m \in 1..Len(log') :
          /\ Chain(log', m) /\ m <= Retries + 1
          /\ log'[m].class = "hard" \/ (log'[m].class = "transient" /\ m = Retries + 1)
          /\ attempt' = Len(log') - m + 1 /\ attempt' <= Retries + 1
          /\ \A i \in 1..Len(log') : i # m => log'[i].class = "transient"
    BY <1>2, <1>6, <1>7, <2>3, <2>4
  <2>6. attempt' \in Nat /\ who' = "fallback" /\ outcome' = "none" /\ kinds'.fallback # "none"
    BY <1>1, <1>5, <1>10, <2>1
  <2>. QED BY <2>2, <2>5, <2>6 DEF ChatInv, Asked
<1>13. CASE c = "hard" \/ (c = "transient" /\ ~MoreAttempts)
  <2>1. c = "hard" \/ attempt = Retries + 1
    BY <1>2, <1>3, <1>10, <1>13 DEF MoreAttempts
  <2>2. who' = "nobody" /\ outcome' = "error" /\ attempt' = attempt
    BY <1>13 DEF Fails, c
  <2>3. Verdict(log', outcome', kinds'.fallback)
    BY <1>1, <1>5, <1>9, <2>1, <2>2 DEF Verdict
  <2>4. FailoverDecides'
    BY <1>8, <2>3, DecidesIsRules
  <2>. QED BY <1>10, <2>2, <2>4 DEF ChatInv, Asked
<1>. QED BY <1>4, <1>11, <1>12, <1>13 DEF FailureClass

LEMMA ChatStep == ASSUME ChatInv, [ModelNext]_models PROVE ChatInv'
<1>1. ASSUME NEW reason, Fails(reason), who # "nobody" PROVE ChatInv'
  BY <1>1, PrimaryFails, FallbackFails DEF ChatInv, Asked
<1>2. ASSUME UNCHANGED <<kinds, log, attempt>>, who' = "nobody", outcome' \notin {"overflow", "error"}
      PROVE  ChatInv'
  <2>1. FailoverDecides'
    BY <1>2, DecidesIsRules DEF ChatInv, Verdict
  <2>. QED BY <1>2, <2>1 DEF ChatInv, Asked
<1>3. CASE Ask
  <2>1. /\ who' = "primary" /\ attempt' = 1 /\ log' = <<>> /\ outcome' = "none"
    BY <1>3 DEF Ask
  <2>2. FailoverDecides'
    BY <2>1, EmptyChain, DecidesIsRules DEF Verdict
  <2>3. Chain(log', Len(log')) /\ Len(log') = 0
    BY <2>1, EmptyChain
  <2>4. 1 <= Retries + 1
    BY ModelAssumption
  <2>. QED BY <2>1, <2>2, <2>3, <2>4 DEF ChatInv, Asked
<1>4. CASE AnswerText \/ \E ids \in Batch(MaxBatch), flaws \in Flaws : AnswerTools(ids, flaws)
  BY <1>2, <1>4 DEF AnswerText, AnswerTools
<1>5. CASE Exhausts \/ UNCHANGED models
  <2>1. UNCHANGED <<kinds, who, attempt, log, outcome>>
    BY <1>5 DEF Exhausts, models
  <2>2. FailoverDecides'
    BY <2>1, DecidesIsRules DEF ChatInv
  <2>. QED BY <2>1, <2>2 DEF ChatInv
<1>6. CASE Refuse \/ AnthropicTransport
  BY <1>1, <1>6 DEF Refuse, AnthropicTransport, Sent, Asking
<1>7. CASE OpenAITransport
  BY <1>1, <1>2, <1>7 DEF OpenAITransport, Sent, Asking
<1>8. ASSUME NEW status \in Status, NEW message,
             OpenAIFails(status) \/ AnthropicFails(status, message)
      PROVE  ChatInv'
  BY <1>1, <1>8 DEF OpenAIFails, AnthropicFails, Sent, Asking
<1>. QED BY <1>3, <1>4, <1>5, <1>6, <1>7, <1>8 DEF ModelNext

\* FailoverRouter: retries, classes and the second provider decide as documented, for
\* any number of retries.
THEOREM FailoverDecidesTheorem == Spec => []FailoverDecides
<1>1. Init => ChatInv
  BY ChatStart DEF Init
<1>2. ChatInv /\ [Next]_svars => ChatInv'
  BY ChatStep, StepOfOne
<1>3. ChatInv => FailoverDecides
  BY DEF ChatInv
<1>. QED BY <1>1, <1>2, <1>3, PTL DEF Spec

\* The loop answers every call of every answer, unless an id comes again, and changes
\* none for the worse.
Calls == Id \cup {NoId}
Round == [ids : Seq(Calls), answered : SUBSET Calls, flaws : SUBSET {"blank", "list", "number"}]
RoundsInv ==
  /\ rounds \in Seq(Round)
  /\ clean => Convertible
  /\ rejected => ~clean

LEMMA RoundsStart == ModelInit => RoundsInv
BY DEF ModelInit, RoundsInv, Convertible

\* Pruning takes flaws away and leaves the rest of a message as it was.
LEMMA MendedRounds ==
  ASSUME RoundsInv, NEW old
  PROVE  /\ Mended(old) \in Seq(Round) /\ Len(Mended(old)) = Len(rounds)
         /\ \A i \in DOMAIN rounds :
              /\ Mended(old)[i].ids = rounds[i].ids /\ Mended(old)[i].answered = rounds[i].answered
              /\ Mended(old)[i].flaws \subseteq rounds[i].flaws
<1>1. /\ rounds \in Seq(Round) /\ Len(rounds) \in Nat /\ DOMAIN rounds = 1..Len(rounds)
      /\ \A i \in 1..Len(rounds) : rounds[i] \in Round
  BY DEF RoundsInv
<1>2. ASSUME NEW q \in Round
      PROVE  /\ [q EXCEPT !.flaws = @ \cap {"blank"}] \in Round
             /\ [q EXCEPT !.flaws = @ \cap {"blank"}].ids = q.ids
             /\ [q EXCEPT !.flaws = @ \cap {"blank"}].answered = q.answered
             /\ [q EXCEPT !.flaws = @ \cap {"blank"}].flaws \subseteq q.flaws
  BY DEF Round
<1>3. \A i \in 1..Len(rounds) :
        /\ Mended(old)[i] \in Round
        /\ Mended(old)[i].ids = rounds[i].ids /\ Mended(old)[i].answered = rounds[i].answered
        /\ Mended(old)[i].flaws \subseteq rounds[i].flaws
  BY <1>1, <1>2 DEF Mended
<1>4. Mended(old) \in [1..Len(rounds) -> Round]
  BY <1>1, <1>3 DEF Mended
<1>5. Mended(old) \in Seq(Round) /\ Len(Mended(old)) = Len(rounds)
  BY <1>1, <1>4, SeqDef
<1>. QED BY <1>1, <1>3, <1>5

LEMMA MendedConvertible ==
  ASSUME RoundsInv, NEW old, rounds' = Mended(old)
  PROVE  rounds' \in Seq(Round) /\ (Convertible => Convertible')
<1>1. /\ rounds' \in Seq(Round) /\ DOMAIN rounds' = DOMAIN rounds
      /\ \A i \in DOMAIN rounds :
           /\ rounds'[i].ids = rounds[i].ids /\ rounds'[i].answered = rounds[i].answered
           /\ rounds'[i].flaws \subseteq rounds[i].flaws
  BY MendedRounds DEF RoundsInv
<1>2. ASSUME Convertible PROVE Convertible'
  BY <1>1, <1>2 DEF Convertible
<1>. QED BY <1>1, <1>2

\* One more message whose calls are all well formed and answered.
LEMMA OneMoreRound ==
  ASSUME RoundsInv, NEW ids \in Seq(Calls), NEW flaws \in SUBSET {"blank", "list", "number"},
         NEW old, rounds' = Append(Mended(old), [ids |-> ids, answered |-> Executed(ids), flaws |-> flaws])
  PROVE  /\ rounds' \in Seq(Round)
         /\ Convertible /\ flaws = {} /\ WellFormed(ids) /\ ToSet(ids) \cap completed = {}
              => Convertible'
<1>. DEFINE r == [ids |-> ids, answered |-> Executed(ids), flaws |-> flaws]
            m == Mended(old)
<1>1. ToSet(ids) \subseteq Calls
  BY DEF ToSet
<1>2. r \in Round /\ r.ids = ids /\ r.answered = ToSet(ids) \ completed /\ r.flaws = flaws
  BY <1>1 DEF Executed, Round
<1>3. m \in Seq(Round) /\ Len(m) = Len(rounds) /\ DOMAIN m = DOMAIN rounds
  BY MendedRounds DEF RoundsInv
<1>b. \A i \in DOMAIN rounds : /\ m[i].ids = rounds[i].ids /\ m[i].answered = rounds[i].answered
                                /\ m[i].flaws \subseteq rounds[i].flaws
  BY MendedRounds
<1>a. rounds' = Append(m, r)
  OBVIOUS
<1>. HIDE DEF r, m
<1>4. /\ rounds' \in Seq(Round) /\ DOMAIN rounds' = 1..Len(m) + 1 /\ Len(m) \in Nat
      /\ DOMAIN m = 1..Len(m)
      /\ rounds'[Len(m) + 1] = r /\ \A i \in 1..Len(m) : rounds'[i] = m[i]
  <2>1. m \in Seq(Round) /\ r \in Round
    BY <1>2, <1>3
  <2>2. Append(m, r) \in Seq(Round) /\ Len(m) \in Nat /\ DOMAIN m = 1..Len(m)
    BY <2>1
  <2>3. DOMAIN Append(m, r) = 1..Len(m) + 1
    BY <2>1
  <2>4. Append(m, r)[Len(m) + 1] = r /\ \A i \in 1..Len(m) : Append(m, r)[i] = m[i]
    BY <2>1
  <2>. QED BY <1>a, <2>2, <2>3, <2>4
<1>5. ASSUME Convertible, flaws = {}, WellFormed(ids), ToSet(ids) \cap completed = {}
      PROVE  Convertible'
  <2>1. SUFFICES ASSUME NEW i \in 1..Len(m) + 1
                 PROVE  /\ rounds'[i].flaws = {}
                        /\ NoId \notin ToSet(rounds'[i].ids) /\ Distinct(rounds'[i].ids)
                        /\ ToSet(rounds'[i].ids) \subseteq rounds'[i].answered
    BY <1>4 DEF Convertible
  <2>2. CASE i = Len(m) + 1
    BY <1>2, <1>4, <1>5, <2>2 DEF WellFormed
  <2>3. CASE i # Len(m) + 1
    <3>1. i \in DOMAIN rounds /\ rounds'[i] = m[i]
      BY <1>3, <1>4, <2>3
    <3>2. /\ rounds'[i].ids = rounds[i].ids /\ rounds'[i].answered = rounds[i].answered
          /\ rounds'[i].flaws \subseteq rounds[i].flaws
      BY <1>b, <3>1
    <3>3. /\ rounds[i].flaws = {} /\ NoId \notin ToSet(rounds[i].ids) /\ Distinct(rounds[i].ids)
          /\ ToSet(rounds[i].ids) \subseteq rounds[i].answered
      BY <1>5, <3>1 DEF Convertible
    <3>. QED BY <3>2, <3>3
  <2>. QED BY <2>2, <2>3
<1>. QED BY <1>4, <1>5

LEMMA RoundsStep == ASSUME RoundsInv, [ModelNext]_models PROVE RoundsInv'
<1>1. ASSUME UNCHANGED <<rounds, clean>>, rejected' = rejected \/ ~Convertible PROVE RoundsInv'
  BY <1>1 DEF RoundsInv, Convertible
<1>0. ASSUME NEW reason, Fails(reason), rejected' = rejected \/ ~Convertible PROVE RoundsInv'
  <2>1. clean' = clean /\ (rounds' = rounds \/ \E old \in SUBSET DOMAIN rounds : rounds' = Mended(old))
    BY <1>0 DEF Fails, Prunes
  <2>2. CASE rounds' = rounds
    BY <1>0, <1>1, <2>1, <2>2
  <2>3. CASE \E old \in SUBSET DOMAIN rounds : rounds' = Mended(old)
    <3>1. rounds' \in Seq(Round) /\ (Convertible => Convertible')
      BY <2>3, MendedConvertible
    <3>. QED BY <1>0, <2>1, <3>1 DEF RoundsInv
  <2>. QED BY <2>1, <2>2, <2>3
<1>2. CASE Ask \/ Exhausts \/ AnswerText \/ UNCHANGED models
  BY <1>1, <1>2 DEF Ask, Exhausts, AnswerText, Sent, models
<1>3. CASE Refuse
  BY <1>0, <1>3 DEF Refuse
<1>4. CASE AnthropicTransport \/ OpenAITransport
  BY <1>0, <1>1, <1>4 DEF AnthropicTransport, OpenAITransport, Sent
<1>5. ASSUME NEW status \in Status, NEW message,
             OpenAIFails(status) \/ AnthropicFails(status, message)
      PROVE  RoundsInv'
  BY <1>0, <1>5 DEF OpenAIFails, AnthropicFails, Sent
<1>6. ASSUME NEW ids \in Batch(MaxBatch), NEW flaws \in Flaws, AnswerTools(ids, flaws)
      PROVE  RoundsInv'
  <2>1. PICK k \in 1..MaxBatch : ids \in [1..k -> Id \cup {NoId}]
    BY <1>6 DEF Batch
  <2>2. ids \in Seq(Calls) /\ flaws \in SUBSET {"blank", "list", "number"}
    <3>1. k \in Nat
      BY ModelAssumption
    <3>. QED BY <2>1, <3>1, ModelAssumption, SeqDef DEF Calls
  <2>3. PICK old \in SUBSET DOMAIN rounds :
          rounds' = Append(Mended(old), [ids |-> ids, answered |-> Executed(ids), flaws |-> flaws])
    BY <1>6 DEF AnswerTools
  <2>4. /\ clean' = (clean /\ flaws = {} /\ WellFormed(ids) /\ ToSet(ids) \cap completed = {})
        /\ UNCHANGED rejected
    BY <1>6 DEF AnswerTools, Sent
  <2>. QED BY <2>2, <2>3, <2>4, OneMoreRound DEF RoundsInv
<1>. QED BY <1>2, <1>3, <1>4, <1>5, <1>6 DEF ModelNext

\* _to_anthropic_messages and the JSON check refuse nothing the loop has built, as long
\* as every call came whole and with an id of its own.
THEOREM RefusedAsReceivedTheorem == Spec => []RefusedAsReceived
<1>1. Init => RoundsInv
  BY RoundsStart DEF Init
<1>2. RoundsInv /\ [Next]_svars => RoundsInv'
  BY RoundsStep, StepOfOne
<1>3. RoundsInv => RefusedAsReceived
  BY DEF RoundsInv, RefusedAsReceived
<1>. QED BY <1>1, <1>2, <1>3, PTL DEF Spec

-----------------------------------------------------------------------------
(* image_gen.                                                              *)

\* What the call knows of the charge, at each of its stages.
ChargeInv ==
  /\ at = "post" => ~answered
  /\ at \in {"parse", "download"} => billed /\ ~answered
  /\ at \in {"check", "look", "write", "replace", "confirm", "clean"} => billed /\ answered
  /\ at # "idle" => ended = "none"
  /\ ChargeKept

\* Between the second look and the replacement only an edit in the gap changes
\* what is at the path.
FileInv ==
  /\ at = "replace" => dest \in {before, Absent} \cup gap
  /\ FileKept

LEMMA ImageStart == ImageInit => ChargeInv /\ FileInv
BY DEF ImageInit, ChargeInv, ChargeKept, FileInv, FileKept

LEMMA ChargeStep == ASSUME ChargeInv, [ImageNext]_image PROVE ChargeInv'
<1>. USE DEF ChargeInv, ChargeKept
<1>1. CASE Begin
  BY <1>1 DEF Begin, Ends, WithCharge
<1>2. CASE PostRefused \/ PostLost \/ PostAnswered
  <2>1. CASE PostRefused \/ PostLost
    <3>1. at = "post" /\ Ends("raised") /\ answered' = answered
      BY <2>1 DEF PostRefused, PostLost
    <3>2. at' = "idle" /\ ended' = "raised" /\ ~attrs'
      BY <3>1 DEF Ends, WithCharge
    <3>3. ~answered'
      BY <3>1
    <3>. QED BY <3>2, <3>3
  <2>2. CASE PostAnswered
    <3>1. at' = "parse" /\ ended' = "none" /\ billed' /\ ~answered'
      BY <2>2 DEF PostAnswered, Goes
    <3>. QED BY <3>1
  <2>. QED BY <1>2, <2>1, <2>2
<1>3. CASE ParseBad \/ ParseGood \/ Downloaded \/ DownloadFails
  BY <1>3 DEF ParseBad, ParseGood, Downloaded, DownloadFails, Ends, WithCharge, Goes
<1>4. CASE CheckFails \/ OpenByFd \/ LockChain \/ Look
  BY <1>4 DEF CheckFails, OpenByFd, LockChain, Opened, Look, Ends, WithCharge, Goes
<1>5. CASE Write \/ WriteFails \/ LookAgain
  BY <1>5 DEF Write, WriteFails, LookAgain, Goes
<1>6. CASE Replace \/ ReplaceFails \/ Confirm \/ Clean
  BY <1>6 DEF Replace, ReplaceFails, Confirm, Clean, Ends, WithCharge, Goes
<1>7. CASE \/ \E kind \in {"file", "absent", "link", "directory"} : Edit(kind)
           \/ \E to \in {"missing", "dir", "link"} : Relink(to)
           \/ UNCHANGED image
  BY <1>7 DEF Edit, Relink, image, call
<1>8. CASE CrashImage
  BY <1>8 DEF CrashImage, Ends, WithCharge
<1>. QED BY <1>1, <1>2, <1>3, <1>4, <1>5, <1>6, <1>7, <1>8 DEF ImageNext

LEMMA FileStep == ASSUME FileInv, [ImageNext]_image PROVE FileInv'
<1>. USE DEF FileInv, FileKept
\* Most steps are of the call alone, and do not come to the replacement.
<1>1. ASSUME UNCHANGED <<dest, lost, gap>>, at' # "replace" PROVE FileInv'
  BY <1>1
<1>2. CASE Begin \/ PostRefused \/ PostLost \/ PostAnswered
  BY <1>1, <1>2 DEF Begin, PostRefused, PostLost, PostAnswered, Ends, Goes, files
<1>3. CASE ParseBad \/ ParseGood \/ Downloaded \/ DownloadFails
  BY <1>1, <1>3 DEF ParseBad, ParseGood, Downloaded, DownloadFails, Ends, Goes, files
<1>4. CASE CheckFails \/ OpenByFd \/ LockChain \/ Look
  BY <1>1, <1>4 DEF CheckFails, OpenByFd, LockChain, Opened, Look, Ends, Goes, files
<1>5. CASE Write \/ WriteFails \/ ReplaceFails \/ Confirm \/ Clean \/ CrashImage
  BY <1>1, <1>5 DEF Write, WriteFails, ReplaceFails, Confirm, Clean, CrashImage, Ends, Goes, files
<1>6. CASE LookAgain
  BY <1>6 DEF LookAgain, SameFile, Goes, files
<1>7. CASE Replace
  <2>1. /\ at = "replace" /\ at' = "confirm" /\ UNCHANGED gap
        /\ lost' = IF dest \in {Absent, before} THEN lost ELSE lost \cup {dest}
    BY <1>7 DEF Replace, Goes
  <2>. QED BY <2>1
<1>8. ASSUME NEW kind \in {"file", "absent", "link", "directory"}, Edit(kind) PROVE FileInv'
  <2>1. InGap(dest') /\ UNCHANGED <<at, before, lost>>
    BY <1>8 DEF Edit, call
  <2>. QED BY <2>1 DEF InGap
<1>9. CASE (\E to \in {"missing", "dir", "link"} : Relink(to)) \/ UNCHANGED image
  BY <1>9 DEF Relink, image, call, files
<1>. QED BY <1>2, <1>3, <1>4, <1>5, <1>6, <1>7, <1>8, <1>9 DEF ImageNext

\* run(): once the image is received, whatever ends the call carries the charge, and
\* no charge is carried that was not made.
THEOREM ChargeKeptTheorem == Spec => []ChargeKept
<1>1. Init => ChargeInv
  BY ImageStart DEF Init
<1>2. ChargeInv /\ [Next]_svars => ChargeInv'
  BY ChargeStep, StepOfOne
<1>3. ChargeInv => ChargeKept
  BY DEF ChargeInv
<1>. QED BY <1>1, <1>2, <1>3, PTL DEF Spec

\* _replace: nothing is replaced that was made after the first look, but in the gap
\* between the second look and the rename.
THEOREM FileKeptTheorem == Spec => []FileKept
<1>1. Init => FileInv
  BY ImageStart DEF Init
<1>2. FileInv /\ [Next]_svars => FileInv'
  BY FileStep, StepOfOne
<1>3. FileInv => FileKept
  BY DEF FileInv
<1>. QED BY <1>1, <1>2, <1>3, PTL DEF Spec

-----------------------------------------------------------------------------
(* The structure of an image.  What the flags say of the pieces read is an *)
(* invariant of the loop (the Read operators).  A refused file holds       *)
(* something that no further piece mends (the Doomed operators).           *)

AnyPiece == PngPieces \cup JpegPieces \cup WebpPieces

\* The places of a kind of piece in a file.
At(l, kind) == {i \in DOMAIN l : l[i].kind = kind}
Lacks(l, bad) == \A kind \in bad : At(l, kind) = {}
Once(l, kind) == \A i, j \in At(l, kind) : i = j
Sorted(l, a, b) == \A i \in At(l, a), j \in At(l, b) : i < j
\* No piece of the one kind stands before this place.
NoneBefore(l, kind, n) == \A i \in At(l, kind) : i > n

LEMMA AtType ==
  ASSUME NEW l \in Seq(AnyPiece), NEW kind
  PROVE  At(l, kind) \subseteq 1..Len(l) /\ Len(l) \in Nat
BY DEF At

LEMMA AtGrows ==
  ASSUME NEW l \in Seq(AnyPiece), NEW p \in AnyPiece
  PROVE  /\ Append(l, p) \in Seq(AnyPiece) /\ Len(Append(l, p)) = Len(l) + 1
         /\ \A i \in 1..Len(l) : Append(l, p)[i] = l[i]
         /\ Append(l, p)[Len(l) + 1] = p
         /\ \A kind : At(Append(l, p), kind) =
                        IF p.kind = kind THEN At(l, kind) \cup {Len(l) + 1} ELSE At(l, kind)
<1>. DEFINE m == Append(l, p)
<1>1. /\ m \in Seq(AnyPiece) /\ Len(m) = Len(l) + 1 /\ Len(l) \in Nat
      /\ \A i \in 1..Len(l) : m[i] = l[i]
      /\ m[Len(l) + 1] = p
  OBVIOUS
<1>2. DOMAIN m = 1..Len(l) + 1 /\ DOMAIN l = 1..Len(l)
  BY <1>1
<1>. HIDE DEF m
<1>3. ASSUME NEW kind
      PROVE  At(m, kind) = IF p.kind = kind THEN At(l, kind) \cup {Len(l) + 1} ELSE At(l, kind)
  BY <1>1, <1>2 DEF At
<1>. QED BY <1>1, <1>3 DEF m

\* What the validators take for an image, by the places of its pieces.
IsPng(l) ==
  /\ At(l, "IEND") = {Len(l)} /\ Lacks(l, {"IEND_more", "critical", "broken"})
  /\ At(l, "IHDR") = {1} /\ Once(l, "PLTE") /\ Sorted(l, "PLTE", "IDAT")
  /\ l[1].value = "grey" => At(l, "PLTE") = {}
  /\ l[1].value = "palette" => At(l, "PLTE") # {}
  /\ At(l, "IDAT") # {}
  /\ \A i, j \in At(l, "IDAT") : \A k \in i..j : k \in At(l, "IDAT")

\* A scan is open at n: nothing but its data and restart markers since its start.
InScan(l, n) ==
  \E i \in At(l, "SOS") : i <= n /\ \A k \in (i + 1)..n : k \in At(l, "entropy") \cup At(l, "RST")

IsJpeg(l) ==
  /\ At(l, "EOI") = {Len(l)} /\ Lacks(l, {"EOI_more", "SOI", "broken"})
  /\ At(l, "SOF") # {} /\ Once(l, "SOF") /\ At(l, "SOS") # {} /\ Sorted(l, "SOF", "SOS")
  /\ \A j \in At(l, "entropy") : InScan(l, j)

IsWebp(l) ==
  /\ At(l, "end") = {Len(l)} /\ Lacks(l, {"ANIM", "broken"})
  /\ At(l, "VP8") # {} /\ Once(l, "VP8") /\ Once(l, "VP8X") /\ Sorted(l, "VP8X", "VP8")
  /\ \A i \in At(l, "VP8X"), j \in At(l, "VP8") : l[i].value = l[j].value

IsImage(m, l) ==
  /\ m = "png" => IsPng(l)
  /\ m = "jpeg" => IsJpeg(l)
  /\ m = "webp" => IsWebp(l)

PngRead(l, fl, sz) ==
  /\ l = <<>> => fl = {}
  /\ l # <<>> =>
       /\ "ihdr" \in fl /\ At(l, "IHDR") = {1} /\ sz = l[1].value
       /\ Lacks(l, {"IEND", "IEND_more", "critical", "broken"})
       /\ "plte" \in fl <=> At(l, "PLTE") # {}
       /\ "idat" \in fl <=> At(l, "IDAT") # {}
       /\ "idat_ended" \notin fl =>
            \A i \in At(l, "IDAT") : \A k \in i..Len(l) : k \in At(l, "IDAT")
       /\ "idat_ended" \in fl =>
            \E i \in At(l, "IDAT") : \E k \in i..Len(l) : k \notin At(l, "IDAT")
       /\ Once(l, "PLTE") /\ Sorted(l, "PLTE", "IDAT")
       /\ sz = "grey" => At(l, "PLTE") = {}
       /\ sz = "palette" /\ At(l, "IDAT") # {} => At(l, "PLTE") # {}
       /\ \A i, j \in At(l, "IDAT") : \A k \in i..j : k \in At(l, "IDAT")

JpegRead(l, fl) ==
  /\ Lacks(l, {"EOI", "EOI_more", "SOI", "broken"})
  /\ "sof" \in fl <=> At(l, "SOF") # {}
  /\ "scan" \in fl <=> At(l, "SOS") # {}
  /\ "in_scan" \in fl <=> InScan(l, Len(l))
  /\ At(l, "SOS") # {} => At(l, "SOF") # {}
  /\ Once(l, "SOF") /\ Sorted(l, "SOF", "SOS")
  /\ \A j \in At(l, "entropy") : InScan(l, j)

WebpRead(l, fl, sz) ==
  /\ Lacks(l, {"end", "ANIM", "broken"})
  /\ fl \subseteq {"image", "extended"}
  /\ "image" \in fl <=> At(l, "VP8") # {}
  /\ "extended" \in fl <=> At(l, "VP8X") # {}
  /\ Once(l, "VP8") /\ Once(l, "VP8X") /\ Sorted(l, "VP8X", "VP8")
  /\ sz = "none" <=> At(l, "VP8X") = {}
  /\ \A i \in At(l, "VP8X") : l[i].value = sz
  /\ \A j \in At(l, "VP8") : sz \in {"none", l[j].value}

Read(m, l, fl, sz) ==
  /\ m = "png" => PngRead(l, fl, sz)
  /\ m = "jpeg" => JpegRead(l, fl)
  /\ m = "webp" => WebpRead(l, fl, sz)

PngDoomed(l) ==
  /\ l # <<>>
  /\ \/ 1 \notin At(l, "IHDR") \/ \E i \in At(l, "IHDR") : i # 1
     \/ ~Lacks(l, {"IEND_more", "critical", "broken"})
     \/ ~Once(l, "PLTE") \/ \E i \in At(l, "IDAT"), j \in At(l, "PLTE") : i < j
     \/ l[1].value = "grey" /\ At(l, "PLTE") # {}
     \/ l[1].value = "palette" /\ \E j \in At(l, "IDAT") : NoneBefore(l, "PLTE", j)
     \/ \E i, j \in At(l, "IDAT") : \E k \in i..j : k \notin At(l, "IDAT")
     \/ \E j \in At(l, "IEND") : NoneBefore(l, "IDAT", j)

JpegDoomed(l) ==
  \/ ~Lacks(l, {"EOI_more", "SOI", "broken"})
  \/ ~Once(l, "SOF") \/ \E j \in At(l, "SOS") : NoneBefore(l, "SOF", j)
  \/ \E j \in At(l, "entropy") : ~InScan(l, j)
  \/ \E j \in At(l, "EOI") : NoneBefore(l, "SOF", j) \/ NoneBefore(l, "SOS", j)

WebpDoomed(l) ==
  \/ ~Lacks(l, {"ANIM", "broken"})
  \/ ~Once(l, "VP8") \/ ~Once(l, "VP8X")
  \/ \E i \in At(l, "VP8"), j \in At(l, "VP8X") : i < j
  \/ \E i \in At(l, "VP8X"), j \in At(l, "VP8") : l[i].value # l[j].value
  \/ \E j \in At(l, "end") : NoneBefore(l, "VP8", j)

Doomed(m, l) ==
  /\ m = "png" => PngDoomed(l)
  /\ m = "jpeg" => JpegDoomed(l)
  /\ m = "webp" => WebpDoomed(l)

FormatInv ==
  /\ mime \in {"png", "jpeg", "webp"} /\ verdict \in {"reading", "accepted", "refused"}
  /\ pieces \in Seq(AnyPiece)
  /\ verdict = "reading" => Read(mime, pieces, flags, size)
  /\ verdict = "accepted" => IsImage(mime, pieces)
  /\ verdict = "refused" => Doomed(mime, pieces)

\* What is wrong with a file stays wrong.
LEMMA PngStays ==
  ASSUME NEW l \in Seq(AnyPiece), NEW p \in AnyPiece, PngDoomed(l)
  PROVE  PngDoomed(Append(l, p))
<1>. DEFINE m == Append(l, p)
            n == Len(l)
<1>1. /\ n \in Nat /\ n > 0 /\ m # <<>> /\ m[1] = l[1]
      /\ \A kind : At(l, kind) \subseteq 1..n
      /\ \A kind : At(l, kind) \subseteq At(m, kind) /\ At(m, kind) \subseteq At(l, kind) \cup {n + 1}
  <2>1. n \in Nat /\ n > 0
    BY DEF PngDoomed
  <2>2. m \in Seq(AnyPiece) /\ Len(m) = n + 1
    BY AtGrows
  <2>3. m # <<>> /\ m[1] = l[1]
    BY <2>1, <2>2, AtGrows
  <2>. QED BY <2>1, <2>3, AtGrows, AtType
<1>. SUFFICES PngDoomed(m)
  OBVIOUS
<1>. HIDE DEF m
<1>. USE DEF PngDoomed
<1>2. CASE 1 \notin At(l, "IHDR") \/ \E i \in At(l, "IHDR") : i # 1
  BY <1>1, <1>2
<1>3. CASE ~Lacks(l, {"IEND_more", "critical", "broken"})
  BY <1>1, <1>3 DEF Lacks
<1>4. CASE ~Once(l, "PLTE")
  BY <1>1, <1>4 DEF Once
<1>5. CASE \E i \in At(l, "IDAT"), j \in At(l, "PLTE") : i < j
  BY <1>1, <1>5
<1>6. CASE l[1].value = "grey" /\ At(l, "PLTE") # {}
  BY <1>1, <1>6
<1>7. CASE l[1].value = "palette" /\ \E j \in At(l, "IDAT") : NoneBefore(l, "PLTE", j)
  BY <1>1, <1>7 DEF NoneBefore
<1>8. CASE \E i, j \in At(l, "IDAT") : \E k \in i..j : k \notin At(l, "IDAT")
  <2>0. PICK i \in At(l, "IDAT"), j \in At(l, "IDAT") : \E k \in i..j : k \notin At(l, "IDAT")
    BY <1>8
  <2>1. PICK k \in i..j : k \notin At(l, "IDAT")
    BY <2>0
  <2>2. i \in 1..n /\ j \in 1..n /\ k # n + 1
    BY <1>1, <2>1
  <2>3. k \notin At(m, "IDAT") /\ i \in At(m, "IDAT") /\ j \in At(m, "IDAT")
    BY <1>1, <2>1, <2>2
  <2>. QED BY <1>1, <2>3
<1>9. CASE \E j \in At(l, "IEND") : NoneBefore(l, "IDAT", j)
  BY <1>1, <1>9 DEF NoneBefore
<1>. QED BY <1>2, <1>3, <1>4, <1>5, <1>6, <1>7, <1>8, <1>9

LEMMA ScanStays ==
  ASSUME NEW l \in Seq(AnyPiece), NEW p \in AnyPiece, NEW j \in 0..Len(l)
  PROVE  InScan(Append(l, p), j) <=> InScan(l, j)
<1>1. /\ Len(l) \in Nat
      /\ \A kind : At(l, kind) \subseteq 1..Len(l)
      /\ \A kind : /\ At(l, kind) \subseteq At(Append(l, p), kind)
                   /\ At(Append(l, p), kind) \subseteq At(l, kind) \cup {Len(l) + 1}
  BY AtGrows, AtType
<1>2. \A kind : \A k \in 1..j : k \in At(Append(l, p), kind) <=> k \in At(l, kind)
  BY <1>1
<1>3. ASSUME NEW i, i \in At(l, "SOS") \/ i \in At(Append(l, p), "SOS"), i <= j
      PROVE  i \in 1..j
  BY <1>1, <1>3
<1>. QED BY <1>2, <1>3 DEF InScan

LEMMA JpegStays ==
  ASSUME NEW l \in Seq(AnyPiece), NEW p \in AnyPiece, JpegDoomed(l)
  PROVE  JpegDoomed(Append(l, p))
<1>. DEFINE m == Append(l, p)
            n == Len(l)
<1>1. /\ n \in Nat
      /\ \A kind : At(l, kind) \subseteq 1..n
      /\ \A kind : At(l, kind) \subseteq At(m, kind) /\ At(m, kind) \subseteq At(l, kind) \cup {n + 1}
  BY AtGrows, AtType
<1>2. \A j \in 0..n : InScan(m, j) <=> InScan(l, j)
  BY ScanStays
<1>. SUFFICES JpegDoomed(m)
  OBVIOUS
<1>. HIDE DEF m
<1>. USE DEF JpegDoomed
<1>3. CASE ~Lacks(l, {"EOI_more", "SOI", "broken"})
  BY <1>1, <1>3 DEF Lacks
<1>4. CASE ~Once(l, "SOF")
  BY <1>1, <1>4 DEF Once
<1>5. CASE \E j \in At(l, "SOS") : NoneBefore(l, "SOF", j)
  BY <1>1, <1>5 DEF NoneBefore
<1>6. CASE \E j \in At(l, "entropy") : ~InScan(l, j)
  <2>1. PICK j \in At(l, "entropy") : ~InScan(l, j)
    BY <1>6
  <2>2. j \in 0..n /\ j \in At(m, "entropy")
    BY <1>1
  <2>. QED BY <1>2, <2>1, <2>2
<1>7. CASE \E j \in At(l, "EOI") : NoneBefore(l, "SOF", j) \/ NoneBefore(l, "SOS", j)
  BY <1>1, <1>7 DEF NoneBefore
<1>. QED BY <1>3, <1>4, <1>5, <1>6, <1>7

LEMMA WebpStays ==
  ASSUME NEW l \in Seq(AnyPiece), NEW p \in AnyPiece, WebpDoomed(l)
  PROVE  WebpDoomed(Append(l, p))
<1>. DEFINE m == Append(l, p)
            n == Len(l)
<1>1. /\ n \in Nat
      /\ \A kind : At(l, kind) \subseteq 1..n
      /\ \A kind : At(l, kind) \subseteq At(m, kind) /\ At(m, kind) \subseteq At(l, kind) \cup {n + 1}
      /\ \A i \in 1..n : m[i] = l[i]
  BY AtGrows, AtType
<1>. SUFFICES WebpDoomed(m)
  OBVIOUS
<1>. HIDE DEF m
<1>. USE DEF WebpDoomed
<1>2. CASE ~Lacks(l, {"ANIM", "broken"})
  BY <1>1, <1>2 DEF Lacks
<1>3. CASE ~Once(l, "VP8") \/ ~Once(l, "VP8X")
  BY <1>1, <1>3 DEF Once
<1>4. CASE \E i \in At(l, "VP8"), j \in At(l, "VP8X") : i < j
  BY <1>1, <1>4
<1>5. CASE \E i \in At(l, "VP8X"), j \in At(l, "VP8") : l[i].value # l[j].value
  <2>1. PICK i \in At(l, "VP8X"), j \in At(l, "VP8") : l[i].value # l[j].value
    BY <1>5
  <2>2. m[i] = l[i] /\ m[j] = l[j] /\ i \in At(m, "VP8X") /\ j \in At(m, "VP8")
    BY <1>1
  <2>. QED BY <2>1, <2>2
<1>6. CASE \E j \in At(l, "end") : NoneBefore(l, "VP8", j)
  BY <1>1, <1>6 DEF NoneBefore
<1>. QED BY <1>2, <1>3, <1>4, <1>5, <1>6

\* No such file is an image.
LEMMA DoomedIsNone ==
  ASSUME NEW l \in Seq(AnyPiece), NEW m \in {"png", "jpeg", "webp"}, Doomed(m, l)
  PROVE  ~IsImage(m, l)
<1>1. Len(l) \in Nat /\ \A kind : At(l, kind) \subseteq 1..Len(l)
  BY AtType
<1>2. CASE m = "png"
  BY <1>1, <1>2 DEF Doomed, PngDoomed, IsImage, IsPng, Once, Sorted, NoneBefore
<1>3. CASE m = "jpeg"
  BY <1>1, <1>3 DEF Doomed, JpegDoomed, IsImage, IsJpeg, Sorted, NoneBefore
<1>4. CASE m = "webp"
  BY <1>1, <1>4 DEF Doomed, WebpDoomed, IsImage, IsWebp, Sorted, NoneBefore
<1>. QED BY <1>2, <1>3, <1>4

\* Nor is what is still being read: its end is missing.
LEMMA ReadIsNone ==
  ASSUME NEW l \in Seq(AnyPiece), NEW m \in {"png", "jpeg", "webp"}, NEW fl, NEW sz, Read(m, l, fl, sz)
  PROVE  ~IsImage(m, l)
<1>1. CASE m = "png"
  <2>1. CASE l = <<>>
    <3>1. At(l, "IHDR") = {}
      BY <2>1 DEF At
    <3>. QED BY <1>1, <3>1 DEF IsImage, IsPng
  <2>2. CASE l # <<>>
    BY <1>1, <2>2 DEF Read, PngRead, Lacks, IsImage, IsPng
  <2>. QED BY <2>1, <2>2
<1>2. CASE m = "jpeg"
  BY <1>2 DEF Read, JpegRead, Lacks, IsImage, IsJpeg
<1>3. CASE m = "webp"
  BY <1>3 DEF Read, WebpRead, Lacks, IsImage, IsWebp
<1>. QED BY <1>1, <1>2, <1>3

\* What one more piece adds.
LEMMA OneMorePiece ==
  ASSUME NEW p \in AnyPiece, pieces \in Seq(AnyPiece), pieces' = Append(pieces, p)
  PROVE  /\ pieces' \in Seq(AnyPiece) /\ Len(pieces) \in Nat /\ Len(pieces') = Len(pieces) + 1
         /\ pieces' # <<>> /\ pieces'[Len(pieces) + 1] = p
         /\ \A i \in 1..Len(pieces) : pieces'[i] = pieces[i]
         /\ \A kind : At(pieces, kind) \subseteq 1..Len(pieces)
         /\ At(pieces', p.kind) = At(pieces, p.kind) \cup {Len(pieces) + 1}
         /\ \A kind : kind # p.kind => At(pieces', kind) = At(pieces, kind)
<1>1. /\ pieces' \in Seq(AnyPiece) /\ Len(pieces) \in Nat /\ Len(pieces') = Len(pieces) + 1
      /\ pieces'[Len(pieces) + 1] = p
      /\ \A i \in 1..Len(pieces) : pieces'[i] = pieces[i]
      /\ \A kind : At(pieces', kind) =
           IF p.kind = kind THEN At(pieces, kind) \cup {Len(pieces) + 1} ELSE At(pieces, kind)
  BY AtGrows, AtType
<1>2. pieces' # <<>>
  BY <1>1
<1>. QED BY <1>1, <1>2, AtType

LEMMA PngHeaderStep ==
  ASSUME FormatInv, NEW p \in PngPieces, PngHeader(p)
  PROVE  FormatInv'
<1>1. /\ mime = "png" /\ mime' = "png" /\ verdict = "reading" /\ "ihdr" \notin flags
      /\ pieces \in Seq(AnyPiece) /\ pieces' = Append(pieces, p) /\ p \in AnyPiece
      /\ PngRead(pieces, flags, size)
  BY DEF PngHeader, Reads, FormatInv, Read, AnyPiece
<1>2. pieces = <<>>
  BY <1>1 DEF PngRead
<1>3. /\ pieces' \in Seq(AnyPiece) /\ pieces' # <<>> /\ Len(pieces') = 1 /\ pieces'[1] = p
      /\ At(pieces', p.kind) = {1}
      /\ \A kind : kind # p.kind => At(pieces', kind) = {}
  <2>1. Len(pieces) = 0 /\ \A kind : At(pieces, kind) = {}
    BY <1>2 DEF At
  <2>. QED BY <1>1, <2>1, OneMorePiece
<1>4. CASE p.kind = "IHDR"
  <2>1. verdict' = "reading" /\ flags' = {"ihdr"} /\ size' = p.value
    BY <1>1, <1>4 DEF PngHeader, Continues
  <2>2. At(pieces', "IHDR") = {1} /\ \A kind : kind # "IHDR" => At(pieces', kind) = {}
    BY <1>3, <1>4
  <2>3. PngRead(pieces', flags', size')
    BY <1>3, <2>1, <2>2 DEF PngRead, Lacks, Once, Sorted
  <2>. QED BY <1>1, <1>3, <2>1, <2>3 DEF FormatInv, Read
<1>5. CASE p.kind # "IHDR"
  <2>1. verdict' = "refused"
    BY <1>5 DEF PngHeader, Stops
  <2>2. At(pieces', "IHDR") = {}
    BY <1>3, <1>5
  <2>3. PngDoomed(pieces')
    BY <1>3, <2>2 DEF PngDoomed
  <2>. QED BY <1>1, <1>3, <2>1, <2>3 DEF FormatInv, Doomed
<1>. QED BY <1>4, <1>5

LEMMA PngPieceStep ==
  ASSUME FormatInv, NEW p \in PngPieces, PngPiece(p)
  PROVE  FormatInv'
<1>. DEFINE n == Len(pieces)
<1>1. /\ mime = "png" /\ mime' = "png" /\ verdict = "reading" /\ "ihdr" \in flags
      /\ pieces \in Seq(AnyPiece) /\ pieces' = Append(pieces, p) /\ p \in AnyPiece
      /\ PngRead(pieces, flags, size)
  BY DEF PngPiece, Reads, FormatInv, Read, AnyPiece
<1>2. /\ pieces' \in Seq(AnyPiece) /\ n \in Nat /\ Len(pieces') = n + 1 /\ pieces' # <<>>
      /\ \A kind : At(pieces, kind) \subseteq 1..n
      /\ At(pieces', p.kind) = At(pieces, p.kind) \cup {n + 1}
      /\ \A kind : kind # p.kind => At(pieces', kind) = At(pieces, kind)
  BY <1>1, OneMorePiece
<1>3. pieces # <<>> /\ n > 0 /\ pieces'[1] = pieces[1]
  <2>1. pieces # <<>>
    BY <1>1 DEF PngRead
  <2>2. n > 0
    BY <1>1, <2>1
  <2>. QED BY <1>1, <2>1, <2>2, OneMorePiece
<1>. HIDE DEF n
<1>4. PngRead(pieces, flags, size) /\ pieces # <<>>
  BY <1>1, <1>3
<1>5. ASSUME verdict' = "refused", PngDoomed(pieces') PROVE FormatInv'
  BY <1>1, <1>2, <1>5 DEF FormatInv, Doomed
<1>6. ASSUME verdict' = "reading", PngRead(pieces', flags', size') PROVE FormatInv'
  BY <1>1, <1>2, <1>6 DEF FormatInv, Read
<1>7. CASE p.kind \in {"IHDR", "broken", "critical"}
  <2>1. verdict' = "refused"
    BY <1>7 DEF PngPiece, Stops
  <2>2. CASE p.kind = "IHDR"
    <3>1. n + 1 \in At(pieces', "IHDR") /\ n + 1 # 1
      BY <1>2, <1>3, <2>2
    <3>. QED BY <1>2, <1>5, <2>1, <3>1 DEF PngDoomed
  <2>3. CASE p.kind \in {"broken", "critical"}
    <3>1. ~Lacks(pieces', {"IEND_more", "critical", "broken"})
      BY <1>2, <2>3 DEF Lacks
    <3>. QED BY <1>2, <1>5, <2>1, <3>1 DEF PngDoomed
  <2>. QED BY <1>7, <2>2, <2>3
<1>8. CASE p.kind = "PLTE"
  <2>1. /\ At(pieces', "PLTE") = At(pieces, "PLTE") \cup {n + 1}
        /\ \A kind : kind # "PLTE" => At(pieces', kind) = At(pieces, kind)
    BY <1>2, <1>8
  <2>2. CASE flags \cap {"plte", "idat"} # {} \/ size = "grey"
    <3>1. verdict' = "refused"
      BY <1>8, <2>2 DEF PngPiece, Stops
    <3>2. CASE "plte" \in flags
      <4>1. PICK i \in At(pieces, "PLTE") : i <= n
        BY <1>2, <1>4, <3>2 DEF PngRead
      <4>2. i \in At(pieces', "PLTE") /\ n + 1 \in At(pieces', "PLTE") /\ i # n + 1
        BY <1>2, <2>1, <4>1
      <4>3. ~Once(pieces', "PLTE")
        BY <4>2 DEF Once
      <4>. QED BY <1>2, <1>5, <3>1, <4>3 DEF PngDoomed
    <3>3. CASE "idat" \in flags
      <4>1. \E i \in At(pieces', "IDAT"), j \in At(pieces', "PLTE") : i < j
        BY <1>2, <1>4, <2>1, <3>3 DEF PngRead
      <4>. QED BY <1>2, <1>5, <3>1, <4>1 DEF PngDoomed
    <3>4. CASE size = "grey"
      <4>1. pieces'[1].value = "grey" /\ At(pieces', "PLTE") # {}
        BY <1>3, <1>4, <2>1, <3>4 DEF PngRead
      <4>. QED BY <1>2, <1>5, <3>1, <4>1 DEF PngDoomed
    <3>. QED BY <2>2, <3>2, <3>3, <3>4
  <2>3. CASE ~(flags \cap {"plte", "idat"} # {} \/ size = "grey")
    <3>1. /\ verdict' = "reading" /\ flags' = flags \cup {"plte"} /\ size' = size
      BY <1>1, <1>8, <2>3 DEF PngPiece, Continues
    <3>0. "plte" \notin flags /\ "idat" \notin flags /\ size # "grey"
      BY <2>3
    <3>2. At(pieces, "PLTE") = {} /\ At(pieces, "IDAT") = {} /\ "idat_ended" \notin flags
      BY <1>4, <3>0 DEF PngRead
    <3>3. Once(pieces', "PLTE") /\ Sorted(pieces', "PLTE", "IDAT")
      BY <2>1, <3>2 DEF Once, Sorted
    <3>4. PngRead(pieces', flags', size')
      BY <1>2, <1>3, <1>4, <2>1, <3>0, <3>1, <3>2, <3>3 DEF PngRead, Lacks
    <3>. QED BY <1>6, <3>1, <3>4
  <2>. QED BY <2>2, <2>3
<1>9. CASE p.kind = "IDAT"
  <2>1. /\ At(pieces', "IDAT") = At(pieces, "IDAT") \cup {n + 1}
        /\ \A kind : kind # "IDAT" => At(pieces', kind) = At(pieces, kind)
    BY <1>2, <1>9
  <2>2. CASE "idat_ended" \in flags
    <3>1. verdict' = "refused"
      BY <1>9, <2>2 DEF PngPiece, Stops
    <3>2. PICK i \in At(pieces, "IDAT") : \E k \in i..n : k \notin At(pieces, "IDAT")
      BY <1>4, <2>2 DEF PngRead, n
    <3>3. PICK k \in i..n : k \notin At(pieces, "IDAT")
      BY <3>2
    <3>4. i \in Int /\ k \in i..n + 1 /\ k \notin At(pieces', "IDAT")
      BY <1>2, <2>1, <3>2, <3>3
    <3>5. \E j \in At(pieces', "IDAT") : \E q \in i..j : q \notin At(pieces', "IDAT")
      BY <2>1, <3>4
    <3>6. i \in At(pieces', "IDAT")
      BY <2>1
    <3>. QED BY <1>2, <1>5, <3>1, <3>5, <3>6 DEF PngDoomed
  <2>3. CASE size = "palette" /\ "plte" \notin flags
    <3>1. verdict' = "refused"
      BY <1>9, <2>3 DEF PngPiece, Stops
    <3>2. /\ n + 1 \in At(pieces', "IDAT") /\ NoneBefore(pieces', "PLTE", n + 1)
          /\ pieces'[1].value = "palette"
      BY <1>3, <1>4, <2>1, <2>3 DEF PngRead, NoneBefore
    <3>. QED BY <1>2, <1>5, <3>1, <3>2 DEF PngDoomed
  <2>4. CASE "idat_ended" \notin flags /\ ~(size = "palette" /\ "plte" \notin flags)
    <3>1. verdict' = "reading" /\ flags' = flags \cup {"idat"} /\ size' = size
      BY <1>1, <1>9, <2>4 DEF PngPiece, Continues
    <3>2. \A i \in At(pieces', "IDAT") : \A k \in i..n + 1 : k \in At(pieces', "IDAT")
      BY <1>2, <1>4, <2>1, <2>4 DEF PngRead, n
    <3>3. \A i, j \in At(pieces', "IDAT") : \A k \in i..j : k \in At(pieces', "IDAT")
      BY <1>2, <2>1, <3>2
    <3>4. Sorted(pieces', "PLTE", "IDAT")
      BY <1>2, <1>4, <2>1 DEF PngRead, Sorted
    <3>5. size = "palette" => At(pieces', "PLTE") # {}
      BY <1>4, <2>1, <2>4 DEF PngRead
    <3>6. Once(pieces', "PLTE")
      BY <1>4, <2>1 DEF PngRead, Once
    <3>7. PngRead(pieces', flags', size')
      BY <1>2, <1>3, <1>4, <2>1, <2>4, <3>1, <3>2, <3>3, <3>4, <3>5, <3>6 DEF PngRead, Lacks
    <3>. QED BY <1>6, <3>1, <3>7
  <2>. QED BY <2>2, <2>3, <2>4
<1>10. CASE p.kind = "ancillary"
  <2>1. \A kind : kind # "ancillary" => At(pieces', kind) = At(pieces, kind)
    BY <1>2, <1>10
  <2>2. /\ verdict' = "reading" /\ size' = size
        /\ flags' = IF "idat" \in flags THEN flags \cup {"idat_ended"} ELSE flags
    BY <1>1, <1>10 DEF PngPiece, Continues, DataEnds
  <2>3. Once(pieces', "PLTE") /\ Sorted(pieces', "PLTE", "IDAT")
    BY <1>4, <2>1 DEF PngRead, Once, Sorted
  <2>4. CASE "idat" \in flags
    <3>1. PICK i \in At(pieces', "IDAT") : i <= n + 1
      BY <1>2, <1>4, <2>1, <2>4 DEF PngRead
    <3>2. n + 1 \notin At(pieces', "IDAT") /\ n + 1 \in i..n + 1
      BY <1>2, <2>1, <3>1
    <3>. QED BY <1>2, <1>3, <1>4, <1>6, <2>1, <2>2, <2>3, <2>4, <3>1, <3>2 DEF PngRead, Lacks
  <2>5. CASE "idat" \notin flags
    <3>1. At(pieces, "IDAT") = {} /\ "idat_ended" \notin flags
      BY <1>4, <2>5 DEF PngRead
    <3>. QED BY <1>2, <1>3, <1>4, <1>6, <2>1, <2>2, <2>3, <2>5, <3>1 DEF PngRead, Lacks
  <2>. QED BY <2>4, <2>5
<1>11. CASE p.kind = "IEND" /\ "idat" \in flags
  <2>1. /\ At(pieces', "IEND") = At(pieces, "IEND") \cup {n + 1}
        /\ \A kind : kind # "IEND" => At(pieces', kind) = At(pieces, kind)
    BY <1>2, <1>11
  <2>2. verdict' = "accepted"
    BY <1>11 DEF PngPiece, Decides, Stops
  <2>3. At(pieces', "IEND") = {n + 1} /\ Lacks(pieces', {"IEND_more", "critical", "broken"})
    BY <1>4, <2>1 DEF PngRead, Lacks
  <2>4. Once(pieces', "PLTE") /\ Sorted(pieces', "PLTE", "IDAT")
    BY <1>4, <2>1 DEF PngRead, Once, Sorted
  <2>5. IsPng(pieces')
    BY <1>2, <1>3, <1>4, <1>11, <2>1, <2>3, <2>4 DEF PngRead, IsPng
  <2>. QED BY <1>1, <1>2, <2>2, <2>5 DEF FormatInv, IsImage
<1>12. CASE p.kind = "IEND" /\ "idat" \notin flags
  <2>1. verdict' = "refused"
    BY <1>12 DEF PngPiece, Decides, Stops
  <2>2. n + 1 \in At(pieces', "IEND") /\ NoneBefore(pieces', "IDAT", n + 1)
    BY <1>2, <1>4, <1>12 DEF PngRead, NoneBefore
  <2>. QED BY <1>2, <1>5, <2>1, <2>2 DEF PngDoomed
<1>13. CASE p.kind = "IEND_more"
  <2>1. verdict' = "refused"
    BY <1>13 DEF PngPiece, Decides, Stops
  <2>2. ~Lacks(pieces', {"IEND_more", "critical", "broken"})
    BY <1>2, <1>13 DEF Lacks
  <2>. QED BY <1>2, <1>5, <2>1, <2>2 DEF PngDoomed
<1>14. p.kind \in {"IHDR", "PLTE", "IDAT", "critical", "ancillary", "broken", "IEND", "IEND_more"}
  BY DEF PngPieces, Piece
<1>. QED BY <1>7, <1>8, <1>9, <1>10, <1>11, <1>12, <1>13, <1>14

\* Whether a scan is open after one more piece.
LEMMA ScanGrows ==
  ASSUME NEW p \in AnyPiece, pieces \in Seq(AnyPiece), pieces' = Append(pieces, p)
  PROVE  /\ \A j \in 0..Len(pieces) : InScan(pieces', j) <=> InScan(pieces, j)
         /\ p.kind = "SOS" => InScan(pieces', Len(pieces) + 1)
         /\ p.kind \in {"entropy", "RST"} =>
              (InScan(pieces', Len(pieces) + 1) <=> InScan(pieces, Len(pieces)))
         /\ p.kind \notin {"SOS", "entropy", "RST"} => ~InScan(pieces', Len(pieces) + 1)
<1>. DEFINE n == Len(pieces)
<1>1. /\ n \in Nat
      /\ \A kind : At(pieces, kind) \subseteq 1..n
      /\ At(pieces', p.kind) = At(pieces, p.kind) \cup {n + 1}
      /\ \A kind : kind # p.kind => At(pieces', kind) = At(pieces, kind)
  BY OneMorePiece
<1>2. \A j \in 0..n : InScan(pieces', j) <=> InScan(pieces, j)
  BY ScanStays
<1>. HIDE DEF n
<1>3. CASE p.kind = "SOS"
  <2>1. n + 1 \in At(pieces', "SOS")
    BY <1>1, <1>3
  <2>2. \A k \in (n + 1) + 1 .. n + 1 : FALSE
    BY <1>1
  <2>. QED BY <1>1, <1>2, <1>3, <2>1, <2>2 DEF InScan, n
<1>4. CASE p.kind \in {"entropy", "RST"}
  <2>1. /\ At(pieces', "SOS") = At(pieces, "SOS")
        /\ At(pieces', "entropy") \cup At(pieces', "RST")
             = At(pieces, "entropy") \cup At(pieces, "RST") \cup {n + 1}
    BY <1>1, <1>4
  <2>2. ASSUME InScan(pieces, n) PROVE InScan(pieces', n + 1)
    <3>1. PICK i \in At(pieces, "SOS") :
            i <= n /\ \A k \in (i + 1)..n : k \in At(pieces, "entropy") \cup At(pieces, "RST")
      BY <2>2 DEF InScan
    <3>2. i \in Int /\ i <= n + 1
      BY <1>1, <3>1
    <3>3. \A k \in (i + 1) .. n + 1 : k \in At(pieces', "entropy") \cup At(pieces', "RST")
      BY <1>1, <2>1, <3>1, <3>2
    <3>. QED BY <2>1, <3>2, <3>3 DEF InScan
  <2>3. ASSUME InScan(pieces', n + 1) PROVE InScan(pieces, n)
    <3>1. PICK i \in At(pieces, "SOS") :
            /\ i <= n + 1
            /\ \A k \in (i + 1) .. n + 1 : k \in At(pieces', "entropy") \cup At(pieces', "RST")
      BY <2>1, <2>3 DEF InScan
    <3>2. i \in Int /\ i <= n
      BY <1>1
    <3>3. \A k \in (i + 1)..n : k \in At(pieces, "entropy") \cup At(pieces, "RST")
      BY <1>1, <2>1, <3>1, <3>2
    <3>. QED BY <3>2, <3>3 DEF InScan
  <2>. QED BY <1>2, <1>4, <2>2, <2>3 DEF n
<1>5. CASE p.kind \notin {"SOS", "entropy", "RST"}
  <2>1. /\ At(pieces', "SOS") = At(pieces, "SOS")
        /\ n + 1 \notin At(pieces', "entropy") \cup At(pieces', "RST")
    BY <1>1, <1>5
  <2>2. ASSUME NEW i \in At(pieces', "SOS") PROVE n + 1 \in (i + 1) .. n + 1
    BY <1>1, <2>1
  <2>3. ~InScan(pieces', n + 1)
    BY <2>1, <2>2 DEF InScan
  <2>. QED BY <1>2, <1>5, <2>3 DEF n
<1>. QED BY <1>3, <1>4, <1>5

LEMMA JpegPieceStep ==
  ASSUME FormatInv, NEW p \in JpegPieces, JpegPiece(p)
  PROVE  FormatInv'
<1>. DEFINE n == Len(pieces)
<1>1. /\ mime = "jpeg" /\ mime' = "jpeg" /\ verdict = "reading"
      /\ pieces \in Seq(AnyPiece) /\ pieces' = Append(pieces, p) /\ p \in AnyPiece
      /\ JpegRead(pieces, flags)
  BY DEF JpegPiece, Reads, FormatInv, Read, AnyPiece
<1>2. /\ pieces' \in Seq(AnyPiece) /\ n \in Nat /\ Len(pieces') = n + 1
      /\ \A kind : At(pieces, kind) \subseteq 1..n
      /\ At(pieces', p.kind) = At(pieces, p.kind) \cup {n + 1}
      /\ \A kind : kind # p.kind => At(pieces', kind) = At(pieces, kind)
  BY <1>1, OneMorePiece
<1>3. /\ \A j \in 0..n : InScan(pieces', j) <=> InScan(pieces, j)
      /\ p.kind = "SOS" => InScan(pieces', n + 1)
      /\ p.kind \in {"entropy", "RST"} => (InScan(pieces', n + 1) <=> InScan(pieces, n))
      /\ p.kind \notin {"SOS", "entropy", "RST"} => ~InScan(pieces', n + 1)
  BY <1>1, ScanGrows
<1>4. "in_scan" \in flags <=> InScan(pieces, n)
  BY <1>1 DEF JpegRead
<1>. HIDE DEF n
<1>5. ASSUME verdict' = "refused", JpegDoomed(pieces') PROVE FormatInv'
  BY <1>1, <1>2, <1>5 DEF FormatInv, Doomed
<1>6. ASSUME verdict' = "reading", JpegRead(pieces', flags') PROVE FormatInv'
  BY <1>1, <1>2, <1>6 DEF FormatInv, Read
<1>7. p.kind # "entropy" => \A j \in At(pieces', "entropy") : InScan(pieces', j)
  BY <1>1, <1>2, <1>3 DEF JpegRead
<1>8. CASE p.kind \in {"SOI", "broken"}
  <2>1. verdict' = "refused"
    BY <1>8 DEF JpegPiece, Stops
  <2>2. ~Lacks(pieces', {"EOI_more", "SOI", "broken"})
    BY <1>2, <1>8 DEF Lacks
  <2>. QED BY <1>5, <2>1, <2>2 DEF JpegDoomed
<1>9. CASE p.kind = "entropy" /\ "in_scan" \in flags
  <2>1. verdict' = "reading" /\ flags' = flags
    BY <1>1, <1>9 DEF JpegPiece, Continues
  <2>2. InScan(pieces', n + 1)
    BY <1>3, <1>4, <1>9
  <2>3. /\ At(pieces', "entropy") = At(pieces, "entropy") \cup {n + 1}
        /\ \A kind : kind # "entropy" => At(pieces', kind) = At(pieces, kind)
    BY <1>2, <1>9
  <2>4. \A j \in At(pieces', "entropy") : InScan(pieces', j)
    BY <1>1, <1>2, <1>3, <2>2, <2>3 DEF JpegRead
  <2>. QED BY <1>1, <1>2, <1>6, <1>9, <2>1, <2>2, <2>3, <2>4 DEF JpegRead, Lacks, Once, Sorted
<1>10. CASE p.kind = "entropy" /\ "in_scan" \notin flags
  <2>1. verdict' = "refused"
    BY <1>10 DEF JpegPiece, Stops
  <2>2. n + 1 \in At(pieces', "entropy") /\ ~InScan(pieces', n + 1)
    BY <1>2, <1>3, <1>4, <1>10
  <2>. QED BY <1>5, <2>1, <2>2 DEF JpegDoomed
<1>11. CASE p.kind = "RST"
  <2>1. verdict' = "reading" /\ flags' = flags
    BY <1>1, <1>11 DEF JpegPiece, Continues
  <2>2. "in_scan" \in flags' <=> InScan(pieces', n + 1)
    BY <1>3, <1>4, <1>11, <2>1
  <2>3. \A kind : kind # "RST" => At(pieces', kind) = At(pieces, kind)
    BY <1>2, <1>11
  <2>4. \A j \in At(pieces', "entropy") : InScan(pieces', j)
    BY <1>7, <1>11
  <2>. QED BY <1>1, <1>2, <1>6, <2>1, <2>2, <2>3, <2>4 DEF JpegRead, Lacks, Once, Sorted
<1>12. CASE p.kind \in {"segment", "TEM"}
  <2>1. verdict' = "reading" /\ flags' = flags \ {"in_scan"}
    BY <1>1, <1>12 DEF JpegPiece, Continues
  <2>2. ~InScan(pieces', n + 1)
    BY <1>3, <1>12
  <2>3. \A kind : kind \notin {"segment", "TEM"} => At(pieces', kind) = At(pieces, kind)
    BY <1>2, <1>12
  <2>4. \A j \in At(pieces', "entropy") : InScan(pieces', j)
    BY <1>7, <1>12
  <2>. QED BY <1>1, <1>2, <1>6, <2>1, <2>2, <2>3, <2>4 DEF JpegRead, Lacks, Once, Sorted
<1>13. CASE p.kind = "SOF" /\ "sof" \in flags
  <2>1. verdict' = "refused"
    BY <1>13 DEF JpegPiece, Stops
  <2>2. PICK i \in At(pieces, "SOF") : i <= n
    BY <1>1, <1>2, <1>13 DEF JpegRead
  <2>3. i \in At(pieces', "SOF") /\ n + 1 \in At(pieces', "SOF") /\ i # n + 1
    BY <1>2, <1>13, <2>2
  <2>4. ~Once(pieces', "SOF")
    BY <2>3 DEF Once
  <2>. QED BY <1>5, <2>1, <2>4 DEF JpegDoomed
<1>14. CASE p.kind = "SOF" /\ "sof" \notin flags
  <2>1. verdict' = "reading" /\ flags' = (flags \ {"in_scan"}) \cup {"sof"}
    BY <1>1, <1>14 DEF JpegPiece, Continues
  <2>2. ~InScan(pieces', n + 1)
    BY <1>3, <1>14
  <2>3. /\ At(pieces', "SOF") = {n + 1} /\ At(pieces', "SOS") = {}
        /\ At(pieces, "SOS") = {} /\ "scan" \notin flags
        /\ \A kind : kind # "SOF" => At(pieces', kind) = At(pieces, kind)
    BY <1>1, <1>2, <1>14 DEF JpegRead
  <2>4. \A j \in At(pieces', "entropy") : InScan(pieces', j)
    BY <1>7, <1>14
  <2>. QED BY <1>1, <1>2, <1>6, <2>1, <2>2, <2>3, <2>4 DEF JpegRead, Lacks, Once, Sorted
<1>15. CASE p.kind = "SOS" /\ "sof" \in flags
  <2>1. verdict' = "reading" /\ flags' = flags \cup {"scan", "in_scan"}
    BY <1>1, <1>15 DEF JpegPiece, Continues
  <2>2. InScan(pieces', n + 1)
    BY <1>3, <1>15
  <2>3. /\ At(pieces', "SOS") = At(pieces, "SOS") \cup {n + 1}
        /\ \A kind : kind # "SOS" => At(pieces', kind) = At(pieces, kind)
    BY <1>2, <1>15
  <2>4. \A j \in At(pieces', "entropy") : InScan(pieces', j)
    BY <1>7, <1>15
  <2>5. Sorted(pieces', "SOF", "SOS") /\ Once(pieces', "SOF")
    BY <1>1, <1>2, <2>3 DEF JpegRead, Sorted, Once
  <2>. QED BY <1>1, <1>2, <1>6, <1>15, <2>1, <2>2, <2>3, <2>4, <2>5 DEF JpegRead, Lacks
<1>16. CASE p.kind = "SOS" /\ "sof" \notin flags
  <2>1. verdict' = "refused"
    BY <1>16 DEF JpegPiece, Stops
  <2>2. n + 1 \in At(pieces', "SOS") /\ NoneBefore(pieces', "SOF", n + 1)
    BY <1>1, <1>2, <1>16 DEF JpegRead, NoneBefore
  <2>. QED BY <1>5, <2>1, <2>2 DEF JpegDoomed
<1>17. CASE p.kind = "EOI" /\ {"sof", "scan"} \subseteq flags
  <2>1. verdict' = "accepted"
    BY <1>17 DEF JpegPiece, Decides, Stops
  <2>2. /\ At(pieces', "EOI") = {n + 1}
        /\ \A kind : kind # "EOI" => At(pieces', kind) = At(pieces, kind)
    BY <1>1, <1>2, <1>17 DEF JpegRead, Lacks
  <2>3. \A j \in At(pieces', "entropy") : InScan(pieces', j)
    BY <1>7, <1>17
  <2>4. IsJpeg(pieces')
    BY <1>1, <1>2, <1>17, <2>2, <2>3 DEF JpegRead, IsJpeg, Lacks, Once, Sorted
  <2>. QED BY <1>1, <1>2, <2>1, <2>4 DEF FormatInv, IsImage
<1>18. CASE p.kind = "EOI" /\ ~({"sof", "scan"} \subseteq flags)
  <2>1. verdict' = "refused"
    BY <1>18 DEF JpegPiece, Decides, Stops
  <2>2. /\ n + 1 \in At(pieces', "EOI")
        /\ NoneBefore(pieces', "SOF", n + 1) \/ NoneBefore(pieces', "SOS", n + 1)
    BY <1>1, <1>2, <1>18 DEF JpegRead, NoneBefore
  <2>. QED BY <1>5, <2>1, <2>2 DEF JpegDoomed
<1>19. CASE p.kind = "EOI_more"
  <2>1. verdict' = "refused"
    BY <1>19 DEF JpegPiece, Decides, Stops
  <2>2. ~Lacks(pieces', {"EOI_more", "SOI", "broken"})
    BY <1>2, <1>19 DEF Lacks
  <2>. QED BY <1>5, <2>1, <2>2 DEF JpegDoomed
<1>20. p.kind \in {"SOF", "SOS", "segment", "RST", "TEM", "SOI", "entropy", "broken", "EOI",
                  "EOI_more"}
  BY DEF JpegPieces, Piece
<1>. QED BY <1>8, <1>9, <1>10, <1>11, <1>12, <1>13, <1>14, <1>15, <1>16, <1>17, <1>18, <1>19, <1>20

LEMMA WebpPieceStep ==
  ASSUME FormatInv, NEW p \in WebpPieces, WebpPiece(p)
  PROVE  FormatInv'
<1>. DEFINE n == Len(pieces)
<1>1. /\ mime = "webp" /\ mime' = "webp" /\ verdict = "reading"
      /\ pieces \in Seq(AnyPiece) /\ pieces' = Append(pieces, p) /\ p \in AnyPiece
      /\ WebpRead(pieces, flags, size)
  BY DEF WebpPiece, Reads, FormatInv, Read, AnyPiece
<1>2. /\ pieces' \in Seq(AnyPiece) /\ n \in Nat /\ Len(pieces') = n + 1
      /\ pieces'[n + 1] = p /\ \A i \in 1..n : pieces'[i] = pieces[i]
      /\ \A kind : At(pieces, kind) \subseteq 1..n
      /\ At(pieces', p.kind) = At(pieces, p.kind) \cup {n + 1}
      /\ \A kind : kind # p.kind => At(pieces', kind) = At(pieces, kind)
  BY <1>1, OneMorePiece
<1>. HIDE DEF n
<1>3. ASSUME verdict' = "refused", WebpDoomed(pieces') PROVE FormatInv'
  BY <1>1, <1>2, <1>3 DEF FormatInv, Doomed
<1>4. ASSUME verdict' = "reading", WebpRead(pieces', flags', size') PROVE FormatInv'
  BY <1>1, <1>2, <1>4 DEF FormatInv, Read
<1>5. \A kind : \A i \in At(pieces, kind) : pieces'[i] = pieces[i] /\ i < n + 1
  BY <1>2
<1>6. CASE p.kind \in {"ANIM", "broken"}
  <2>1. verdict' = "refused"
    BY <1>6 DEF WebpPiece, Stops
  <2>2. ~Lacks(pieces', {"ANIM", "broken"})
    BY <1>2, <1>6 DEF Lacks
  <2>. QED BY <1>3, <2>1, <2>2 DEF WebpDoomed
<1>7. CASE p.kind = "VP8X"
  <2>1. /\ At(pieces', "VP8X") = At(pieces, "VP8X") \cup {n + 1}
        /\ \A kind : kind # "VP8X" => At(pieces', kind) = At(pieces, kind)
    BY <1>2, <1>7
  <2>2. CASE flags # {}
    <3>1. verdict' = "refused"
      BY <1>7, <2>2 DEF WebpPiece, Stops
    <3>2. CASE "image" \in flags
      <4>1. \E i \in At(pieces', "VP8"), j \in At(pieces', "VP8X") : i < j
        BY <1>1, <1>5, <2>1, <3>2 DEF WebpRead
      <4>. QED BY <1>3, <3>1, <4>1 DEF WebpDoomed
    <3>3. CASE "extended" \in flags
      <4>1. PICK i \in At(pieces, "VP8X") : i < n + 1
        BY <1>1, <1>5, <3>3 DEF WebpRead
      <4>2. i \in At(pieces', "VP8X") /\ n + 1 \in At(pieces', "VP8X") /\ i # n + 1
        BY <1>2, <2>1, <4>1
      <4>3. ~Once(pieces', "VP8X")
        BY <4>2 DEF Once
      <4>. QED BY <1>3, <3>1, <4>3 DEF WebpDoomed
    <3>4. flags \subseteq {"image", "extended"}
      BY <1>1 DEF WebpRead
    <3>. QED BY <2>2, <3>2, <3>3, <3>4
  <2>3. CASE flags = {}
    <3>1. verdict' = "reading" /\ flags' = {"extended"} /\ size' = p.value
      BY <1>1, <1>7, <2>3 DEF WebpPiece, Continues
    <3>2. /\ At(pieces', "VP8X") = {n + 1} /\ At(pieces', "VP8") = {}
      BY <1>1, <2>1, <2>3 DEF WebpRead
    <3>3. size' # "none" /\ pieces'[n + 1].value = size'
      <4>1. p.value \in {"small", "large"}
        BY <1>7 DEF WebpPieces, Piece
      <4>. QED BY <1>2, <3>1, <4>1
    <3>. QED BY <1>1, <1>4, <2>1, <3>1, <3>2, <3>3 DEF WebpRead, Lacks, Once, Sorted
  <2>. QED BY <2>2, <2>3
<1>8. CASE p.kind = "VP8"
  <2>1. /\ At(pieces', "VP8") = At(pieces, "VP8") \cup {n + 1}
        /\ \A kind : kind # "VP8" => At(pieces', kind) = At(pieces, kind)
    BY <1>2, <1>8
  <2>2. CASE "image" \in flags
    <3>1. verdict' = "refused"
      BY <1>8, <2>2 DEF WebpPiece, Stops
    <3>2. PICK i \in At(pieces, "VP8") : i < n + 1
      BY <1>1, <1>5, <2>2 DEF WebpRead
    <3>3. i \in At(pieces', "VP8") /\ n + 1 \in At(pieces', "VP8") /\ i # n + 1
      BY <1>2, <2>1, <3>2
    <3>4. ~Once(pieces', "VP8")
      BY <3>3 DEF Once
    <3>. QED BY <1>3, <3>1, <3>4 DEF WebpDoomed
  <2>3. CASE size \notin {"none", p.value}
    <3>1. verdict' = "refused"
      BY <1>8, <2>3 DEF WebpPiece, Stops
    <3>2. PICK i \in At(pieces, "VP8X") : pieces[i].value = size
      BY <1>1, <2>3 DEF WebpRead
    <3>3. /\ i \in At(pieces', "VP8X") /\ n + 1 \in At(pieces', "VP8")
          /\ pieces'[i].value # pieces'[n + 1].value
      BY <1>2, <1>5, <2>1, <2>3, <3>2
    <3>. QED BY <1>3, <3>1, <3>3 DEF WebpDoomed
  <2>4. CASE "image" \notin flags /\ size \in {"none", p.value}
    <3>1. verdict' = "reading" /\ flags' = flags \cup {"image"} /\ size' = size
      BY <1>1, <1>8, <2>4 DEF WebpPiece, Continues
    <3>2. At(pieces', "VP8") = {n + 1}
      BY <1>1, <2>1, <2>4 DEF WebpRead
    <3>3. \A i \in At(pieces', "VP8X") : pieces'[i].value = size /\ i < n + 1
      BY <1>1, <1>5, <2>1 DEF WebpRead
    <3>4. Sorted(pieces', "VP8X", "VP8") /\ Once(pieces', "VP8")
      BY <3>2, <3>3 DEF Sorted, Once
    <3>5. \A j \in At(pieces', "VP8") : size \in {"none", pieces'[j].value}
      BY <1>2, <2>4, <3>2
    <3>6. Once(pieces', "VP8X")
      BY <1>1, <2>1 DEF WebpRead, Once
    <3>. QED BY <1>1, <1>4, <2>1, <3>1, <3>2, <3>3, <3>4, <3>5, <3>6 DEF WebpRead, Lacks
  <2>. QED BY <2>2, <2>3, <2>4
<1>9. CASE p.kind \in {"ICCP", "other"}
  <2>1. \A kind : kind \notin {"ICCP", "other"} => At(pieces', kind) = At(pieces, kind)
    BY <1>2, <1>9
  <2>2. verdict' = "reading" /\ flags' = flags /\ size' = size
    BY <1>1, <1>9 DEF WebpPiece, Continues
  <2>3. /\ \A i \in At(pieces', "VP8X") : pieces'[i].value = size
        /\ \A j \in At(pieces', "VP8") : size \in {"none", pieces'[j].value}
    BY <1>1, <1>5, <2>1 DEF WebpRead
  <2>. QED BY <1>1, <1>4, <2>1, <2>2, <2>3 DEF WebpRead, Lacks, Once, Sorted
<1>10. CASE p.kind = "end" /\ "image" \in flags
  <2>1. verdict' = "accepted"
    BY <1>10 DEF WebpPiece, Decides, Stops
  <2>2. /\ At(pieces', "end") = {n + 1}
        /\ \A kind : kind # "end" => At(pieces', kind) = At(pieces, kind)
    BY <1>1, <1>2, <1>10 DEF WebpRead, Lacks
  <2>3. \A i \in At(pieces', "VP8X"), j \in At(pieces', "VP8") : pieces'[i].value = pieces'[j].value
    <3>1. ASSUME NEW i \in At(pieces, "VP8X"), NEW j \in At(pieces, "VP8")
          PROVE  pieces[i].value = size /\ size # "none" /\ size \in {"none", pieces[j].value}
      BY <1>1 DEF WebpRead
    <3>2. At(pieces', "VP8X") = At(pieces, "VP8X") /\ At(pieces', "VP8") = At(pieces, "VP8")
      BY <2>2
    <3>. QED BY <1>5, <3>1, <3>2
  <2>4. IsWebp(pieces')
    BY <1>1, <1>2, <1>10, <2>2, <2>3 DEF WebpRead, IsWebp, Lacks, Once, Sorted
  <2>. QED BY <1>1, <1>2, <2>1, <2>4 DEF FormatInv, IsImage
<1>11. CASE p.kind = "end" /\ "image" \notin flags
  <2>1. verdict' = "refused"
    BY <1>11 DEF WebpPiece, Decides, Stops
  <2>2. n + 1 \in At(pieces', "end") /\ NoneBefore(pieces', "VP8", n + 1)
    BY <1>1, <1>2, <1>11 DEF WebpRead, NoneBefore
  <2>. QED BY <1>3, <2>1, <2>2 DEF WebpDoomed
<1>12. p.kind \in {"VP8", "VP8X", "ANIM", "ICCP", "other", "broken", "end"}
  BY DEF WebpPieces, Piece
<1>. QED BY <1>6, <1>7, <1>8, <1>9, <1>10, <1>11, <1>12

LEMMA FormatStart == FormatInit => FormatInv
BY DEF FormatInit, FormatInv, Read, PngRead, JpegRead, WebpRead, Lacks, Once, Sorted, InScan, At

LEMMA FormatStep == ASSUME FormatInv, [FormatNext]_parser PROVE FormatInv'
<1>1. ASSUME NEW p \in PieceOf(mime), Unread(p) PROVE FormatInv'
  <2>1. p \in AnyPiece
    BY DEF PieceOf, FormatInv, AnyPiece
  <2>2. /\ verdict = "refused" /\ verdict' = "refused" /\ mime' = mime
        /\ pieces \in Seq(AnyPiece) /\ pieces' = Append(pieces, p)
        /\ mime \in {"png", "jpeg", "webp"} /\ Doomed(mime, pieces)
    BY <1>1 DEF Unread, FormatInv
  <2>3. pieces' \in Seq(AnyPiece)
    BY <2>1, <2>2
  <2>4. Doomed(mime', pieces')
    BY <2>1, <2>2, PngStays, JpegStays, WebpStays DEF Doomed
  <2>. QED BY <2>2, <2>3, <2>4 DEF FormatInv
<1>2. CASE UNCHANGED parser
  BY <1>2 DEF parser, FormatInv
<1>. QED BY <1>1, <1>2, PngHeaderStep, PngPieceStep, JpegPieceStep, WebpPieceStep DEF FormatNext

\* The formats, by places and by numbers of pieces.
LEMMA CountedOnce ==
  ASSUME NEW l \in Seq(AnyPiece), NEW kind
  PROVE  /\ Cardinality(At(l, kind)) \in Nat
         /\ Cardinality(At(l, kind)) <= 1 <=> Once(l, kind)
         /\ Cardinality(At(l, kind)) = 1 <=> At(l, kind) # {} /\ Once(l, kind)
<1>. DEFINE s == At(l, kind)
<1>1. IsFiniteSet(s)
  <2>1. 1 \in Int /\ Len(l) \in Int
    BY AtType
  <2>2. IsFiniteSet(1..Len(l))
    BY <2>1, FS_Interval
  <2>3. s \subseteq 1..Len(l)
    BY AtType
  <2>. QED BY <2>2, <2>3, FS_Subset
<1>. HIDE DEF s
<1>2. Cardinality(s) \in Nat /\ (Cardinality(s) = 0 <=> s = {})
  BY <1>1, FS_CardinalityType, FS_EmptySet
<1>3. Cardinality(s) = 1 <=> \E x : s = {x}
  BY <1>1, FS_Singleton
<1>4. Cardinality(s) <= 1 <=> \A i, j \in s : i = j
  <2>1. ASSUME Cardinality(s) <= 1 PROVE \A i, j \in s : i = j
    BY <1>2, <1>3, <2>1
  <2>2. ASSUME \A i, j \in s : i = j PROVE Cardinality(s) <= 1
    <3>1. CASE s = {}
      BY <1>2, <3>1
    <3>2. CASE s # {}
      <4>1. PICK x : x \in s
        BY <3>2
      <4>2. s = {x}
        BY <2>2, <4>1
      <4>3. Cardinality(s) = 1
        BY <1>3, <4>2
      <4>. QED BY <4>3
    <3>. QED BY <3>1, <3>2
  <2>. QED BY <2>1, <2>2
<1>5. Cardinality(s) = 1 <=> s # {} /\ \A i, j \in s : i = j
  BY <1>2, <1>4
<1>. QED BY <1>2, <1>4, <1>5 DEF s, Once

LEMMA PngFormat == ASSUME FormatInv PROVE ValidPng <=> IsPng(pieces)
<1>1. \A kind : Places(kind) = At(pieces, kind)
  BY DEF Places, Is, At
<1>2. \A kind : Cardinality(At(pieces, kind)) <= 1 <=> Once(pieces, kind)
  BY CountedOnce DEF FormatInv
<1>3. Free({"IEND_more", "critical", "broken"}) <=> Lacks(pieces, {"IEND_more", "critical", "broken"})
  BY DEF Free, Lacks, At
<1>4. ASSUME NEW i \in At(pieces, "IDAT"), NEW j \in At(pieces, "IDAT"), NEW k \in i..j
      PROVE  Is(k, "IDAT") <=> k \in At(pieces, "IDAT")
  <2>1. i \in 1..Len(pieces) /\ j \in 1..Len(pieces) /\ Len(pieces) \in Nat
    BY AtType DEF FormatInv
  <2>2. k \in DOMAIN pieces
    BY <2>1 DEF FormatInv
  <2>. QED BY <2>2 DEF Is, At
<1>. QED BY <1>1, <1>2, <1>3, <1>4 DEF ValidPng, IsPng, Final, Before, Sorted

LEMMA JpegFormat == ASSUME FormatInv PROVE JpegFrame <=> IsJpeg(pieces)
<1>1. \A kind : Places(kind) = At(pieces, kind)
  BY DEF Places, Is, At
<1>2. \A kind : Cardinality(At(pieces, kind)) = 1 <=> At(pieces, kind) # {} /\ Once(pieces, kind)
  BY CountedOnce DEF FormatInv
<1>3. Free({"EOI_more", "SOI", "broken"}) <=> Lacks(pieces, {"EOI_more", "SOI", "broken"})
  BY DEF Free, Lacks, At
<1>4. ASSUME NEW j \in At(pieces, "entropy")
      PROVE  InScan(pieces, j) <=>
               \E i \in At(pieces, "SOS") :
                 i < j /\ \A k \in (i + 1)..j : Is(k, "entropy") \/ Is(k, "RST")
  <2>1. /\ DOMAIN pieces = 1..Len(pieces) /\ Len(pieces) \in Nat /\ j \in 1..Len(pieces)
        /\ At(pieces, "SOS") \subseteq 1..Len(pieces)
    BY AtType DEF FormatInv
  <2>2. ASSUME NEW i \in At(pieces, "SOS"), NEW k \in (i + 1)..j
        PROVE  Is(k, "entropy") \/ Is(k, "RST") <=> k \in At(pieces, "entropy") \cup At(pieces, "RST")
    BY <2>1 DEF Is, At
  <2>3. j \notin At(pieces, "SOS")
    BY DEF At
  <2>4. ASSUME NEW i \in At(pieces, "SOS") PROVE i <= j <=> i < j
    BY <2>1, <2>3
  <2>. QED BY <2>2, <2>4 DEF InScan
<1>. QED BY <1>1, <1>2, <1>3, <1>4 DEF JpegFrame, IsJpeg, Final, Before, Sorted

LEMMA WebpFormat == ASSUME FormatInv PROVE WebpFrame <=> IsWebp(pieces)
<1>1. \A kind : Places(kind) = At(pieces, kind)
  BY DEF Places, Is, At
<1>2. \A kind : /\ Cardinality(At(pieces, kind)) <= 1 <=> Once(pieces, kind)
                /\ Cardinality(At(pieces, kind)) = 1 <=> At(pieces, kind) # {} /\ Once(pieces, kind)
  BY CountedOnce DEF FormatInv
<1>3. Free({"ANIM", "broken"}) <=> Lacks(pieces, {"ANIM", "broken"})
  BY DEF Free, Lacks, At
<1>. QED BY <1>1, <1>2, <1>3 DEF WebpFrame, IsWebp, Final, Sorted

\* sniff_image_mime: whatever the pieces of a file and their order, the flags of the
\* loops let every image through that keeps to its standard, and of the others only those
\* whose one fault is a deviation that Tolerated names; of PNG, none.
THEOREM StructureSoundTheorem == Spec => []StructureSound
<1>1. Init => FormatInv
  BY FormatStart DEF Init
<1>2. FormatInv /\ [Next]_svars => FormatInv'
  BY FormatStep, StepOfOne
<1>3. FormatInv => StructureSound
  <2>. SUFFICES ASSUME FormatInv PROVE StructureSound
    OBVIOUS
  <2>1. Valid => IsImage(mime, pieces)
    BY PngFormat, JpegFormat, WebpFormat DEF FormatInv, Valid, ValidJpeg, ValidWebp, IsImage
  <2>2. IsImage(mime, pieces) => Valid \/ Tolerated
    <3>1. CASE mime = "png"
      BY <3>1, PngFormat DEF Valid, IsImage
    <3>2. CASE mime = "jpeg"
      BY <3>2, JpegFormat DEF Valid, ValidJpeg, Tolerated, IsImage
    <3>3. CASE mime = "webp"
      BY <3>3, WebpFormat DEF Valid, ValidWebp, Tolerated, IsImage
    <3>. QED BY <3>1, <3>2, <3>3 DEF FormatInv
  <2>3. pieces \in Seq(AnyPiece) /\ mime \in {"png", "jpeg", "webp"}
    BY DEF FormatInv
  <2>4. CASE verdict = "reading"
    BY <2>1, <2>3, <2>4, ReadIsNone DEF FormatInv, StructureSound
  <2>5. CASE verdict = "accepted"
    BY <2>2, <2>5 DEF FormatInv, StructureSound
  <2>6. CASE verdict = "refused"
    BY <2>1, <2>3, <2>6, DoomedIsNone DEF FormatInv, StructureSound
  <2>. QED BY <2>4, <2>5, <2>6 DEF FormatInv
<1>. QED BY <1>1, <1>2, <1>3, PTL DEF Spec

-----------------------------------------------------------------------------
(* The next times of a cron job.  The search keeps one invariant: the local*)
(* minutes between now and the one looked at do not fit.  What it returns  *)
(* is then the first minute that the expression wants, wherever the clock  *)
(* goes back or forth in between.                                          *)

\* The variables of the search have the types that its arithmetic needs.
CronType ==
  /\ zone \in Zones
  /\ clock \in Int /\ since \in Int /\ t \in Int /\ left \in Nat
  /\ nextRun \in Int \cup {Never}

\* The search for the job's next run has looked at every minute up to t.
ScanInv ==
  phase = "scan" =>
    /\ nextRun = Never
    /\ left <= Limit /\ t = Wall(since) + 1 + Limit - left
    /\ \A w \in Wall(since) + 1 .. t - 1 : ~Fits(expr, w)

CronInv == CronType /\ ScanInv

LEMMA LimitType == Limit \in Nat
BY CalendarAssumption DEF Limit

LEMMA ZoneType ==
  ASSUME zone \in Zones
  PROVE  /\ zone.east \in Int /\ zone.gap \in Int /\ zone.fold \in Int
         /\ zone.gap = zone.fold \/ zone.gap + 2 * HourLen <= zone.fold
BY ZoneAssumption

LEMMA WallType == ASSUME zone \in Zones, NEW u \in Int PROVE Wall(u) \in Int
BY ZoneType, CalendarAssumption DEF Wall, Summer

LEMMA UtcType == ASSUME zone \in Zones, NEW w \in Int PROVE Utc(w) \in Int
BY ZoneType, CalendarAssumption DEF Utc, Summer

\* A local time after the one of now, outside of the hour that comes twice,
\* means a point in time after now.
LEMMA UtcLater ==
  ASSUME zone \in Zones, NEW u \in Int, NEW w \in Int, ~Repeated(u), w > Wall(u)
  PROVE  Utc(w) > u
<1>1. /\ zone.east \in Int /\ zone.gap \in Int /\ zone.fold \in Int
      /\ zone.gap = zone.fold \/ zone.gap + 2 * HourLen <= zone.fold
  BY ZoneType
<1>2. HourLen \in Nat \ {0}
  BY CalendarAssumption
<1>. QED BY <1>1, <1>2 DEF Utc, Wall, Summer, Repeated

\* What the offsets of a zone do to the two clocks.
LEMMA ZoneCases ==
  ASSUME zone \in Zones
  PROVE  /\ zone.east \in Int /\ zone.gap \in Int /\ zone.fold \in Int /\ HourLen \in Nat \ {0}
         /\ zone.gap < zone.fold => zone.gap + 2 * HourLen <= zone.fold
         /\ zone.gap >= zone.fold => zone.gap = zone.fold
BY ZoneType, CalendarAssumption

\* A point in time before the one that a local time stands for has an earlier
\* local time, or the hour of summer time that is left out lies in between.
LEMMA WallBefore ==
  ASSUME zone \in Zones, NEW u \in Int, NEW w \in Int, u < Utc(w)
  PROVE  \/ Wall(u) < w
         \/ /\ zone.gap < zone.fold
            /\ w \in zone.gap + zone.east .. zone.gap + zone.east + HourLen - 1
            /\ u >= zone.gap /\ u + zone.east < w /\ Wall(u) = u + zone.east + HourLen
BY ZoneCases DEF Utc, Wall, Summer

LEMMA WallAfter ==
  ASSUME zone \in Zones, NEW v \in Int, NEW u \in Int, v < u, ~Repeated(v)
  PROVE  Wall(v) < Wall(u)
BY ZoneCases DEF Wall, Summer, Repeated

\* In a year of local minutes there are at least as many minutes, but one hour.
LEMMA WallWithin ==
  ASSUME zone \in Zones, NEW v \in Int, NEW u \in Int, v < u, ~Repeated(v), NEW n \in Nat, u <= v + n - HourLen
  PROVE  Wall(u) <= Wall(v) + n
BY ZoneCases DEF Wall, Summer, Repeated

\* The point in time of a local time has this local time, unless it is left out.
LEMMA UtcBack ==
  ASSUME zone \in Zones, NEW w \in Int
  PROVE  \/ Wall(Utc(w)) = w
         \/ /\ zone.gap < zone.fold /\ Utc(w) \in zone.gap .. zone.gap + HourLen - 1
            /\ Wall(Utc(w)) - HourLen = w
BY ZoneCases DEF Utc, Wall, Summer

\* Minutes come back after an hour.
LEMMA Remainder ==
  ASSUME NEW h \in Nat \ {0}, NEW q \in Int, NEW r \in 0 .. h - 1
  PROVE  (q * h + r) % h = r
OBVIOUS

LEMMA SameMinute == ASSUME NEW w \in Int PROVE Minute(w - HourLen) = Minute(w)
<1>. DEFINE h == HourLen
            q == w \div h
            r == w % h
<1>1. h \in Nat \ {0}
  BY CalendarAssumption
<1>. HIDE DEF h
<1>2. w = q * h + r /\ r \in 0 .. h - 1 /\ q \in Int
  BY <1>1
<1>. HIDE DEF q, r
<1>3. w - h = (q - 1) * h + r /\ q - 1 \in Int
  BY <1>1, <1>2
<1>4. ((q - 1) * h + r) % h = r
  BY <1>1, <1>2, <1>3, Remainder
<1>. QED BY <1>3, <1>4 DEF Minute, r, h

\* Of two local times that are left out, what fits but for its minute fits.
LEMMA GapFits ==
  ASSUME zone \in Zones, zone.gap < zone.fold, Fits(expr, t),
         NEW v \in Int, Fits(expr, v + HourLen),
         v \in zone.gap + zone.east .. zone.gap + zone.east + HourLen - 1,
         t \in zone.gap + zone.east .. zone.gap + zone.east + HourLen - 1
  PROVE  Fits(expr, v)
<1>1. Hour(v) = Hour(t) /\ v \div DayLen = t \div DayLen
  BY GapAssumption
<1>2. Minute(v + HourLen) = Minute(v)
  <2>1. HourLen \in Int /\ v + HourLen \in Int /\ (v + HourLen) - HourLen = v
    BY CalendarAssumption
  <2>. QED BY <2>1, SameMinute
<1>3. Date(v) = Date(t) /\ Weekday(v) = Weekday(t)
  BY <1>1 DEF Date, Weekday
<1>. QED BY <1>1, <1>2, <1>3 DEF Fits, DayOk

\* The rule for days in the code and what an expression stands for are one.
LEMMA FitsIsWanted == ASSUME NEW u PROVE Wanted(u) <=> Fits(expr, Wall(u))
<1>1. \A val : Matches(val, Star)
  BY DEF Matches, Star
<1>. QED BY <1>1 DEF Wanted, Fits, DayOk

-----------------------------------------------------------------------------
\* The types are kept.
LEMMA CronTypeStep == ASSUME CronType, [CronNext]_cron PROVE CronType'
<1>. USE DEF CronType
<1>1. CASE Tick
  BY <1>1 DEF Tick, job
<1>2. CASE Search
  <2>1. Wall(clock) \in Int /\ Limit \in Nat
    BY WallType, LimitType
  <2>. QED BY <1>2, <2>1 DEF Search, job
<1>3. CASE Hit
  <2>1. Utc(t) \in Int
    BY UtcType
  <2>. QED BY <1>3, <2>1 DEF Hit, job
<1>4. CASE Miss
  BY <1>4 DEF Miss, job
<1>5. CASE GiveUp
  BY <1>5 DEF GiveUp, job
<1>6. CASE UNCHANGED cron
  BY <1>6 DEF cron, job
<1>. QED BY <1>1, <1>2, <1>3, <1>4, <1>5, <1>6 DEF CronNext, AddJob, RunJob

\* The search leaves no minute out.
LEMMA ScanStep == ASSUME CronInv, [CronNext]_cron PROVE ScanInv'
<1>. USE DEF CronInv
<1>1. CASE Tick
  BY <1>1 DEF Tick, job, ScanInv
<1>2. CASE Search
  <2>1. Wall(clock) \in Int /\ Limit \in Nat
    BY WallType, LimitType DEF CronType
  <2>2. CASE expr = Malformed
    BY <1>2, <2>2 DEF Search, ScanInv
  <2>3. CASE expr # Malformed
    <3>1. /\ nextRun' = Never /\ since' = clock /\ t' = Wall(clock) + 1 /\ left' = Limit
          /\ UNCHANGED <<expr, zone>>
      BY <1>2, <2>3 DEF Search, job
    <3>2. Wall(since)' = Wall(clock)
      BY <3>1 DEF Wall, Summer
    <3>. QED BY <3>1, <3>2, <2>1 DEF ScanInv
  <2>. QED BY <2>2, <2>3
<1>3. CASE Hit
  BY <1>3 DEF Hit, ScanInv
<1>4. CASE Miss
  <2>1. /\ t' = t + 1 /\ left' = left - 1 /\ left > 0 /\ ~Fits(expr, t)
        /\ UNCHANGED <<expr, zone, since, nextRun>> /\ phase = "scan"
    BY <1>4 DEF Miss, job
  <2>2. Wall(since)' = Wall(since) /\ Wall(since) \in Int /\ Limit \in Nat
    BY <2>1, WallType, LimitType DEF Wall, Summer, CronType
  <2>3. left' <= Limit /\ t' = Wall(since) + 1 + Limit - left'
    BY <2>1, <2>2 DEF ScanInv, CronType
  <2>4. \A w \in Wall(since) + 1 .. t' - 1 : ~Fits(expr, w)
    BY <2>1, <2>2 DEF ScanInv, CronType
  <2>. QED BY <2>1, <2>2, <2>3, <2>4 DEF ScanInv, Fits, DayOk, Matches
<1>5. CASE GiveUp
  BY <1>5 DEF GiveUp, ScanInv
<1>6. CASE UNCHANGED cron
  <2>1. UNCHANGED <<expr, zone, phase, since, nextRun, t, left>>
    BY <1>6 DEF cron, job
  <2>. QED BY <2>1 DEF ScanInv, Wall, Summer
<1>. QED BY <1>1, <1>2, <1>3, <1>4, <1>5, <1>6 DEF CronNext, AddJob, RunJob

-----------------------------------------------------------------------------
\* What a zone and an expression make of a minute does not change.
LEMMA SamePlan ==
  ASSUME UNCHANGED <<expr, zone>>, NEW u
  PROVE  /\ Wanted(u)' <=> Wanted(u)
         /\ Repeated(u)' <=> Repeated(u)
         /\ Skipped(u)' <=> Skipped(u)
BY DEF Wanted, Repeated, Skipped, Fits, DayOk, Wall, Summer

\* What the search returns is the first wanted minute.
LEMMA FirstStep == ASSUME CronInv, NextIsFirst, [CronNext]_cron PROVE NextIsFirst'
<1>. USE DEF CronInv
<1>1. CASE Tick
  <2>1. UNCHANGED <<expr, zone, since, nextRun>> /\ phase' = "wait" => phase = "wait"
    BY <1>1 DEF Tick, job
  <2>. QED BY <1>1, <2>1, SamePlan DEF Tick, job, NextIsFirst, Limit
<1>2. CASE Search
  BY <1>2 DEF Search, NextIsFirst, job
<1>3. CASE Hit
  <2>1. /\ nextRun' = Utc(t) /\ left > 0 /\ phase = "scan" /\ Fits(expr, t)
        /\ UNCHANGED <<expr, zone, since>>
    BY <1>3 DEF Hit, job
  <2>2. /\ zone \in Zones /\ since \in Int /\ t \in Int /\ Wall(since) \in Int /\ Utc(t) \in Int
        /\ Limit \in Nat
    BY <2>1, WallType, UtcType, LimitType DEF CronType
  <2>3. t > Wall(since) /\ \A w \in Wall(since) + 1 .. t - 1 : ~Fits(expr, w)
    BY <2>1, <2>2 DEF ScanInv, CronType
  <2>4. SUFFICES ASSUME ~Repeated(since)
                 PROVE  /\ Utc(t) # Never /\ Utc(t) > since
                        /\ Wanted(Utc(t)) \/ Skipped(Utc(t))
                        /\ \A u \in since + 1 .. Utc(t) - 1 : ~Wanted(u)
    BY <2>1, SamePlan DEF NextIsFirst
  <2>5. Utc(t) # Never /\ Utc(t) > since
    BY <2>2, <2>3, <2>4, UtcLater, CalendarAssumption
  <2>6. Wanted(Utc(t)) \/ Skipped(Utc(t))
    BY <2>1, <2>2, UtcBack, FitsIsWanted DEF Skipped
  <2>7. ASSUME NEW u \in since + 1 .. Utc(t) - 1 PROVE ~Wanted(u)
    <3>1. u \in Int /\ since < u /\ u < Utc(t) /\ Wall(u) \in Int
      BY <2>2, WallType
    <3>2. Wall(since) < Wall(u)
      BY <2>2, <2>4, <3>1, WallAfter
    <3>3. CASE Wall(u) < t
      <4>1. Wall(u) \in Wall(since) + 1 .. t - 1
        BY <2>2, <3>1, <3>2, <3>3
      <4>. QED BY <2>3, <4>1, FitsIsWanted
    <3>4. CASE ~(Wall(u) < t)
      <4>1. /\ zone.gap < zone.fold
            /\ t \in zone.gap + zone.east .. zone.gap + zone.east + HourLen - 1
            /\ u >= zone.gap /\ u + zone.east < t /\ Wall(u) = u + zone.east + HourLen
        BY <2>2, <3>1, <3>4, WallBefore
      <4>2. zone.east \in Int /\ zone.gap \in Int /\ HourLen \in Nat \ {0}
        BY <2>2, ZoneCases
      <4>3. /\ u + zone.east \in Int
            /\ u + zone.east \in zone.gap + zone.east .. zone.gap + zone.east + HourLen - 1
        BY <3>1, <4>1, <4>2
      <4>4. u + zone.east \in Wall(since) + 1 .. t - 1
        <5>1. Wall(since) < u + zone.east
          BY <2>2, <3>1, <2>3, <4>1, <4>2 DEF Wall, Summer
        <5>. QED BY <2>2, <3>1, <4>1, <4>2, <5>1
      <4>5. ~Fits(expr, u + zone.east)
        BY <2>3, <4>4
      <4>. QED BY <2>1, <2>2, <4>1, <4>3, <4>5, GapFits, FitsIsWanted
    <3>. QED BY <3>3, <3>4
  <2>. QED BY <2>5, <2>6, <2>7
<1>4. CASE Miss
  BY <1>4 DEF Miss, NextIsFirst
<1>5. CASE GiveUp
  <2>1. /\ phase = "scan" /\ left = 0 /\ nextRun = Never
        /\ UNCHANGED <<expr, zone, since, nextRun>>
    BY <1>5 DEF GiveUp, job, ScanInv
  <2>2. zone \in Zones /\ since \in Int /\ Wall(since) \in Int /\ Limit \in Nat
    BY <2>1, WallType, LimitType DEF CronType
  <2>3. \A w \in Wall(since) + 1 .. Wall(since) + Limit : ~Fits(expr, w)
    BY <2>1, <2>2 DEF ScanInv, CronType
  <2>4. ASSUME ~Repeated(since), NEW u \in since + 1 .. since + Limit - HourLen PROVE ~Wanted(u)
    <3>1. u \in Int /\ since < u /\ u <= since + Limit - HourLen /\ Wall(u) \in Int
      BY <2>2, WallType, CalendarAssumption
    <3>2. Wall(since) < Wall(u) /\ Wall(u) <= Wall(since) + Limit
      BY <2>2, <2>4, <3>1, WallAfter, WallWithin
    <3>3. Wall(u) \in Wall(since) + 1 .. Wall(since) + Limit
      BY <2>2, <3>1, <3>2
    <3>. QED BY <2>3, <3>3, FitsIsWanted
  <2>. QED BY <2>1, <2>4, SamePlan DEF NextIsFirst, Limit
<1>6. CASE UNCHANGED cron
  <2>1. UNCHANGED <<expr, zone, phase, since, nextRun>>
    BY <1>6 DEF cron, job
  <2>. QED BY <2>1, SamePlan DEF NextIsFirst, Limit
<1>. QED BY <1>1, <1>2, <1>3, <1>4, <1>5, <1>6 DEF CronNext, AddJob, RunJob

-----------------------------------------------------------------------------
LEMMA CronInvariant == Spec => []CronInv
<1>1. Init => CronInv
  BY DEF Init, CronInit, CronInv, CronType, ScanInv
<1>2. CronInv /\ [Next]_svars => CronInv'
  BY CronTypeStep, ScanStep, StepOfOne DEF CronInv
<1>. QED BY <1>1, <1>2, PTL DEF Spec

\* _cron_next_local: in every zone, on any calendar, a job waits for the first minute
\* its expression wants, and for none only if a year has none.
THEOREM NextIsFirstTheorem == Spec => []NextIsFirst
<1>1. Init => NextIsFirst
  BY DEF Init, CronInit, NextIsFirst
<1>2. CronInv /\ NextIsFirst /\ [Next]_svars => NextIsFirst'
  BY FirstStep, StepOfOne
<1>. QED BY <1>1, <1>2, CronInvariant, PTL DEF Spec

=============================================================================

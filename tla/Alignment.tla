------------------------------ MODULE Alignment ------------------------------
(* Scoring a recitation against the canonical text:                          *)
(* services/ml-inference/alignment.js, and predictAlignment of server.mjs,   *)
(* which decides what it is scored on.  Pure functions; what they promise is *)
(* stated for every input over the constants below.                          *)
(*                                                                           *)
(* A word is a sequence of letters, of which a few stand for the classes     *)
(* the code tells apart.  Similarities are fractions of Exact, which every   *)
(* length up to four divides, so that nothing is rounded.                     *)
EXTENDS Integers, Sequences, FiniteSets, FiniteSetsExt

CONSTANTS Written,      \* words of the canonical text
          Spoken,       \* words a recogniser may return
          MaxWords      \* bound: words of a passage, and of a recitation

ASSUME WordAssumption == MaxWords \in Nat /\ \A w \in Written \cup Spoken : Len(w) \in 0..4

Exact == 600
MatchedAt == 570          \* 0.95
MatchThreshold == 510     \* 0.85
ReviewThreshold == 390    \* 0.65
GapUnhalved == ReviewThreshold
Gap == ReviewThreshold \div 2

-----------------------------------------------------------------------------
(* Letters.  Diacritics and pause marks vanish, variants of alef become      *)
(* alef, taa marbuta becomes haa; a hamza on its carrier stays.              *)
Silent == {"fatha", "waqf"}
normalizeArabic(w) ==
  LET heard == SelectSeq(w, LAMBDA c : c \notin Silent)
  IN  [k \in DOMAIN heard |-> CASE heard[k] = "madda" -> "alef"
                                [] heard[k] = "taaMarbuta" -> "haa"
                                [] OTHER -> heard[k]]

isNonRecitedMark(w) == w # <<>> /\ \A k \in DOMAIN w : w[k] = "waqf"

(* Edits are counted in halves: a hamza carrier for its bare letter is one.  *)
substitutionCost(a, b) == IF a = b THEN 0 ELSE IF {a, b} = {"waw", "hamzaWaw"} THEN 1 ELSE 2

(* The rows of the table, each from the one above.                           *)
levenshtein(a, b) ==
  LET Rows[i \in 0..Len(a)] ==
        IF i = 0 THEN [j \in 0..Len(b) |-> 2 * j]
        ELSE LET above == Rows[i - 1]
                 row[j \in 0..Len(b)] ==
                   IF j = 0 THEN 2 * i
                   ELSE Min({above[j] + 2, row[j - 1] + 2,
                             above[j - 1] + substitutionCost(a[i], b[j])})
             IN  [j \in 0..Len(b) |-> row[j]]
  IN  Rows[Len(a)][Len(b)]

similarity(a, b) ==
  LET na == normalizeArabic(a)
      nb == normalizeArabic(b)
      maxLen == IF Len(na) > Len(nb) THEN Len(na) ELSE Len(nb)
  IN  IF maxLen = 0 THEN Exact
      ELSE Exact - (Exact \div (2 * maxLen)) * levenshtein(na, nb)

-----------------------------------------------------------------------------
(* Needleman and Wunsch over two word lists whose similarities are known:    *)
(* per cell the score of the words so far, and the pairs the way back takes. *)
Cell(score, pairs) == [score |-> score, pairs |-> pairs]
BestCell(diag, up, left) ==
  IF left.score > diag.score /\ left.score > up.score THEN left
  ELSE IF up.score > diag.score THEN up ELSE diag
pairing(m, n, sim) ==
  LET Skip(cell) == Cell(cell.score + Gap, cell.pairs)
      Rows[i \in 0..m] ==
        IF i = 0 THEN [j \in 0..n |-> Cell(j * Gap, {})]
        ELSE LET above == Rows[i - 1]
                 row[j \in 0..n] ==
                   IF j = 0 THEN Cell(i * Gap, {})
                   ELSE BestCell(Cell(above[j - 1].score + sim[<<i, j>>],
                                      above[j - 1].pairs \cup {<<i, j>>}),
                                 Skip(above[j]), Skip(row[j - 1]))
             IN  [j \in 0..n |-> row[j]]
  IN  Rows[m][n].pairs

Status(s) == IF s >= MatchedAt THEN "matched"
             ELSE IF s >= MatchThreshold THEN "needs-review" ELSE "misread"

(* One result per recited word, with the index of the word heard for it (0   *)
(* when missed) whose timing it takes, and the recognised words left over.   *)
alignWords(canonicalWords, recognizedWords) ==
  LET recited == SelectSeq(canonicalWords, LAMBDA w : ~isNonRecitedMark(w))
      m == Len(recited)
      n == Len(recognizedWords)
      sim == [p \in (1..m) \X (1..n) |-> similarity(recited[p[1]], recognizedWords[p[2]])]
      pairs == {p \in pairing(m, n, sim) : sim[p] >= ReviewThreshold}
  IN  [words |-> [i \in 1..m |->
                    IF \E j \in 1..n : <<i, j>> \in pairs
                    THEN LET j == CHOOSE j \in 1..n : <<i, j>> \in pairs
                         IN  [heard |-> j, status |-> Status(sim[<<i, j>>])]
                    ELSE [heard |-> 0, status |-> "missed"]],
       extra |-> {j \in 1..n : ~\E i \in 1..m : <<i, j>> \in pairs}]

(* Confidence over the canonical words only ("extra" does not count): the    *)
(* words' weights, in tenths, and their number.                              *)
CONFIDENCE_WEIGHTS(status) == CASE status = "matched" -> 10 [] status = "needs-review" -> 8
                                [] status = "misread" -> 5 [] OTHER -> 0
calculateConfidence(words) ==
  [weight |-> MapThenSumSet(LAMBDA i : CONFIDENCE_WEIGHTS(words[i].status), DOMAIN words), of |-> Len(words)]
AutoAccepted(confidence) == confidence.of > 0 /\ 100 * confidence.weight >= 850 * confidence.of

-----------------------------------------------------------------------------
(* A request to predictAlignment: whether external ASR is asked for, what    *)
(* the consent says, whether audio comes with it (and what ASR would hear in *)
(* it), and the text the caller sends, if it does.                           *)
Requests ==
  [externalAsrRequested : BOOLEAN, externalAsrProcessing : BOOLEAN, guardianApproved : BOOLEAN,
   child : BOOLEAN, audio : BOOLEAN, text : BOOLEAN]

asrAllowed(q) == q.externalAsrRequested /\ q.externalAsrProcessing /\ q.guardianApproved
AnyAudio(q) == TRUE
asrActuallyAllowed(q) == asrAllowed(q) /\ (q.child => q.guardianApproved)

(* externalAsr, and the audit event that goes with it.                       *)
externalAsr(q) ==
  CASE asrAllowed(q) /\ ~q.child                      -> "consent-granted"
    [] asrAllowed(q) /\ q.child /\ q.guardianApproved -> "child-profile-guardian-approved"
    [] q.externalAsrRequested /\ q.child /\ ~q.guardianApproved
                                                      -> "child-profile-no-guardian-consent"
    [] OTHER -> IF q.externalAsrRequested THEN "consent-revoked-or-insufficient"
                ELSE "not-requested"
AuditedAsCalled(q) == externalAsr(q) \in {"consent-granted", "child-profile-guardian-approved"}

AudioSent(q) == q.audio /\ asrActuallyAllowed(q)
Recognized(q) == AudioSent(q) \/ q.text

predictAlignment(q, canonicalWords, asr, text) ==
  LET aligned == alignWords(canonicalWords, IF AudioSent(q) THEN asr ELSE text).words
      unheard == [i \in DOMAIN canonicalWords |-> [heard |-> 0, status |-> "needs-review"]]
  IN  IF Recognized(q)
      THEN [words |-> aligned,
            reviewStatus |-> IF asrAllowed(q) /\ AutoAccepted(calculateConfidence(aligned))
                             THEN "ai-suggested" ELSE "teacher-review-required"]
      ELSE [words |-> unheard, reviewStatus |-> "teacher-review-required"]

-----------------------------------------------------------------------------
(* The reference: all ways to pair two sequences without crossing.           *)
UpTo(n, S) == UNION {[1..k -> S] : k \in 0..n}

Uncrossed(P) ==
  \A p, q \in P : p # q => p[1] # q[1] /\ p[2] # q[2] /\ (p[1] < q[1] => p[2] < q[2])
Pairings(m, n) == {P \in SUBSET ((1..m) \X (1..n)) : Uncrossed(P)}

(* What a pairing of m with n is worth: its pairs, and a gap for each that   *)
(* is left out.                                                              *)
Worth(worth, gap, m, n, P) ==
  SumFunctionOnSet(worth, P) + gap * (m + n - 2 * Cardinality(P))

LeastEdits(a, b) ==
  LET cost == [p \in (1..Len(a)) \X (1..Len(b)) |-> substitutionCost(a[p[1]], b[p[2]])]
  IN  Min({Worth(cost, 2, Len(a), Len(b), P) : P \in Pairings(Len(a), Len(b))})

EditsAreLeast(n) ==
  \A a, b \in UpTo(n, {"alef", "waw", "hamzaWaw"}) : levenshtein(a, b) = LeastEdits(a, b)

FairAlignment(written, spoken) ==
  LET recited == SelectSeq(written, LAMBDA w : ~isNonRecitedMark(w))
      m == Len(recited)
      n == Len(spoken)
      sim == [p \in (1..m) \X (1..n) |-> similarity(recited[p[1]], spoken[p[2]])]
      Score(P) == Worth(sim, ReviewThreshold \div 2, m, n, P)
      result == alignWords(written, spoken)
      heard == {i \in DOMAIN result.words : result.words[i].heard # 0}
      pairs == {<<i, result.words[i].heard>> : i \in heard}
  IN  /\ DOMAIN result.words = 1..m
      /\ pairs \in Pairings(m, n)
      /\ result.extra = (1..n) \ {p[2] : p \in pairs}
      /\ \A P \in Pairings(m, n) : Score(P) <= Score(pairs)
      /\ \A i \in 1..m :
           result.words[i].status = IF i \in heard THEN Status(sim[<<i, result.words[i].heard>>])
                                    ELSE "missed"

(* For every passage, and every recitation of at most n words.               *)
FairUpTo == [n \in 0..MaxWords |->
  /\ EditsAreLeast(n)
  /\ \A written \in UpTo(MaxWords, Written), spoken \in UpTo(n, Spoken) :
       FairAlignment(written, spoken)]

(* Consent before audio, and no verdict without something recognised, for    *)
(* every request, with a text from elsewhere or without one.                 *)
Judged(q, written, asr, text) ==
  LET answer == predictAlignment(q, written, asr, text)
      claims == \E i \in DOMAIN answer.words : answer.words[i].status # "needs-review"
  IN  /\ claims => AudioSent(q) \/ q.text
      /\ answer.reviewStatus = "ai-suggested" =>
           AuditedAsCalled(q) /\ \E i \in DOMAIN answer.words : answer.words[i].heard # 0
JudgedWith == [transcribed \in BOOLEAN |->
  \A q \in {r \in Requests : r.text => transcribed} :
    /\ AudioSent(q) => AuditedAsCalled(q) /\ q.externalAsrProcessing /\ q.guardianApproved
    /\ \A written \in UpTo(1, Written), asr \in UpTo(2, Spoken), text \in UpTo(1, Spoken) :
         Judged(q, written, asr, text)]
=============================================================================

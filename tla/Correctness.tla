----------------------------- MODULE Correctness -----------------------------
(***************************************************************************)
(* The validators that compare what a candidate printed with what the      *)
(* baseline printed (benchmark/correctness.py), on the output that the     *)
(* sandbox lets through (sandbox/executor.py).                             *)
(*                                                                         *)
(* An output is a sequence of tokens: a timing marker, a word, an integer, *)
(* a decimal, or a checksum line.                                          *)
(***************************************************************************)
EXTENDS Integers, SequencesExt

CONSTANTS
    Cap,     \* tokens the sandbox keeps of a stream
    Epsilon  \* tolerance of the numeric comparison

ASSUME OutputAssumption == Cap \in Nat /\ Epsilon \in Nat

Token(kind, value) == [kind |-> kind, value |-> value]
\* "[TRUNCATED: stdout exceeded 10MB limit]", in which numbers are found too.
Cut == Token("cut", 10)

\* execute: what is kept of a stream.
Captured(out) == IF Len(out) > Cap THEN Append(SubSeq(out, 1, Cap), Cut) ELSE out

\* The tokens of some kinds, in their order.
Only(kinds, out) ==
    LET found[i \in 0..Len(out)] ==
            IF i = 0 THEN <<>>
            ELSE IF out[i].kind \in kinds THEN Append(found[i - 1], out[i]) ELSE found[i - 1]
    IN  found[Len(out)]
Kinds == {"marker", "word", "integer", "decimal", "checksum", "cut"}

\* strip_autotune_time_markers.
Strip(out) == Only(Kinds \ {"marker"}, out)

\* An observation: whether the run succeeded, its exit code, its two streams.
Observation(ok, exit, out, err) == [ok |-> ok, exit |-> exit, out |-> out, err |-> err]

\* What the validator is given of a run that came to its end.
Seen(o) == [o EXCEPT !.out = Captured(@), !.err = Captured(@)]
\* A run without an exit status of its own: timeout or exception.
Lost    == Observation(FALSE, -1, <<>>, <<>>)

----------------------------------------------------------------------------
(* The strategies; b is the baseline's observation, c the candidate's.     *)

ExitCodeAccepts(b, c) == c.ok /\ c.exit = b.exit

StdoutAccepts(b, c) == c.ok /\ Strip(c.out) = Strip(b.out)

\* Mutant: timing markers are compared like the rest.
ExactWithMarkers(b, c) == c.ok /\ c.exit = b.exit /\ c.out = b.out /\ c.err = b.err

ExactAccepts(b, c) ==
    c.ok /\ c.exit = b.exit /\ Strip(c.out) = Strip(b.out) /\ c.err = b.err

\* extract_checksum: of the first checksum, which is in tenths here, the digits
\* before the decimal point (correctness.py:255).
Checksums(out) == Only({"checksum"}, Strip(out))
Extracted(out) == Head(Checksums(out)).value \div 10
ChecksumAccepts(b, c) ==
    /\ c.ok /\ c.exit = b.exit
    /\ IF Checksums(b.out) # <<>> /\ Checksums(c.out) # <<>>
       THEN Extracted(b.out) = Extracted(c.out)
       ELSE Strip(b.out) = Strip(c.out)

Abs(n) == IF n < 0 THEN -n ELSE n

\* re.findall with [-+]?\d*\.\d+|\d+: the sign of a number without a decimal
\* point, such as an exponent, is not part of the match.
Parsed(t) == IF t.kind = "decimal" THEN t.value ELSE Abs(t.value)
Numbers(out) ==
    LET found == Only(Kinds \ {"word"}, Strip(out))
    IN  [i \in DOMAIN found |-> Parsed(found[i])]

Close(x, y) == Len(x) = Len(y) /\ \A i \in DOMAIN x : Abs(x[i] - y[i]) =< Epsilon

\* Mutant: zip stops at the end of the shorter list.
NumericZipped(b, c) ==
    LET x == Numbers(b.out)  y == Numbers(c.out) IN
    /\ c.ok /\ c.exit = b.exit
    /\ \A i \in DOMAIN x \cap DOMAIN y : Abs(x[i] - y[i]) =< Epsilon

NumericAccepts(b, c) ==
    LET x == Numbers(b.out)  y == Numbers(c.out) IN
    /\ c.ok /\ c.exit = b.exit
    /\ IF x = <<>> /\ y = <<>> THEN Strip(b.out) = Strip(c.out)
       ELSE Close(x, y)

\* FileDigestValidator looks only whether the files are there, and does not
\* look at the run; CustomScriptValidator asks a script, if there is one.
DigestAccepts(side) == side.artifacts # "missing"
ScriptAccepts(side) == side.script = "accepts"

Single(name, b, c, side) ==
    CASE name = "exitcode" -> ExitCodeAccepts(b, c)
      [] name = "stdout"   -> StdoutAccepts(b, c)
      [] name = "exact"    -> ExactAccepts(b, c)
      [] name = "checksum" -> ChecksumAccepts(b, c)
      [] name = "numeric"  -> NumericAccepts(b, c)
      [] name = "digest"   -> DigestAccepts(side)
      [] name = "script"   -> ScriptAccepts(side)

Strategies == {"exitcode", "stdout", "exact", "checksum", "numeric", "digest", "script"}

\* CompositeValidator: all in turn; a single strategy is a list of one.
Accepts(list, b, c, side) == \A i \in DOMAIN list : Single(list[i], b, c, side)

----------------------------------------------------------------------------
(* What the strategies are for (docs/correctness.md:28-38).                *)

Values(out) ==
    LET found == Only(Kinds \ {"word"}, Strip(out))
    IN  [i \in DOMAIN found |-> found[i].value]
Magnitudes(out) == [i \in DOMAIN Values(out) |-> Abs(Values(out)[i])]

\* Indistinguishable but for their timing markers.
Alike(b, c) == b.exit = c.exit /\ Strip(b.out) = Strip(c.out) /\ b.err = c.err

Promised(name, b, c, side) ==
    CASE name = "exitcode" -> b.exit = c.exit
      [] name = "stdout"   -> Strip(b.out) = Strip(c.out)
      [] name = "exact"    -> Alike(b, c)
      [] name = "checksum" -> Checksums(b.out) = Checksums(c.out) \/ Strip(b.out) = Strip(c.out)
      [] name = "numeric"  -> Close(Values(b.out), Values(c.out))
      [] name = "digest"   -> side.artifacts = "same"
      [] name = "script"   -> side.script = "accepts"

\* How far a strategy falls short of that: of artifacts it does not see the
\* content, of integers the sign, of checksums the fraction and all but the first.
Signed(out) == \E i \in DOMAIN out : out[i].kind # "decimal" /\ out[i].value < 0
Coarse(out) == Len(Checksums(out)) > 1 \/ \E i \in DOMAIN Checksums(out) : Checksums(out)[i].value % 10 # 0
Nearly(name, b, c, side) ==
    \/ name = "digest" /\ side.artifacts = "different"
    \/ /\ name = "numeric" /\ (Signed(b.out) \/ Signed(c.out))
       /\ Close(Magnitudes(b.out), Magnitudes(c.out))
    \/ /\ name = "checksum" /\ (Coarse(b.out) \/ Coarse(c.out))
       /\ Checksums(b.out) # <<>> /\ Checksums(c.out) # <<>> /\ Extracted(b.out) = Extracted(c.out)

\* The sandbox cuts one of the streams.
Beyond(b, c) == \E o \in {b, c} : Len(o.out) > Cap \/ Len(o.err) > Cap
=============================================================================

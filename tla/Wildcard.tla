------------------------------ MODULE Wildcard ------------------------------
(***************************************************************************)
(* matches_bytes of wildcard.rs: a pattern with `*' and `?' against a text, *)
(* one turn of its loop at a time.                                          *)
(***************************************************************************)
EXTENDS Naturals, Sequences, SequencesExt

CONSTANTS
    Bytes,       \* the bytes of patterns and texts
    MaxPattern,  \* bound on the length of a pattern
    MaxText      \* bound on the length of a text

VARIABLES
    pattern, text,  \* the arguments
    p, t,           \* the next byte of each, counted from 1
    star,           \* the most recent `*' and the text it was met at, or <<>>
    turns,          \* how often the loop has turned
    result          \* "running", or what is returned

vars == <<pattern, text, p, t, star, turns, result>>

Special == {"*", "?"}

Init ==
    /\ pattern \in BoundedSeq(Bytes \cup Special, MaxPattern)
    /\ text \in BoundedSeq(Bytes, MaxText)
    /\ p = 1 /\ t = 1
    /\ star = <<>>
    /\ turns = 0
    /\ result = "running"

Looping == result = "running" /\ t <= Len(text)

Turn == turns' = turns + 1 /\ UNCHANGED <<pattern, text>>

\* A `*' is given the empty run first.
Star ==
    /\ Looping /\ p <= Len(pattern) /\ pattern[p] = "*"
    /\ star' = <<p, t>>
    /\ p' = p + 1
    /\ Turn /\ UNCHANGED <<t, result>>

\* A `*' of the pattern is never a byte of the text, not even of a text that has one.
Fits == p <= Len(pattern) /\ pattern[p] # "*" /\ pattern[p] \in {"?", text[t]}

\* One byte of the text is taken by `?' or by itself.
Byte ==
    /\ Looping /\ Fits
    /\ p' = p + 1 /\ t' = t + 1
    /\ Turn /\ UNCHANGED <<star, result>>

Stuck == ~Fits /\ ~(p <= Len(pattern) /\ pattern[p] = "*")

ResumeSame == star[2]

\* Where the text is taken up again once the `*' takes one byte more.
Resume == star[2] + 1

\* A mismatch goes back to the most recent `*' alone.
Backtrack ==
    /\ Looping /\ Stuck
    /\ \/ /\ star # <<>>
          /\ p' = star[1] + 1 /\ t' = Resume
          /\ star' = <<star[1], Resume>>
          /\ UNCHANGED result
       \/ star = <<>> /\ result' = "no" /\ UNCHANGED <<p, t, star>>
    /\ Turn

RestEmpty == p > Len(pattern)

\* What is left of the pattern must be stars.
RestStars == \A i \in p..Len(pattern) : pattern[i] = "*"

Finish ==
    /\ result = "running" /\ t > Len(text)
    /\ result' = IF RestStars THEN "yes" ELSE "no"
    /\ UNCHANGED <<pattern, text, p, t, star, turns>>

Next == Star \/ Byte \/ Backtrack \/ Finish

Spec == Init /\ [][Next]_vars

-----------------------------------------------------------------------------
\* Types.
TypeOK ==
    /\ p \in 1..(Len(pattern) + 1) /\ t \in 1..(Len(text) + 1)
    /\ star # <<>> => /\ star[1] \in DOMAIN pattern /\ pattern[star[1]] = "*"
                      /\ star[2] \in 1..(Len(text) + 1)
    /\ result \in {"running", "yes", "no"}

\* Where in the text the pattern from i on matches all that is left, trying every run of
\* every `*'.
MatchFrom[i \in 1..(Len(pattern) + 1)] ==
    IF i > Len(pattern)
    THEN {Len(text) + 1}
    ELSE {j \in 1..(Len(text) + 1) :
            IF pattern[i] = "*"
            THEN \E k \in j..(Len(text) + 1) : k \in MatchFrom[i + 1]
            ELSE /\ j <= Len(text) /\ pattern[i] \in {"?", text[j]}
                 /\ j + 1 \in MatchFrom[i + 1]}

Match == 1 \in MatchFrom[1]

\* Going back to the most recent `*' alone finds a match whenever trying every run of every
\* `*' would find one, and never one more (matches_bytes).
AsEverySplit == result # "running" => (result = "yes") = Match

\* The loop turns at most once for every byte of the pattern at every byte of the text,
\* however many stars the pattern has ("Trying every split of every `*` instead would take
\* time exponential in the number of stars").
TurnsBounded == turns <= (Len(pattern) + 1) * (Len(text) + 1)

\* The matcher is right and quick.
MatchesAsEverySplit == TypeOK /\ AsEverySplit /\ TurnsBounded
=============================================================================

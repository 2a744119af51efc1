---------------------------- MODULE CampaignCopy ----------------------------
(* How a campaign's copy is made: one call of the model, the repairs the     *)
(* server makes on its answer, the safety check on what would be public, and *)
(* the schema of the stored spec; with the retries of the lifecycle around   *)
(* it.  A text is a sequence of words.  Fields under the same rules are      *)
(* represented by one: name for the single texts, hooks for the lists that   *)
(* must be distinct.  Three lists are stored and not shown: the descriptions *)
(* of the pictures, the claims the owner is asked to review, and the record  *)
(* of the claims left out.                                                   *)
EXTENDS Integers, FiniteSets, SequencesExt

CONSTANTS
    Words,      \* the words a text may have
    Terms,      \* words that may be published only if the input has them
    Channels,   \* those of them that name a channel, replaced by "channels"
    Claims,     \* words that are a prohibited claim by themselves
    ClaimPairs, \* pairs of words that are one when only white space is between them
    Boasts,     \* words an entry of the safety record must have one of
    Figures,    \* numbers in such an entry
    Glue,       \* the word two neighbours become when white space is removed
    Fallbacks,  \* the server's own questions and answers
    MaxLen,     \* words that fit a text
    Sources,    \* the words an input may have
    Candidates, \* answers of the model
    MaxCalls    \* stage attempts of GENERATING (3)

Text == Seq(Words)
Answered == [q : Text, a : Text]
Copies == [name : Text, hooks : Seq(Text), tags : Seq(Text), faq : Seq(Answered),
           assumptions : Seq(Text),
           visualPrompts : Seq(Text), claimsToReview : Seq(Text), removed : Seq(Text)]

ASSUME CopyAssumption ==
    /\ Channels \subseteq Terms /\ "channels" \notin Channels
    /\ MaxLen \in Nat \ {0} /\ MaxCalls \in Nat \ {0}
    /\ \A p \in DOMAIN Glue : Glue[p] \in Words
    /\ {"channels", "#", "market"} \subseteq Words

\* The answers have the shape of the schema, which asks for three questions.
ASSUME AnswersAssumption ==
    /\ Candidates \subseteq Copies
    /\ \A c \in Candidates : Len(c.faq) <= Len(Fallbacks)

\* The server's own questions differ, and need nothing of the input.
ASSUME FallbacksAssumption ==
    /\ Fallbacks \in Seq(Answered)
    /\ \A i, j \in DOMAIN Fallbacks : Fallbacks[i].q = Fallbacks[j].q => i = j
    /\ \A i \in DOMAIN Fallbacks :
           Range(Fallbacks[i].q \o Fallbacks[i].a) \cap Terms = {}

VARIABLES
    source, \* the words of the idea, background and solution
    phase,  \* ready to call, failed, done
    answer, \* the last answer of the model
    spec,   \* the spec that is stored
    error,  \* code of the last failure
    calls   \* calls of the model that were made

vars == <<source, phase, answer, spec, error, calls>>

NoCopy == [name |-> <<>>, hooks |-> <<>>, tags |-> <<>>, faq |-> <<>>,
           assumptions |-> <<>>,
           visualPrompts |-> <<>>, claimsToReview |-> <<>>, removed |-> <<>>]
NoError == "none"
Errors == {"unsafe", "request_failed", "empty", "billing", "schema"}

-----------------------------------------------------------------------------
(* A change of every text of an answer. *)
EachText(F(_), c) ==
    [name |-> F(c.name),
     hooks |-> [i \in DOMAIN c.hooks |-> F(c.hooks[i])],
     tags |-> [i \in DOMAIN c.tags |-> F(c.tags[i])],
     faq |-> [i \in DOMAIN c.faq |-> [q |-> F(c.faq[i].q), a |-> F(c.faq[i].a)]],
     assumptions |-> [i \in DOMAIN c.assumptions |-> F(c.assumptions[i])],
     visualPrompts |-> [i \in DOMAIN c.visualPrompts |-> F(c.visualPrompts[i])],
     claimsToReview |-> [i \in DOMAIN c.claimsToReview |-> F(c.claimsToReview[i])],
     removed |-> [i \in DOMAIN c.removed |-> F(c.removed[i])]]

(* filter and new Set(...): the entries that are in a set, and each once.    *)
Only(list, kept) ==
    FoldLeft(LAMBDA u, x : IF x \in kept THEN Append(u, x) ELSE u, <<>>, list)
Once(list) ==
    FoldLeft(LAMBDA u, x : IF Contains(u, x) THEN u ELSE Append(u, x), <<>>, list)

Distinct(list) == \A i, j \in DOMAIN list : list[i] = list[j] => i = j
Questions(c) == [i \in DOMAIN c.faq |-> c.faq[i].q]
Ungrounded(t, s) == \E i \in DOMAIN t : t[i] \in Terms \ s

HasClaim(t) ==
    \/ \E i \in DOMAIN t : t[i] \in Claims
    \/ \E i \in 1..(Len(t) - 1) : <<t[i], t[i + 1]>> \in ClaimPairs

(* Channels the input does not name become "channels", a list of them one.   *)
Said(w, s) == IF w \in Channels \ s THEN "channels" ELSE w
Put(t, w) == IF w = "channels" /\ t # <<>> /\ Last(t) = w THEN t ELSE Append(t, w)
Replaced(t, s) == FoldLeft(LAMBDA u, w : Put(u, Said(w, s)), <<>>, t)
WithoutChannels(c, s) == EachText(LAMBDA t : Replaced(t, s), c)

(* Texts that are too long are cut; nothing else is repaired here.           *)
Short(t) == SubSeq(t, 1, IF Len(t) < MaxLen THEN Len(t) ELSE MaxLen)
Normalized(c) == EachText(Short, c)

(* What the schemas of the answer and of the spec both ask of the lists.     *)
ListsValid(c) ==
    /\ c.tags # <<>>
    /\ Distinct(c.hooks) /\ Distinct(c.tags) /\ Distinct(Questions(c))

(* anthropicCampaignCopySchema, on a copy that has been cut.                 *)
CopyValid(c) == ListsValid(c) /\ Distinct(c.visualPrompts)

(* The record of the claims the model says it left out: an entry is kept if  *)
(* the input has every claim and every figure it names.                      *)
WithOwnRecord(c, s) ==
    [c EXCEPT !.removed = Only(@, {t \in Range(@) :
        /\ Range(t) \cap Boasts # {}
        /\ Range(t) \cap (Boasts \cup Figures) \subseteq s})]

(* A question or an answer with an ungrounded term is replaced by the first  *)
(* of the server's own whose question is not taken.                          *)
WithSafeFaq_AnswersOnly(c, s) ==
    [c EXCEPT !.faq = [i \in DOMAIN c.faq |->
        IF Ungrounded(c.faq[i].a, s) THEN Fallbacks[i] ELSE c.faq[i]]]
WithSafeFaq(c, s) ==
    LET Bad(i) == Ungrounded(c.faq[i].q \o c.faq[i].a, s)
        Kept == {c.faq[i].q : i \in {j \in DOMAIN c.faq : ~Bad(j)}}
        Free == Only(Fallbacks, {f \in Range(Fallbacks) : f.q \notin Kept})
        Rank(i) == Cardinality({j \in 1..i : Bad(j)})
    IN  [c EXCEPT !.faq = [i \in DOMAIN c.faq |->
            IF Bad(i) THEN Free[Rank(i)] ELSE c.faq[i]]]

(* White space and leading # leave a tag, and one # is put before it.        *)
Join(u, w) ==
    IF u # <<>> /\ <<Last(u), w>> \in DOMAIN Glue
    THEN Append(Front(u), Glue[<<Last(u), w>>])
    ELSE Append(u, w)
Joined(t) == FoldLeft(Join, <<>>, t)
Tag(t) == Short(<<"#">> \o Joined(t))

(* Tags with an ungrounded term or a claim are dropped, the others brought   *)
(* to their form and made distinct; when none is left, one is made of the    *)
(* name, or a fixed one is taken.                                            *)
WithSafeTags_Repeating(c, s) ==
    LET kept == Only(c.tags, {t \in Range(c.tags) : ~Ungrounded(t, s) /\ ~HasClaim(t)})
    IN  [c EXCEPT !.tags = [i \in DOMAIN kept |-> Tag(kept[i])]]
WithSafeTags(c, s) ==
    LET kept == Only(c.tags, {t \in Range(c.tags) :
                                  t # <<>> /\ ~Ungrounded(t, s) /\ ~HasClaim(t)})
        tags == Once([i \in DOMAIN kept |-> Tag(kept[i])])
        fallback == IF HasClaim(Tag(c.name)) THEN <<"#", "market">> ELSE Tag(c.name)
    IN  [c EXCEPT !.tags = IF tags = <<>> THEN <<fallback>> ELSE tags]

(* The copy that will be shown, one text: groups are joined by line ends,    *)
(* which are white space to the patterns.  The lists that are not shown are  *)
(* not in it.                                                                *)
PublicCopy_NoTags(c) ==
    c.name \o FlattenSeq(c.assumptions) \o FlattenSeq(c.hooks)
    \o FlattenSeq([i \in DOMAIN c.faq |-> c.faq[i].q \o c.faq[i].a])
PublicCopy(c) ==
    c.name \o FlattenSeq(c.assumptions) \o FlattenSeq(c.hooks) \o FlattenSeq(c.tags)
    \o FlattenSeq([i \in DOMAIN c.faq |-> c.faq[i].q \o c.faq[i].a])

Safe(c, s) == ~Ungrounded(PublicCopy(c), s) /\ ~HasClaim(PublicCopy(c))

(* applyServerOwnedCampaignFields up to the safety check.                    *)
Prepared(c, s) == Normalized(WithoutChannels(c, s))
Repaired(c, s) == WithSafeTags(WithSafeFaq(WithOwnRecord(Prepared(c, s), s), s), s)

(* campaignSpecSchema on the assembled spec; its assumptions must be         *)
(* distinct, which the schema of the answer does not ask.                    *)
SpecValid(c) == ListsValid(c) /\ Distinct(c.assumptions)

-----------------------------------------------------------------------------
Init ==
    /\ source \in Sources
    /\ phase = "ready"
    /\ answer = NoCopy
    /\ spec = NoCopy
    /\ error = NoError
    /\ calls = 0

Fail(code) ==
    /\ phase' = "failed"
    /\ error' = code
    /\ UNCHANGED spec

(* The model answers with a copy c. *)
Answer(c) ==
    /\ phase = "ready"
    /\ calls' = calls + 1
    /\ answer' = c
    /\ UNCHANGED source
    /\ \/ /\ ~CopyValid(Prepared(c, source))
          /\ Fail("request_failed")
       \/ /\ CopyValid(Prepared(c, source))
          /\ ~Safe(Repaired(c, source), source)
          /\ Fail("unsafe")
       \/ /\ CopyValid(Prepared(c, source))
          /\ Safe(Repaired(c, source), source)
          /\ ~SpecValid(Repaired(c, source))
          /\ Fail("request_failed")
       \/ /\ CopyValid(Prepared(c, source))
          /\ Safe(Repaired(c, source), source)
          /\ SpecValid(Repaired(c, source))
          /\ phase' = "done"
          /\ spec' = Repaired(c, source)
          /\ error' = NoError

(* The call fails: no text in the answer, a refusal of the account or of the *)
(* schema, or anything else, a time-out included.                            *)
CallFails(code) ==
    /\ phase = "ready"
    /\ calls' = calls + 1
    /\ answer' = NoCopy
    /\ Fail(code)
    /\ UNCHANGED source

Permanent(code) == code \in {"billing", "schema", "unsafe"}

(* The lifecycle calls again after a failure that is not permanent, up to    *)
(* its limit.                                                                *)
Retry ==
    /\ phase = "failed"
    /\ ~Permanent(error)
    /\ calls < MaxCalls
    /\ phase' = "ready"
    /\ answer' = NoCopy
    /\ UNCHANGED <<source, spec, error, calls>>

Next ==
    \/ \E c \in Candidates : Answer(c)
    \/ \E code \in Errors \ {"unsafe"} : CallFails(code)
    \/ Retry

Spec == Init /\ [][Next]_vars

-----------------------------------------------------------------------------
TypeOK ==
    /\ source \in Sources
    /\ phase \in {"ready", "failed", "done"}
    /\ answer \in Candidates \cup {NoCopy}
    /\ error \in Errors \cup {NoError}
    /\ calls \in 0..MaxCalls
    /\ phase = "done" <=> spec # NoCopy

PublicTexts(c) ==
    {c.name} \cup Range(c.hooks) \cup Range(c.tags) \cup Range(c.assumptions)
    \cup UNION {{c.faq[i].q, c.faq[i].a} : i \in DOMAIN c.faq}
HiddenTexts(c) == Range(c.visualPrompts) \cup Range(c.claimsToReview) \cup Range(c.removed)

(* No text that is shown of a stored spec has a term the input did not have, *)
(* or a claim: what the repairs bring in (the server's own questions, tags   *)
(* without their spaces, cut texts) included.  Of the texts that are stored  *)
(* and not shown, none names a channel the input does not, and the record of *)
(* what was left out has no claim or figure but the input's.  The other      *)
(* terms and the claims of visualPrompts and claimsToReview are checked by   *)
(* nothing, and nothing is said of them.                                     *)
StoredCopyIsGrounded ==
    phase = "done" =>
        /\ \A t \in PublicTexts(spec) : ~Ungrounded(t, source) /\ ~HasClaim(t)
        /\ \A t \in HiddenTexts(spec) : Range(t) \cap Channels \subseteq source
        /\ \A t \in Range(spec.removed) : Range(t) \cap (Boasts \cup Figures) \subseteq source

(* An answer that satisfies its own schema and is safe is lost only for      *)
(* assumptions that repeat: the repairs never make a copy that the spec      *)
(* schema then refuses, whatever was dropped, cut or replaced.               *)
OnlyAssumptionsFailLate ==
    error = "request_failed" /\ answer # NoCopy =>
        LET p == Prepared(answer, source)
        IN  CopyValid(p) => ~Distinct(p.assumptions)

(* What can be repaired does not cost the answer: a refusal is never due to  *)
(* a term in a question or an answer, or to a channel outside the tags.      *)
RepairedFlawsDoNotReject ==
    error = "unsafe" =>
        LET r == Repaired(answer, source)
        IN  \/ HasClaim(PublicCopy(r))
            \/ \E t \in Range(r.tags) : Ungrounded(t, source)
            \/ \E t \in {r.name} \cup Range(r.hooks) \cup Range(r.assumptions) :
                   \E i \in DOMAIN t : t[i] \in (Terms \ Channels) \ source

------------------------------------------------------------------------------
(* What the documents say and the code does not do.                           *)

(* TROUBLESHOOTING.md: a claim or a term that is only in a tag costs the tag *)
(* and not the copy.  A tag that becomes a term when its spaces are removed  *)
(* does cost it.                                                             *)
TagsAloneDoNotReject ==
    error = "unsafe" =>
        ~Safe(Repaired([answer EXCEPT !.tags = <<<<"market">>>>], source), source)

(* docs/spec.md: a call that timed out is not made again automatically.  A   *)
(* time-out is one of the failures called request_failed, which are.         *)
TimeoutIsNotCalledAgain ==
    [][phase = "failed" /\ error = "request_failed" /\ answer = NoCopy
       => phase' = "failed"]_vars
=============================================================================

--------------------------- MODULE MCCampaignCopy ---------------------------
(* Answers with flaws of every kind in every field that is shown, three      *)
(* fillings of the lists that are not, two questions, and a channel that     *)
(* appears only when a tag loses its spaces.                                 *)
EXTENDS CampaignCopy

MCWords == STRING
MCTerms == {"price", "kakao", "insta"}
MCChannels == {"kakao", "insta"}
MCClaims == {"proven"}
MCClaimPairs == {<<"users", "ten">>}
MCBoasts == {"sales"}
MCFigures == {"ten"}
MCGlue == [p \in {<<"ka", "tok">>} |-> "kakao"]
MCFallbacks == <<[q |-> <<"buy">>, a |-> <<"interest">>],
                 [q |-> <<"mail">>, a |-> <<"consent">>]>>
MCSources == {{}, {"kakao"}, {"price", "insta", "sales"}}

MCNames == {<<"app">>, <<"proven">>, <<"app", "ka", "tok">>}
MCHooks == {<<<<"new">>, <<"kakao">>>>, <<<<"kakao">>, <<"insta">>>>,
            <<<<"via", "insta", "users">>, <<"new", "app", "now">>>>,
            <<<<"new", "app">>, <<"new", "app", "now">>>>,
            <<<<"now", "proven">>, <<"new">>>>, <<<<"price">>, <<"new">>>>}
MCTags == {<<<<"app">>>>, <<<<>>>>, <<<<"app">>, <<"app", "x">>>>, <<<<"x">>, <<"ka", "tok">>>>,
           <<<<"price">>, <<"insta">>>>, <<<<"users", "ten">>, <<"new">>>>}
MCFaq == {[q |-> <<"buy">>, a |-> <<"yes">>], [q |-> <<"price", "why">>, a |-> <<"low">>],
          [q |-> <<"mail">>, a |-> <<"price">>]}
MCAssumptions == {<<>>, <<<<"one">>, <<"one">>>>, <<<<"ten">>>>}
MCHidden ==
    {[visualPrompts |-> <<>>, claimsToReview |-> <<>>, removed |-> <<>>],
     [visualPrompts |-> <<<<"insta", "view">>, <<"price">>>>,
      claimsToReview |-> <<<<"proven">>, <<"via", "x", "kakao">>, <<"proven">>>>,
      removed |-> <<<<"sales", "ten">>, <<"sales">>>>],
     [visualPrompts |-> <<<<"a", "view", "of">>, <<"a", "view", "on">>>>,
      claimsToReview |-> <<>>, removed |-> <<<<"sales", "via", "kakao">>>>]}
MCCandidates ==
    {[name |-> n, hooks |-> h, tags |-> t, faq |-> <<f, g>>, assumptions |-> a,
      visualPrompts |-> u.visualPrompts, claimsToReview |-> u.claimsToReview,
      removed |-> u.removed] :
         n \in MCNames, h \in MCHooks, t \in MCTags, f \in MCFaq, g \in MCFaq,
         a \in MCAssumptions, u \in MCHidden}
=============================================================================

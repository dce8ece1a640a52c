---------------------------- MODULE MCSurveyFlow ----------------------------
(* Bounded instances of SurveyFlow for TLC.                                *)
EXTENDS SurveyFlow

\* Two questions, and two that collide; a tab without a snapshot has none.
MCSurveys == {<<"Rent", "Food">>, <<"Food", "Food">>}

\* One question, and one that collides with the completion step.
SmallSurveys == {<<"Rent">>, <<"SummaryStep">>}
=============================================================================

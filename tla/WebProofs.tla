------------------------------ MODULE WebProofs ------------------------------
(***************************************************************************)
(* The frontend as a whole: the screen HomePage has mounted runs as its    *)
(* own specification says, whichever it is, so that what is proved of each *)
(* screen holds of the application.                                        *)
(***************************************************************************)
EXTENDS MCWeb, PageProofs, DetailProofs, PanelProofs

-----------------------------------------------------------------------------
(* Each step of the application is a step of one screen, or leaves it.     *)

LEMMA ScreenStays == [WebNext]_webVars => UNCHANGED screen
  BY DEF WebNext, webVars

LEMMA ListSteps == [WebNext]_webVars => [ListNext]_pageVars
  BY DEF WebNext, Rest, webVars

LEMMA DetailSteps == [WebNext]_webVars => [DetailNext]_detailVars
  BY DEF WebNext, Rest, webVars

LEMMA HostSteps == [WebNext]_webVars => [HostNext]_hostVars
  BY DEF WebNext, Rest, webVars

LEMMA BindSteps == [WebNext]_webVars => [BindNext]_bindVars
  BY DEF WebNext, Rest, webVars

LEMMA FormsSteps == [WebNext]_webVars => [FormsNext]_formVars
  BY DEF WebNext, Rest, webVars

LEMMA SelectSteps == [WebNext]_webVars => [SelectNext]_selectVars
  BY DEF WebNext, Rest, webVars

LEMMA ImportSteps == [WebNext]_webVars => [ImportNext]_importVars
  BY DEF WebNext, Rest, webVars

LEMMA GrantsSteps == [WebNext]_webVars => [GrantsNext]_grantVars
  BY DEF WebNext, Rest, webVars

LEMMA SessionSteps == [WebNext]_webVars => [SessionNext]_sessionVars
  BY DEF WebNext, Rest, webVars

\* A screen that is not mounted does nothing.
LEMMA UnmountedRest ==
    [WebNext]_webVars => /\ screen # "list" => UNCHANGED pageVars
                         /\ screen # "addresses" => UNCHANGED hostVars
                         /\ screen # "form" => UNCHANGED formVars
                         /\ screen # "select" => UNCHANGED selectVars
                         /\ screen # "session" => UNCHANGED sessionVars
  BY DEF WebNext, Rest, webVars

-----------------------------------------------------------------------------
(* The mounted screen meets its specification.                             *)

LEMMA DetailInWeb == WebSpec => DetailSpec
  BY DetailSteps, PTL DEF WebSpec, WebInit, DetailSpec

LEMMA BindInWeb == WebSpec => BindSpec
  BY BindSteps, PTL DEF WebSpec, WebInit, BindSpec

LEMMA GrantsInWeb == WebSpec => GrantsSpec
  BY GrantsSteps, PTL DEF WebSpec, WebInit, GrantsSpec

LEMMA ImportInWeb == WebSpec => ImportSpec
  BY ImportSteps, PTL DEF WebSpec, WebInit, ImportSpec

LEMMA ListInWeb == WebSpec /\ screen = "list" => ListSpec
  <1>1. WebInit /\ screen = "list" => ListInit
    BY DEF WebInit
  <1> QED BY <1>1, ListSteps, PTL DEF WebSpec, ListSpec

LEMMA HostInWeb == WebSpec /\ screen = "addresses" => HostSpec
  <1>1. WebInit /\ screen = "addresses" => HostInit
    BY DEF WebInit
  <1> QED BY <1>1, HostSteps, PTL DEF WebSpec, HostSpec

LEMMA SelectInWeb == WebSpec /\ screen = "select" => SelectSpec
  <1>1. WebInit /\ screen = "select" => SelectInit
    BY DEF WebInit
  <1> QED BY <1>1, SelectSteps, PTL DEF WebSpec, SelectSpec

LEMMA FormsInWeb == WebSpec /\ screen = "form" => FormsSpec
  <1>1. WebInit /\ screen = "form" => FormsInit
    BY DEF WebInit
  <1> QED BY <1>1, FormsSteps, PTL DEF WebSpec, FormsSpec

LEMMA SessionInWeb == WebSpec /\ screen = "session" => SessionSpec
  <1>1. WebInit /\ screen = "session" => SessionInit
    BY DEF WebInit
  <1> QED BY <1>1, SessionSteps, PTL DEF WebSpec, SessionSpec

\* The page under test in any behaviour of the application runs as a page alone
\* would: no other screen writes its state, and its own steps are all there is.
THEOREM ScreensImplemented ==
    WebSpec => /\ screen = "list" => ListSpec
               /\ screen = "addresses" => HostSpec
               /\ screen = "form" => FormsSpec
               /\ screen = "select" => SelectSpec
               /\ screen = "session" => SessionSpec
               /\ DetailSpec /\ BindSpec /\ GrantsSpec /\ ImportSpec
  BY ListInWeb, HostInWeb, FormsInWeb, SelectInWeb, SessionInWeb, DetailInWeb, BindInWeb,
     GrantsInWeb, ImportInWeb, PTL

-----------------------------------------------------------------------------
(* The pages that are not mounted are at rest and stay so.                 *)

LEMMA ListRests ==
    ASSUME ListAtRest
    PROVE  /\ list.kind = "error" /\ mode.kind = "list" /\ dialog.op = "none"
           /\ dialog.request = "none" /\ form.request = "none"
  BY DEF ListAtRest, Loading, ListMode, IdleForm, IdleDialog

LEMMA ListUnmounted ==
    WebSpec /\ screen # "list"
       => /\ [](ListFresh /\ ShowsItsQuery /\ DialogOverItsRow)
          /\ [][FALSE]_pageVars
  <1> DEFINE Resting == screen # "list" /\ ListAtRest
  <1>1. WebInit /\ screen # "list" => Resting
    BY DEF WebInit
  <1>2. Resting /\ [WebNext]_webVars => Resting' /\ UNCHANGED pageVars
    <2> SUFFICES ASSUME Resting, [WebNext]_webVars PROVE Resting' /\ UNCHANGED pageVars
      OBVIOUS
    <2>1. UNCHANGED pageVars /\ UNCHANGED screen
      BY UnmountedRest, ScreenStays
    <2> QED BY <2>1 DEF pageVars, ListAtRest, NoRows, Loading, This
  <1>3. Resting => ListFresh /\ ShowsItsQuery /\ DialogOverItsRow
    BY ListRests DEF ListFresh, ShowsItsQuery, DialogOverItsRow
  <1> QED BY <1>1, <1>2, <1>3, PTL DEF WebSpec

LEMMA HostUnmounted == WebSpec /\ screen # "addresses" => []CompleteUnlessDeleted
  <1> DEFINE Resting == screen # "addresses" /\ HostAtRest
  <1>1. WebInit /\ screen # "addresses" => Resting
    BY DEF WebInit
  <1>2. Resting /\ [WebNext]_webVars => Resting'
    <2> SUFFICES ASSUME Resting, [WebNext]_webVars PROVE Resting'
      OBVIOUS
    <2>1. UNCHANGED hostVars /\ UNCHANGED screen
      BY UnmountedRest, ScreenStays
    <2> QED BY <2>1 DEF hostVars, HostAtRest
  <1>3. Resting => CompleteUnlessDeleted
    BY DEF HostAtRest, Showing, CompleteUnlessDeleted
  <1> QED BY <1>1, <1>2, <1>3, PTL DEF WebSpec

LEMMA SelectUnmounted == WebSpec /\ screen # "select" => []OffersCurrent
  <1> DEFINE Resting == screen # "select" /\ SelectAtRest
  <1>1. WebInit /\ screen # "select" => Resting
    BY DEF WebInit
  <1>2. Resting /\ [WebNext]_webVars => Resting'
    <2> SUFFICES ASSUME Resting, [WebNext]_webVars PROVE Resting'
      OBVIOUS
    <2>1. UNCHANGED selectVars /\ UNCHANGED screen
      BY UnmountedRest, ScreenStays
    <2> QED BY <2>1 DEF selectVars, SelectAtRest
  <1>3. Resting => OffersCurrent
    BY DEF SelectAtRest, NothingOffered, OffersCurrent
  <1> QED BY <1>1, <1>2, <1>3, PTL DEF WebSpec

LEMMA FormsUnmounted == WebSpec /\ screen # "form" => [][FALSE]_formVars
  <1>1. screen # "form" /\ [WebNext]_webVars => (screen # "form")' /\ UNCHANGED formVars
    BY UnmountedRest, ScreenStays
  <1> QED BY <1>1, PTL DEF WebSpec

\* A screen that is not mounted never is.
LEMMA NeverMounted ==
    WebSpec => /\ screen # "list" => [](screen # "list")
               /\ screen # "addresses" => [](screen # "addresses")
               /\ screen # "form" => [](screen # "form")
               /\ screen # "select" => [](screen # "select")
               /\ screen # "session" => [](screen # "session")
  <1>1. [WebNext]_webVars => /\ screen # "list" => (screen # "list")'
                             /\ screen # "addresses" => (screen # "addresses")'
                             /\ screen # "form" => (screen # "form")'
                             /\ screen # "select" => (screen # "select")'
                             /\ screen # "session" => (screen # "session")'
    BY ScreenStays
  <1> QED BY <1>1, PTL DEF WebSpec

LEMMA Mountings == /\ screen = "list" \/ screen # "list"
                   /\ screen = "addresses" \/ screen # "addresses"
                   /\ screen = "form" \/ screen # "form"
                   /\ screen = "select" \/ screen # "select"
                   /\ screen = "session" \/ screen # "session"
  OBVIOUS

-----------------------------------------------------------------------------
\* For any number of objects, versions and requests in flight: what a list page
\* shows is never older than what it was told and answers the query it is set
\* to, and a dialog covers the row it was opened from.
THEOREM WebListsCurrent == WebSpec => [](ListFresh /\ ShowsItsQuery /\ DialogOverItsRow)
  BY ListInWeb, ListUnmounted, ListsAlwaysFresh, PagesShowTheirQuery, DialogsStayOverTheirRow,
     Mountings, PTL

\* The detail page never goes back behind what it was told; the addresses of a
\* Resource are complete unless an interface was deleted while they were listed;
\* the results of a binding, those gathered and those shown at the end, tell what
\* the server did; a select offers what was asked for under what is chosen and
\* holds a child that was under it, or the interface bound now; the
\* authorizations shown are those of the account chosen.
THEOREM WebScreensCurrent ==
    WebSpec => []( /\ DetailFresh /\ CompleteUnlessDeleted /\ TruthfulResults
                   /\ OffersCurrent /\ AuthorizationsCurrent )
  BY DetailInWeb, DetailsAlwaysFresh, HostInWeb, HostUnmounted, NothingLeftOut,
     BindInWeb, ResultsAlwaysTruthful, SelectInWeb, SelectUnmounted, OffersAlwaysCurrent,
     GrantsInWeb, AuthorizationsAlwaysCurrent, Mountings, PTL

\* The import panel imports the file it showed validated, all of it or nothing.
THEOREM WebImportsWhole == WebSpec => [](ImportsWhatWasValidated /\ BatchesWhole)
  BY ImportInWeb, AlwaysImportsWhatWasValidated, BatchesAlwaysWhole, PTL

\* No write of the application lands on a version whose values the user did not
\* have before their eyes, no binding takes an address from another interface, and
\* a form leaves the object as it was typed, a CIDR, a hostname and a username in
\* the server's normal form of what was typed.
THEOREM WebWritesWhatItShows ==
    WebSpec => NoBlindOverwrite /\ EditsWhatItShows /\ NeverSteals /\ SavesWhatWasTyped
  <1>1. WebSpec /\ screen = "list" => NoBlindOverwrite
    BY ListInWeb, NeverOverwritesBlindly, PTL
  <1>2. WebSpec /\ screen # "list" => NoBlindOverwrite
    BY ListUnmounted, PTL DEF NoBlindOverwrite
  <1>3. WebSpec /\ screen = "form" => SavesWhatWasTyped
    BY FormsInWeb, AlwaysSavesWhatWasTyped, PTL
  <1>4. WebSpec /\ screen # "form" => SavesWhatWasTyped
    BY FormsUnmounted, PTL DEF SavesWhatWasTyped
  <1> QED BY <1>1, <1>2, <1>3, <1>4, DetailInWeb, AlwaysEditsWhatItShows, BindInWeb, BindingNeverSteals,
            Mountings, PTL

-----------------------------------------------------------------------------
\* The types of the state of the mounted screen, whichever it is: every inductive
\* invariant above in one statement about the application.
THEOREM WebTyping == WebSpec => []WebTypeOK
  <1>1. WebSpec => [](screen # "list" \/ ListTypeOK)
    BY ListInWeb, ListTyping, NeverMounted, Mountings, PTL
  <1>2. WebSpec => [](screen # "addresses" \/ HostTypeOK)
    BY HostInWeb, HostTyping, NeverMounted, Mountings, PTL
  <1>3. WebSpec => [](screen # "form" \/ FormsTypeOK)
    BY FormsInWeb, FormsTyping, NeverMounted, Mountings, PTL
  <1>4. WebSpec => [](screen # "select" \/ SelectTypeOK)
    BY SelectInWeb, SelectTyping, NeverMounted, Mountings, PTL
  <1>5. WebSpec => [](screen # "session" \/ SessionTypeOK)
    BY SessionInWeb, SessionTyping, NeverMounted, Mountings, PTL
  <1>6. WebSpec => [](DetailTypeOK /\ BindTypeOK /\ ImportTypeOK /\ GrantsTypeOK)
    BY DetailInWeb, DetailTyping, BindInWeb, BindTyping, ImportInWeb, ImportTyping,
       GrantsInWeb, GrantsTyping, PTL
  <1>7. /\ screen # "list" \/ ListTypeOK
        /\ screen # "addresses" \/ HostTypeOK
        /\ screen # "form" \/ FormsTypeOK
        /\ screen # "select" \/ SelectTypeOK
        /\ screen # "session" \/ SessionTypeOK
        /\ DetailTypeOK /\ BindTypeOK /\ ImportTypeOK /\ GrantsTypeOK
        => WebTypeOK
    BY DEF WebTypeOK
  <1> QED BY <1>1, <1>2, <1>3, <1>4, <1>5, <1>6, <1>7, PTL
=============================================================================

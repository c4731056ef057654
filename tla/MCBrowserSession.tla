-------------------------- MODULE MCBrowserSession --------------------------
(* Two refused selections, three offers, three candidates of the hub (one  *)
(* before, one during, one after the first offer), two of the page.        *)
EXTENDS BrowserSession
=============================================================================

---------------------------- MODULE CatalogueServices ----------------------------
(***************************************************************************)
(* The services that fill a store: drafts from Instagram, images, themes,  *)
(* reviews, and what a product says of the stock of its variants.  They    *)
(* share no row.                                                           *)
(***************************************************************************)
EXTENDS InstagramDrafts, MediaLibrary, ThemeVersions, Reviews, ProductStock

catalogueVars == <<draftVars, mediaVars, themeVars, reviewVars, stockVars>>

\* What a row repeats about others (Reviews, ProductStock) agrees with them.
AggregatesMatchRows == CountersMatchRows /\ ShelfMatchesVariants
=============================================================================

----------------------------- MODULE DocsRouter -----------------------------
(***************************************************************************)
(* cloudflare/zevm-docs-worker/src/index.js, which serves the built docs   *)
(* below /docs, between a browser that follows redirects and Cloudflare    *)
(* Assets, which has its own idea of where pages live and redirects to     *)
(* paths without the prefix.                                               *)
(*                                                                         *)
(* A path is its segments and whether a slash ends it; a segment is a name *)
(* and an extension.                                                       *)
(***************************************************************************)
EXTENDS Sequences, SequencesExt

CONSTANTS
  Word,    \* names and extensions of segments
  Visits,  \* paths a visitor may ask for
  Files,   \* the build: sequences of segments
  Missing, \* "Not found", 404
  Refused, \* the assets take GET and HEAD only
  NoAnswer

Segment(name, ext) == <<name, ext>>
Path(seg, slash) == [seg |-> seg, slash |-> slash]

Docs == Segment("docs", "")
NotFoundPage == Segment("404", "")
Root == Path(<<>>, TRUE)
ExportDir == {Segment("_astro", ""), Segment("pagefind", "")}

(* The paths of URLs: a path without segments is a slash.                  *)
URL == {path \in [seg : Seq(Word \X Word), slash : BOOLEAN] :
          path.seg = <<>> => path.slash}

(* What Astro's build is like with its format "directory": every page is   *)
(* the index.html of a directory but for the 404 page, other files have    *)
(* extensions too, there are no pages among the exported assets nor at     *)
(* /docs of the build, and directories with pages are not named like them. *)
ASSUME RouterAssumption ==
  /\ {"docs", "404", "index", "_astro", "pagefind", "", ".html"} \subseteq Word
  /\ Visits \subseteq URL
  /\ Files \subseteq Seq(Word \X Word) \ {<<>>}
  /\ \A f \in Files : Last(f)[2] # "" /\ Head(f) # Docs
  /\ \A f \in Files \ {<<Segment("404", ".html")>>} : Last(f)[2] = ".html" =>
       /\ Last(f)[1] = "index"
       /\ \A i \in 1..Len(f) - 1 : f[i] # Segment("index", "") /\ f[i][2] # ".html"
       /\ Front(f) # <<NotFoundPage>>
       /\ Head(f) \notin ExportDir
  /\ {Missing, Refused, NoAnswer} \cap (Files \cup URL) = {}
  /\ Missing # Refused /\ NoAnswer \notin {Missing, Refused}

VARIABLES
  first,  \* what the visitor asked for
  method,
  url,    \* where the browser is
  answer  \* the file shown, Missing or Refused; NoAnswer while it is redirected

routerVars == <<first, method, url, answer>>

RouterInit ==
  /\ first \in Visits
  /\ method \in {"GET", "POST"}
  /\ url = first
  /\ answer = NoAnswer

-----------------------------------------------------------------------------
(* An answer is a record: a file or an error, or a redirect. *)

Show(x) == [to |-> NoAnswer, show |-> x]
Redirect(path) == [to |-> path, show |-> NoAnswer]
NotFound == Show(Missing)

IndexIn(dir) == dir \o <<Segment("index", ".html")>>

(* Cloudflare Assets with its default html_handling: a/index.html lives at *)
(* a/, and a.html at a; any other spelling of a page is redirected there.  *)
AtSlash(seg) ==
  IF IndexIn(seg) \in Files THEN Show(IndexIn(seg))
  ELSE IF seg # <<>> /\ Last(seg)[2] = "" /\ Front(seg) \o <<Segment(Last(seg)[1], ".html")>> \in Files
       THEN Redirect(Path(seg, FALSE))
  ELSE NotFound

AtName(seg) ==
  LET dir  == Front(seg)
      name == Last(seg)[1]
      ext  == Last(seg)[2]
      page == dir \o <<Segment(name, "")>>
      html == dir \o <<Segment(name, ".html")>>
  IN IF name = "index" /\ ext \in {"", ".html"} /\ html \in Files THEN Redirect(Path(dir, TRUE))
     ELSE IF ext = ".html" /\ html \in Files THEN Redirect(Path(page, FALSE))
     ELSE IF ext = ".html" /\ IndexIn(page) \in Files THEN Redirect(Path(page, TRUE))
     ELSE IF seg \in Files THEN Show(seg)
     ELSE IF ext = "" /\ html \in Files THEN Show(html)
     ELSE IF IndexIn(seg) \in Files THEN Redirect(Path(seg, TRUE))
     ELSE NotFound

Assets(path) ==
  IF method # "GET" THEN Show(Refused)
  ELSE IF path.slash THEN AtSlash(path.seg) ELSE AtName(path.seg)

IsExportAssetPath(path) ==
  \/ path.seg # <<>> /\ Head(path.seg) \in ExportDir
     /\ (Len(path.seg) > 1 \/ path.slash)
  \/ path \in {Path(<<Segment("favicon", ".svg")>>, FALSE),
               Path(<<Segment("sitemap-index", ".xml")>>, FALSE),
               Path(<<Segment("sitemap-0", ".xml")>>, FALSE)}

(* Mutant: any last segment passes for a file.                             *)
HasAnyLastSegment(path) == ~path.slash /\ path.seg # <<>>

HasFileExtension(path) == ~path.slash /\ path.seg # <<>> /\ Last(path.seg)[2] # ""

(* Mutant: no answer of the worker's own for the page of the 404.          *)
BelowDocsWithout404(path) ==
  IF ~HasFileExtension(path) /\ ~path.slash
  THEN Redirect(Path(path.seg, TRUE))
  ELSE Assets(Path(Tail(path.seg), path.slash))

(* Paths that start with /docs/.                                           *)
BelowDocs(path) ==
  IF path.seg = <<Docs, NotFoundPage>> THEN NotFound
  ELSE IF ~HasFileExtension(path) /\ ~path.slash
       THEN Redirect(Path(path.seg, TRUE))
  ELSE Assets(Path(Tail(path.seg), path.slash))

Fetch(path) ==
  IF path = Root THEN Redirect(Path(<<Docs>>, FALSE))
  ELSE IF path = Path(<<Docs>>, FALSE) THEN Assets(Root)
  ELSE IF Head(path.seg) = Docs THEN BelowDocs(path)
  ELSE IF IsExportAssetPath(path) THEN Assets(path)
  ELSE IF method = "GET" THEN Redirect(Path(<<Docs>> \o path.seg, path.slash))
  ELSE NotFound

(* A browser follows every redirect, and with a GET.                       *)
Browse ==
  /\ answer = NoAnswer
  /\ LET r == Fetch(url) IN
     IF r.to = NoAnswer
     THEN answer' = r.show /\ UNCHANGED <<url, method>>
     ELSE url' = r.to /\ method' = "GET" /\ UNCHANGED answer
  /\ UNCHANGED first

(* Fairness: the worker answers every request (it awaits only the assets). *)
RouterSpec == RouterInit /\ [][Browse]_routerVars /\ WF_routerVars(Browse)

-----------------------------------------------------------------------------
(* Properties. *)

RouterTypeOK ==
  /\ first \in Visits
  /\ method \in {"GET", "POST"}
  /\ url \in URL
  /\ answer \in Files \cup {Missing, Refused, NoAnswer}

(* The worker adds the prefix and a slash, the assets take both away: no   *)
(* path sends a browser round for ever, the 404 page's included, unless it *)
(* spells out the name index, which the assets never show where it is.     *)
RedirectsEnd ==
  (answer = NoAnswer /\ \A i \in 1..Len(first.seg) : first.seg[i] # Segment("index", ""))
    ~> answer # NoAnswer

(* What a path names below /docs, or at the root as old links do.          *)
Below(path) ==
  IF path.seg # <<>> /\ Head(path.seg) = Docs THEN Tail(path.seg) ELSE path.seg

(* The file that is for: a page with a final slash, without, or with its   *)
(* .html, or any other file; the page for the 404 is for none.             *)
Named(below, slash) ==
  LET page == IF slash \/ below = <<>> \/ Last(below)[2] # ".html" THEN below
              ELSE IF Last(below)[1] = "index" THEN Front(below)
              ELSE Front(below) \o <<Segment(Last(below)[1], "")>>
  IN {f \in Files : f = IndexIn(page) \/ (f = below /\ ~slash)}
     \ {<<Segment("404", ".html")>>}

Meant(path) == Named(Below(path), path.slash)

(* Whoever asks for a page or a file of the docs, below /docs or, as old   *)
(* links do, at the root, sees it and nothing else, and no path shows the  *)
(* 404 page as if it were found.                                           *)
PagesAreFound ==
  /\ answer \in Files => answer \in Meant(first)
  /\ answer = Missing /\ method = "GET" => Meant(first) = {}
=============================================================================

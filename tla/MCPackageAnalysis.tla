-------------------------- MODULE MCPackageAnalysis --------------------------
(***************************************************************************)
(* Instances of PackageAnalysis for TLC.                                   *)
(***************************************************************************)
EXTENDS PackageAnalysis, TLC

CONSTANTS w1, r1, v1, v2

MCFileType == [x \in {"index.js", "a.js", "b.js", "package.json", "PKG-INFO", "bin"} |->
  CASE x \in {"index.js", "a.js", "b.js"} -> "javascript"
    [] x = "package.json" -> "json"
    [] OTHER -> "other"]

\* A rules document, and one that gives an identity twice.
Builtin == [id |-> "node.x", symbol |-> << "x", "y" >>, tokens |-> {<< "x" >>},
            severity |-> "low", suppress |-> FALSE]
Risk == [id |-> "risk.u", symbol |-> << "u" >>, tokens |-> {<< "u" >>},
         severity |-> "high", suppress |-> TRUE]
Native == [id |-> "native", types |-> {"elf"}, native |-> TRUE, severity |-> "high"]
RulesOf(version) ==
  [schema |-> "1", version |-> version, metadata |-> "meta",
   subject |-> << "package", "package.json" >>, marker |-> << "m" >>,
   builtins |-> << Builtin >>, risks |-> << Risk >>, types |-> << Native >>,
   lifecycles |-> << [id |-> "install", severity |-> "high"] >>]
AmbiguousRules == [RulesOf("v1") EXCEPT !.types = << [Native EXCEPT !.id = "meta"] >>]
MCRules == {RulesOf("v1"), RulesOf("v2"), AmbiguousRules}

-----------------------------------------------------------------------------
\* Archives.

NoDocument == [ok |-> FALSE]
File(path, text, document) ==
  [path |-> path, rooted |-> FALSE, kind |-> "file", size |-> Len(text),
   text |-> text, target |-> << >>, targetRooted |-> FALSE, cut |-> FALSE,
   document |-> document]
Manifest(name, version) ==
  [ok |-> TRUE, name |-> name, version |-> version, scripts |-> {"install"},
   groups |-> TRUE, dependencies |-> {<< "runtime", "b" >>}]
Link(target) == [File(<< "package", "l" >>, << >>, NoDocument) EXCEPT
                   !.kind = "link", !.target = target]

Name == << "a" >>
Version == [release |-> << 1, 0 >>, label |-> "", number |-> {},
            separated |-> FALSE, rest |-> FALSE]
SameVersion == [Version EXCEPT !.release = << 1 >>]
Package == File(<< "package", "package.json" >>, << "j" >>, Manifest(Name, Version))
Source(name, text) == File(<< "package", name >>, text, NoDocument)
EmptyHeader == [Source("index.js", << >>) EXCEPT !.kind = "end"]

\* A window that would begin inside a character; that would end inside one, and
\* a symbol at the end of the text; a symbol without its second byte in a long
\* line, and one beside a marker. A line cut inside a character.
Plain == << "nl", "a", "hd", "tl", "a", "x", "y", "a", "a", "nl" >>
AtEnd == << "nl", "a", "hd", "tl", "nl", "a", "u", "a", "hd", "tl", "x", "y" >>
Lone  == << "a", "nl", "x", "a", "a", "a", "hd", "tl", "u", "m", "nl" >>
Split == << "x", "a", "hd", "tl", "y" >>

MCArchives ==
  [good |-> << Package, Source("index.js", Plain), Source("a.js", AtEnd),
               Link(<< "index.js" >>), Source("b.js", Lone),
               EmptyHeader, Package >>,
   split |-> << Package, Source("index.js", Split) >>,
   twice |-> << Package, Source("index.js", << "u" >>), Source("index.js", << >>) >>,
   nested |-> << [Package EXCEPT !.path = << "package", "b", "package.json" >>,
                                 !.document.name = << "b" >>], Package >>,
   sdist |-> << File(<< "a-1", "PKG-INFO" >>, << "j" >>, Manifest(<< "A" >>, SameVersion)),
                File(<< "a-1", "bin" >>, << "elf" >>, NoDocument) >>,
   link |-> << Package, Link(<< "..", "b" >>) >>]

MCSize == [a \in DOMAIN MCArchives |-> 5]

-----------------------------------------------------------------------------
\* What the registries answer.

Home == [insecure |-> TRUE, host |-> "home"]
Elsewhere == [insecure |-> FALSE, host |-> "elsewhere"]
Url(artifact, origin) ==
  [form |-> "https", origin |-> origin, artifact |-> artifact]
Dist(artifact, algorithm, of) ==
  [tarball |-> Url(artifact, Home),
   integrity |-> [algorithm |-> algorithm, of |-> of]]
NoDist == [tarball |-> NoUrl, integrity |-> [algorithm |-> ""]]
NpmDocument(artifact) ==
  [ok |-> TRUE, name |-> Name, version |-> Version, flat |-> NoDist,
   dist |-> Dist(artifact, "sha512", artifact)]
Release(artifact, origin) ==
  [type |-> "sdist", suffix |-> "tar.gz", yanked |-> FALSE, nested |-> FALSE,
   url |-> Url(artifact, origin), sha256 |-> [whole |-> TRUE, of |-> artifact],
   size |-> 5, complete |-> TRUE]
Wheel == [Release("sdist", Home) EXCEPT !.type = "bdist_wheel", !.suffix = "whl"]
PypiDocument(files) ==
  [ok |-> TRUE, name |-> << "A" >>, version |-> SameVersion, files |-> files]

MCDeclarations == {"npm", "pypi", "both", "unnamed"}
Row(registry) == [registry |-> registry, name |-> Name, version |-> Version]
MCRows == [npm |-> << Row("npm"), Row("npm") >>, pypi |-> << Row("pypi") >>,
           both |-> << Row("npm"), Row("pypi") >>,
           unnamed |-> << [Row("pypi") EXCEPT !.name = << "-" >>] >>]
MCDocuments ==
  [npm |-> {NpmDocument(a) : a \in {"good", "split", "twice", "nested", "link"}}
             \cup {[NpmDocument("good") EXCEPT !.flat = Dist("good", "sha1", "good")]},
   pypi |-> {PypiDocument(<< Wheel, Release("sdist", Home) >>),
             PypiDocument(<< Wheel >>),
             PypiDocument(<< Release("sdist", Elsewhere) >>)},
   both |-> {}, unnamed |-> {}]

MCDispositions == {"expected", "suspicious"}
=============================================================================

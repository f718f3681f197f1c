--------------------------- MODULE PackageMetadata ---------------------------
(***************************************************************************)
(* What the analyzer accepts of a package registry's answer: the exact     *)
(* version, where its artifact is and what integrity was published         *)
(* (parse_npm_version_metadata, parse_pypi_release_metadata and the two    *)
(* verifications in src/src/analyze.cpp, src/src/acquisition.cpp), and     *)
(* which package record of the catalog is meant (resolve_exact_package).   *)
(*                                                                         *)
(* A name is a sequence of characters. An npm version is any value; a PyPI *)
(* version is a record of the parts the parser tells apart: release        *)
(* numbers, label, number after the label (a set, empty if none), whether  *)
(* separators stand around the label, and whether a rest follows. A URL    *)
(* is a record of its origin, its form and the artifact it names. Missing  *)
(* strings are "".                                                         *)
(***************************************************************************)
EXTENDS Naturals, Sequences

CONSTANTS
  MaxReleaseFiles,    \* maximum_release_files
  MaxArtifact         \* maximum_tarball_bytes

Refusal == [ok |-> FALSE]
NoUrl == [form |-> "missing"]

-----------------------------------------------------------------------------
(* Names and versions                                                      *)

Letters == {"a", "b"}
Capitals == [A |-> "a", B |-> "b"]
Alphanumeric == Letters \cup DOMAIN Capitals
Separators == {"-", "_", "."}

lower(c) == IF c \in DOMAIN Capitals THEN Capitals[c] ELSE c

\* One dash for a run of separators.
normalize_pypi_project_name(name) ==
  LET kept == SelectSeq([i \in DOMAIN name |-> i], LAMBDA i :
                i = 1 \/ name[i] \in Alphanumeric \/ name[i - 1] \in Alphanumeric)
  IN IF \/ name = << >>
        \/ name[1] \notin Alphanumeric \/ name[Len(name)] \notin Alphanumeric
        \/ \E i \in DOMAIN name : name[i] \notin Alphanumeric \cup Separators
     THEN Refusal
     ELSE [ok |-> TRUE,
           name |-> [j \in DOMAIN kept |->
             IF name[kept[j]] \in Separators THEN "-" ELSE lower(name[kept[j]])]]

SameProject(left, right) ==
  /\ normalize_pypi_project_name(left).ok
  /\ normalize_pypi_project_name(left) = normalize_pypi_project_name(right)

\* 0, 1 and 2 as in the code; other labels have no identity.
PrereleaseKind ==
  [a |-> 0, alpha |-> 0, b |-> 1, beta |-> 1,
   rc |-> 2, c |-> 2, pre |-> 2, preview |-> 2]

\* Trailing zeros of the release, its first number excepted, are dropped.
Significant(release) ==
  {i \in DOMAIN release : i = 1 \/ \E j \in DOMAIN release :
     j >= i /\ release[j] # 0}

parse_pypi_version_identity(version) ==
  IF \/ version.release = << >> \/ version.rest
     \/ version.label = "" /\ (version.separated \/ version.number # {})
     \/ version.label # "" /\ version.label \notin DOMAIN PrereleaseKind
  THEN Refusal
  ELSE [ok |-> TRUE,
        release |-> [i \in Significant(version.release) |-> version.release[i]],
        prerelease |->
          IF version.label = "" THEN {}
          ELSE {<< PrereleaseKind[version.label],
                   IF version.number = {} THEN 0
                   ELSE CHOOSE n \in version.number : TRUE >>}]

pypi_versions_equivalent(left, right) ==
  \/ left = right
  \/ /\ parse_pypi_version_identity(left).ok
     /\ parse_pypi_version_identity(left) = parse_pypi_version_identity(right)

-----------------------------------------------------------------------------
(* Release metadata                                                        *)

\* The flat form of dist wins when it is complete.
parse_npm_version_metadata(document, name, version) ==
  LET complete(dist) == dist.tarball # NoUrl /\ dist.integrity.algorithm # ""
      dist == IF complete(document.flat) THEN document.flat ELSE document.dist
  IN IF /\ document.ok
        /\ document.name = name /\ name # << >> /\ document.version = version
        /\ complete(dist)
     THEN [ok |-> TRUE, url |-> dist.tarball, integrity |-> dist.integrity]
     ELSE Refusal

valid_https_url(url) == url.form \in {"https", "loopback"}

\* What every file that comes into question must satisfy, or none is chosen.
validate_common(file) ==
  /\ ~file.nested /\ valid_https_url(file.url)
  /\ file.sha256.whole /\ file.size \in 1 .. MaxArtifact

pypi_tar_gzip_sdist(file) == file.type = "sdist" /\ file.suffix = "tar.gz"

select_pypi_sdist_artifact(files) ==
  LET usable == SelectSeq(files, LAMBDA file :
                  ~file.yanked /\ pypi_tar_gzip_sdist(file))
  IN IF /\ Len(files) <= MaxReleaseFiles /\ Len(usable) = 1
        /\ validate_common(usable[1])
     THEN [ok |-> TRUE, url |-> usable[1].url,
           integrity |-> [algorithm |-> "pypi", of |-> usable[1].sha256.of,
                          size |-> usable[1].size]]
     ELSE Refusal

\* A file without one of its fields refuses the release, used or not.
parse_pypi_release_metadata(document, name, version) ==
  IF /\ document.ok
     /\ SameProject(document.name, name)
     /\ pypi_versions_equivalent(document.version, version)
     /\ \A i \in DOMAIN document.files : document.files[i].complete
  THEN select_pypi_sdist_artifact(document.files)
  ELSE Refusal

ReleaseMetadata(registry, document, name, version) ==
  IF registry = "pypi" THEN parse_pypi_release_metadata(document, name, version)
  ELSE parse_npm_version_metadata(document, name, version)

\* A package registry on the loopback without TLS must serve the artifact too.
ForeignLoopback(registry, release, origin) ==
  registry = "pypi" /\ origin.insecure /\ release.url.origin # origin

-----------------------------------------------------------------------------
(* Integrity of the bytes that came                                        *)

verify_npm_integrity(artifact, integrity) ==
  integrity.algorithm \in {"sha256", "sha512"} /\ integrity.of = artifact

verify_pypi_integrity(artifact, size, integrity) ==
  integrity.size = size /\ integrity.of = artifact

Verified(registry, artifact, size, integrity) ==
  IF registry = "pypi" THEN verify_pypi_integrity(artifact, size, integrity)
  ELSE verify_npm_integrity(artifact, integrity)

-----------------------------------------------------------------------------
(* Which package of a server version is meant                              *)

\* Several rows are one package when registry, identifier and version agree;
\* the identifiers agree, the query asked for one. The first row is used.
resolve_exact_package(rows) ==
  IF \/ rows = << >>
     \/ \E i \in DOMAIN rows :
          rows[i].registry # rows[1].registry \/ rows[i].version # rows[1].version
     \/ rows[1].registry \notin {"npm", "pypi"}
     \/ rows[1].version = << >>
  THEN Refusal
  ELSE [ok |-> TRUE, package |-> rows[1]]

\* What the manifest in the archive must name.
SameIdentity(package, name, version) ==
  IF package.registry = "pypi"
  THEN SameProject(package.name, name)
         /\ pypi_versions_equivalent(version, package.version)
  ELSE name = package.name /\ version = package.version

=============================================================================

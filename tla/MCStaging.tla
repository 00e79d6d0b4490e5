------------------------------ MODULE MCStaging ------------------------------
(* The loader and one plugin package.  One of the two has its usual entries; of
   the other every archive of some entries of a pool is tried. *)
EXTENDS Staging, FiniteSets

CONSTANT MaxExtra   \* further entries of the archive that varies

F(path) == [path |-> path, kind |-> "file"]
D(path) == [path |-> path, kind |-> "dir"]

MCPlugins == <<"vcf">>
MCManagedFile == {"winhttp.dll"}
MCManagedDir == {<<"dotnet">>, <<"BepInEx", "core">>}
MCRequiredDir == {<<"BepInEx", "core">>}
MCAllowed == [p \in {"vcf"} |-> {"VCF.dll"}]
MCDll == {"VCF.dll", "vcf.dll", "Other.dll"}
MCLower == [n \in MCDll |-> IF n = "VCF.dll" THEN "vcf.dll" ELSE n]

Loader == <<F(ManifestPath), F(<<Wrapper, "winhttp.dll">>), F(<<Wrapper, "BepInEx", "core", "a">>),
            F(<<Wrapper>> \o ConfigPath)>>
Plugin == <<F(ManifestPath), F(<<"plugins", "VCF.dll">>)>>

LoaderPool ==
  {F(<<Wrapper, "dotnet">>), F(<<Wrapper, "dotnet", "b">>), D(<<Wrapper, "dotnet">>), D(<<Wrapper>>), F(<<Wrapper>>),
   F(<<Wrapper, "dotnet", "b", "c">>), F(<<Wrapper, "..", "b">>), F(<<"readme">>), D(<<"docs">>), F(<<"docs", "x">>)}
PluginPool ==
  {F(ManifestPath), D(ManifestPath), F(<<"VCF.dll">>), F(<<"vcf.dll">>), F(<<"plugins", "VCF.dll">>),
   F(<<"plugins", "vcf.dll">>), F(<<"Other.dll">>), D(<<"plugins">>), F(<<"plugins">>), F(<<"plugins", "readme">>),
   F(<<"plugins", "sub", "VCF.dll">>), F(<<"readme">>), [path |-> <<"VCF.dll">>, kind |-> "link"]}

Archives(entries) == [entries |-> entries, intact |-> TRUE]
Short(pool) == UNION {[1 .. n -> pool] : n \in 0 .. MaxExtra}

Given(l, p) == [q \in {"bepinex", "vcf"} |-> Archives(IF q = "bepinex" THEN l ELSE p)]
Usual == Given(Loader, Plugin)

(* The extra entries before or after the usual ones *)
MCInputs ==
  {Given(Loader \o x, Plugin) : x \in Short(LoaderPool)} \cup {Given(x \o Loader, Plugin) : x \in Short(LoaderPool)}
  \cup {Given(Loader, <<F(ManifestPath)>> \o x) : x \in Short(PluginPool)}
  \cup {Given(Loader, x \o Plugin) : x \in Short(PluginPool)}
  \cup {[Usual EXCEPT ![p].intact = FALSE] : p \in {"bepinex", "vcf"}}
  \cup {Given(SelectSeq(Loader, LAMBDA e : e # Loader[n]), Plugin) : n \in 1 .. Len(Loader)}

=============================================================================

------------------------------ MODULE Identifiers ------------------------------
(***************************************************************************)
(* graph/identifiers.py: the keys of the nodes of one GitHub repository.   *)
(* Chunks and the graph are made with the same ones.  d is a class with    *)
(* the path of its file, m a method with its class and that path; a        *)
(* constructor has a name that no method has.                              *)
(***************************************************************************)

FileKey(p)     == <<"File", p>>
PackageKey(n)  == <<"Package", n>>
ClassKey(d)    == <<"Class", d.path, d.class.kind, d.class.qualified_name>>
MethodKey(m)   == <<"Method", m.path, m.class.kind, m.class.qualified_name,
                    m.method.name, m.method.signature>>
VersionKey(m)  == <<"MethodVersion", m.path, m.class.kind, m.class.qualified_name,
                    m.method.name, m.method.signature, m.method.text>>
EndpointKey(r) == <<"Endpoint", r>>
================================================================================

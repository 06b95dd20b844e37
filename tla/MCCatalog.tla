------------------------------- MODULE MCCatalog -------------------------------
(* A catalog whose schema, where it has no _common_metadata, is read from the files of a        *)
(* partition, which a walk of the dataset also lists.                                           *)
EXTENDS CatalogProperties, TLC

CONSTANTS files, schema

AParts == {files, schema}
SchemaNeedsFiles == files :> {} @@ schema :> {files}
================================================================================

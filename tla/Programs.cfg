\* The bounds stand in the module.
SPECIFICATION Spec
INVARIANT TextRight
 

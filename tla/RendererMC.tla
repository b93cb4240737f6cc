----------------------------- MODULE RendererMC -----------------------------
(* Renderer with the images of a swapchain interchangeable: no step tells  *)
(* one image from another.  Only for safety, which symmetry preserves.     *)
EXTENDS Renderer

ImageSymmetry == Permutations(Images)
=============================================================================
